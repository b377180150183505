---------------------------- MODULE HumanAttention ----------------------------
(***************************************************************************)
(* Durable human attention of one Attempt: the requests in the Worker's    *)
(* SQLite (dispatch/registry.ts), the control authority that binds native  *)
(* harness operations to them (harnesses/control/authority.ts), and the    *)
(* native wait on the other end of the loopback bridge.                    *)
(*                                                                         *)
(* A Worker restart forgets contexts, waiters and the ledger of response   *)
(* operations; the request row and the lineage's projection survive.       *)
(* Questions and answers are opaque: what matters is which request is      *)
(* active and how often its answer crossed into the native callback.       *)
(***************************************************************************)
EXTENDS Naturals

CONSTANTS
  MaxRequests,   \* bound: questions asked by the Attempt
  MaxBinds,      \* bound: control contexts bound
  MaxRestarts    \* bound: Worker restarts

AttentionAssumption ==
  MaxRequests \in Nat \ {0} /\ MaxBinds \in Nat \ {0} /\ MaxRestarts \in Nat

VARIABLES
  generation,    \* controller generation: one per Worker process
  recoverable,   \* the adapter's waits can be rebound (rebind_exact)
  token,         \* the bound control context, 0 when there is none
  binds,         \* contexts bound so far
  request,       \* the newest row of human_attention_requests
  projected,     \* lineage.attention is that request
  waiter,        \* context of the native wait in attentionWaiters, 0 when none
  ledger,        \* requests with a response operation in this process
  receiving,     \* a response operation awaits its session report
  native,        \* the native callback: none, waiting, holding, done
  running        \* the dispatch is accepted or running

vars == <<generation, recoverable, token, binds, request, projected, waiter,
          ledger, receiving, native, running>>

NoRequest ==
  [id |-> 0, response |-> "none", delivery |-> "response_not_delivered",
   controller |-> 0, handed |-> 0]

Init ==
  /\ generation = 1 /\ recoverable \in BOOLEAN
  /\ token = 0 /\ binds = 0
  /\ request = NoRequest /\ projected = FALSE
  /\ waiter = 0 /\ ledger = {} /\ receiving = FALSE
  /\ native = "none" /\ running = TRUE

(* assertCurrent: the context is bound and the dispatch still active. *)
Current == token # 0 /\ running

(* activeHumanAttentionRequest *)
ActiveRequest ==
  \/ request.response = "pending"
  \/ request.response = "responded" /\ request.delivery # "delivery_acknowledged"

(* assertAttentionWaitBinding *)
WaitBinding == request.id # 0 /\ (request.controller = generation \/ recoverable)
-----------------------------------------------------------------------------
(* DispatchRegistry *)

(* registerHumanAttention: a new row, when none is active *)
Registered ==
  [NoRequest EXCEPT !.id = request.id + 1, !.response = "pending",
                    !.controller = generation]

(* recordHumanAttentionResponse *)
Responded == [request EXCEPT !.response = "responded"]

(* acknowledgeHumanAttentionDelivery: only a requested delivery *)
Acknowledged == [request EXCEPT !.delivery = "delivery_acknowledged"]

(* Mutant: an answer whose delivery was requested may be handed out again. *)
beginHumanAttentionDelivery_replay ==
  IF request.response = "responded"
  THEN /\ request' = [request EXCEPT !.delivery = "delivery_requested",
                                     !.handed = @ + 1]
       /\ native' = "holding"
  ELSE UNCHANGED <<request, native>>

(* The committed answer is handed to the native wait, once: delivery is     *)
(* recorded as requested in the same step, and refused in any later state.  *)
beginHumanAttentionDelivery ==
  IF /\ request.response = "responded"
     /\ request.delivery = "response_not_delivered"
  THEN /\ request' = [request EXCEPT !.delivery = "delivery_requested",
                                     !.handed = @ + 1]
       /\ native' = "holding"
  ELSE UNCHANGED <<request, native>>

(* markHumanAttentionDeliveryUncertain *)
Uncertain(r) ==
  IF r.delivery = "delivery_requested"
  THEN [r EXCEPT !.delivery = "delivery_uncertain"] ELSE r

(* cancelHumanAttention: terminal states and acknowledged deliveries stay. *)
Cancelled(r, state) ==
  IF r.response \in {"cancelled", "obsolete"}
     \/ r.delivery = "delivery_acknowledged"
  THEN r ELSE [r EXCEPT !.response = state]
-----------------------------------------------------------------------------
(* HarnessControlAuthority *)

(* invalidate: the waiter is rejected, an unacknowledged delivery becomes   *)
(* uncertain.                                                               *)
InvalidatedRequest == IF token # 0 /\ ActiveRequest THEN Uncertain(request)
                                                    ELSE request

(* reconcileHumanAttentionControllerGeneration, on the request r that the   *)
(* invalidation of a previous context left.                                 *)
ReconciledRequest(r) ==
  IF ~ActiveRequest THEN r
  ELSE IF r.delivery \in {"delivery_requested", "delivery_uncertain"}
  THEN Uncertain(r)
  ELSE IF recoverable \/ (token = 0 /\ r.controller = generation) THEN r
  ELSE Cancelled(r, "obsolete")

(* bind: a fresh context, after invalidating the previous one. *)
Bind ==
  /\ running /\ binds < MaxBinds
  /\ binds' = binds + 1 /\ token' = binds + 1
  /\ request' = ReconciledRequest(InvalidatedRequest)
  /\ projected' = (projected /\ request'.response \notin {"cancelled", "obsolete"})
  /\ waiter' = 0
  /\ native' = IF waiter # 0 THEN "none" ELSE native
  /\ UNCHANGED <<generation, recoverable, ledger, receiving, running>>

Invalidate ==
  /\ token # 0 /\ token' = 0
  /\ request' = InvalidatedRequest
  /\ waiter' = 0
  /\ native' = IF waiter # 0 THEN "none" ELSE native
  /\ UNCHANGED <<generation, recoverable, binds, projected, ledger, receiving,
                 running>>

(* requestAttention / registerHumanAttention: one active request at a time. *)
RequestAttention ==
  /\ Current /\ ~ActiveRequest /\ request.id < MaxRequests
  /\ native \in {"none", "done"}
  /\ request' = Registered
  /\ projected' = TRUE
  /\ native' = "none"
  /\ UNCHANGED <<generation, recoverable, token, binds, waiter, ledger,
                 receiving, running>>

(* waitForHumanAttention: answered at once when the request is settled or   *)
(* responded, refused when another wait is open, otherwise subscribed.      *)
WaitForHumanAttention ==
  /\ Current /\ WaitBinding /\ native = "none"
  /\ \/ /\ request.response \in {"cancelled", "obsolete"}
        /\ native' = "done"
        /\ UNCHANGED <<request, waiter>>
     \/ /\ request.response = "responded"
        /\ beginHumanAttentionDelivery
        /\ UNCHANGED waiter
     \/ /\ request.response = "pending" /\ waiter = 0
        /\ waiter' = token /\ native' = "waiting"
        /\ UNCHANGED request
  /\ UNCHANGED <<generation, recoverable, token, binds, projected, ledger,
                 receiving, running>>

(* The native side drops the socket: an open wait is removed and the        *)
(* request stays; an answer already on its way may be lost.                 *)
Disconnect ==
  /\ native \in {"waiting", "holding"}
  /\ native' = "none"
  /\ waiter' = 0
  /\ UNCHANGED <<generation, recoverable, token, binds, request, projected,
                 ledger, receiving, running>>

(* respondToAttention: an operation per request and process; a redelivered  *)
(* command joins it.  The answer is committed before anything is delivered. *)
RespondToAttention ==
  /\ request.id # 0 /\ request.id \notin ledger
  /\ ledger' = ledger \cup {request.id}
  /\ IF running /\ projected /\ ActiveRequest
     THEN /\ request' = Responded
          /\ receiving' = TRUE
     ELSE UNCHANGED <<request, receiving>>
  /\ UNCHANGED <<generation, recoverable, token, binds, projected, waiter,
                 native, running>>

(* receiveHumanAttentionResponse after its session report: whoever waits    *)
(* now gets the answer.                                                     *)
ReceiveHumanAttentionResponse ==
  /\ receiving /\ receiving' = FALSE
  /\ IF waiter = 0
     THEN UNCHANGED <<request, native, waiter>>
     ELSE waiter' = 0 /\ beginHumanAttentionDelivery
  /\ UNCHANGED <<generation, recoverable, token, binds, projected, ledger,
                 running>>

(* acknowledgeAttentionResponse: only a requested delivery is acknowledged. *)
AcknowledgeAttentionResponse ==
  /\ Current /\ WaitBinding /\ native = "holding"
  /\ native' = "done"
  /\ IF request.response = "responded" /\ request.delivery = "delivery_requested"
     THEN /\ request' = Acknowledged
          /\ projected' = FALSE
     ELSE UNCHANGED <<request, projected>>
  /\ UNCHANGED <<generation, recoverable, token, binds, waiter, ledger,
                 receiving, running>>

(* cancelPendingHumanAttention when the dispatch is cancelled or fails: the *)
(* waiter is released with a cancellation.                                  *)
CancelPendingHumanAttention ==
  /\ running /\ running' = FALSE
  /\ request' = IF ActiveRequest THEN Cancelled(request, "cancelled") ELSE request
  /\ projected' = (projected /\ ~ActiveRequest)
  /\ waiter' = IF ActiveRequest THEN 0 ELSE waiter
  /\ native' = IF ActiveRequest /\ waiter # 0 THEN "done" ELSE native
  /\ UNCHANGED <<generation, recoverable, token, binds, ledger, receiving>>

(* resolveAttention: the native harness settled the question itself. *)
ResolveAttention ==
  /\ Current /\ projected /\ native = "none"
  /\ request' = IF ActiveRequest THEN Cancelled(request, "obsolete") ELSE request
  /\ projected' = FALSE
  /\ UNCHANGED <<generation, recoverable, token, binds, waiter, ledger,
                 receiving, native, running>>

(* automationResumed after a conversational takeover: the lineage runs and  *)
(* has no attention; the request row is not touched.                        *)
AutomationResumed ==
  /\ Current /\ projected /\ native = "none"
  /\ projected' = FALSE
  /\ UNCHANGED <<generation, recoverable, token, binds, request, waiter,
                 ledger, receiving, native, running>>

(* The Worker process restarts; a native callback outlives it only when it  *)
(* can be rebound.                                                          *)
Restart ==
  /\ generation <= MaxRestarts
  /\ generation' = generation + 1
  /\ token' = 0 /\ waiter' = 0 /\ ledger' = {} /\ receiving' = FALSE
  /\ native' = IF native = "waiting" THEN "none" ELSE native
  /\ UNCHANGED <<recoverable, binds, request, projected, running>>
-----------------------------------------------------------------------------
Next ==
  \/ Bind \/ Invalidate \/ RequestAttention \/ WaitForHumanAttention
  \/ Disconnect \/ RespondToAttention \/ ReceiveHumanAttentionResponse
  \/ AcknowledgeAttentionResponse \/ CancelPendingHumanAttention
  \/ ResolveAttention \/ AutomationResumed \/ Restart

Spec == Init /\ [][Next]_vars
-----------------------------------------------------------------------------
(* No replay (beginHumanAttentionDelivery, reconcileHumanAttention-         *)
(* ControllerGeneration): whatever sockets, contexts, redelivered commands  *)
(* and restarts do, the human's answer enters the native callback at most   *)
(* once, and an answer that did enter it is on record as requested,         *)
(* acknowledged or uncertain.                                               *)
AnswerDeliveredAtMostOnce ==
  /\ request.handed <= 1
  /\ request.handed = 1 <=> request.delivery # "response_not_delivered"

(* A question whose attention was cleared from the session does not block   *)
(* a later one (docs/durable-blocking-human-attention.md: its record is     *)
(* marked obsolete).                                                        *)
ClearedQuestionIsObsolete == running /\ ActiveRequest => projected
=============================================================================
