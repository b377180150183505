---------------------------- MODULE HarnessProofs ---------------------------
(***************************************************************************)
(* Theorems about what the Worker puts around the native harness of an      *)
(* Attempt: the answer to its questions is delivered once (HumanAttention), *)
(* it has one result (StructuredCompletion), a prompt that was refused had  *)
(* no effect (AntigravityPrompt), one wrapper at a time works on a session  *)
(* of the Claude Agent SDK (ClaudeSdkTurns), and the logins of a harness     *)
(* (HarnessSetup) and of a provider account (AccountSetup) are begun once    *)
(* and left alone.                                                          *)
(*                                                                          *)
(* The six parts share no variable; each has its inductive invariant.       *)
(***************************************************************************)
EXTENDS Harness, Naturals, Sequences, WellFoundedInduction, TLAPS

-----------------------------------------------------------------------------
(* Human attention (HumanAttention).                                        *)

RequestType ==
    [id : Nat, response : {"none", "pending", "responded", "cancelled", "obsolete"},
     delivery : {"response_not_delivered", "delivery_requested", "delivery_uncertain",
                 "delivery_acknowledged"},
     controller : Nat, handed : Nat]

AttentionType == request \in RequestType /\ generation \in Nat

(* The delivery has begun exactly when the answer was handed over.          *)
AttentionInv == AttentionType /\ Attention!AnswerDeliveredAtMostOnce

(* No question is asked yet.                                                 *)
LEMMA AttentionInit == Attention!Init => AttentionInv
  BY DEF Attention!Init, Attention!NoRequest, AttentionInv, AttentionType, RequestType,
         Attention!AnswerDeliveredAtMostOnce

(* No handler of an attention request, and no restart or new binding of its  *)
(* controller, begins a delivery again.                                      *)
LEMMA AttentionStep == AttentionInv /\ [Attention!Next]_Attention!vars => AttentionInv'
<1> SUFFICES ASSUME AttentionInv, [Attention!Next]_Attention!vars PROVE AttentionInv'
  OBVIOUS
<1> USE DEF AttentionInv, AttentionType, RequestType, Attention!AnswerDeliveredAtMostOnce
<1>0. request.handed + 1 \in Nat /\ request.id + 1 \in Nat /\ generation + 1 \in Nat
  OBVIOUS
<1>a. ASSUME Attention!beginHumanAttentionDelivery, generation' = generation PROVE AttentionInv'
  <2>1. CASE request' = request
    BY <1>a, <2>1
  <2>2. CASE request' # request
    <3>1. request.delivery = "response_not_delivered" /\ request.handed = 0
      BY <1>a, <2>2 DEF Attention!beginHumanAttentionDelivery
    <3>2. request' = [request EXCEPT !.delivery = "delivery_requested", !.handed = 1]
      BY <1>a, <3>1, <2>2 DEF Attention!beginHumanAttentionDelivery
    <3>3. /\ request' \in RequestType /\ request'.handed = 1
          /\ request'.delivery = "delivery_requested"
      BY <3>2
    <3> QED BY <3>3, <1>a
  <2> QED BY <2>1, <2>2
<1>b. ASSUME NEW r \in RequestType,
             r.handed <= 1, r.handed = 1 <=> r.delivery # "response_not_delivered"
      PROVE  /\ Attention!Uncertain(r) \in RequestType
             /\ Attention!Uncertain(r).handed = r.handed
             /\ Attention!Uncertain(r).delivery # "response_not_delivered"
                 <=> r.delivery # "response_not_delivered"
             /\ \A s \in {"cancelled", "obsolete"} :
                 /\ Attention!Cancelled(r, s) \in RequestType
                 /\ Attention!Cancelled(r, s).handed = r.handed
                 /\ Attention!Cancelled(r, s).delivery = r.delivery
  BY <1>b DEF Attention!Uncertain, Attention!Cancelled
<1>1. CASE Attention!WaitForHumanAttention
  <2>0. generation' = generation
    BY <1>1 DEF Attention!WaitForHumanAttention
  <2>1. request' = request \/ Attention!beginHumanAttentionDelivery
    BY <1>1 DEF Attention!WaitForHumanAttention
  <2> QED BY <2>0, <2>1, <1>a
<1>2. CASE Attention!RequestAttention
  <2>1. request' = Attention!Registered /\ generation' = generation
    BY <1>2 DEF Attention!RequestAttention
  <2>2. /\ request' \in RequestType /\ request'.handed = 0
        /\ request'.delivery = "response_not_delivered"
    BY <1>0, <2>1 DEF Attention!Registered, Attention!NoRequest
  <2> QED
    BY <2>1, <2>2
<1>3. Attention!InvalidatedRequest \in {request, Attention!Uncertain(request)}
  BY DEF Attention!InvalidatedRequest
<1>4. CASE Attention!Bind
  <2>1. PICK r \in {request, Attention!Uncertain(request)} :
          request' \in {r, Attention!Uncertain(r), Attention!Cancelled(r, "obsolete")}
    BY <1>3, <1>4 DEF Attention!Bind, Attention!ReconciledRequest
  <2>2. /\ r \in RequestType /\ r.handed = request.handed
        /\ r.delivery # "response_not_delivered"
             <=> request.delivery # "response_not_delivered"
    BY <2>1, <1>b
  <2>3. /\ request' \in RequestType /\ request'.handed = r.handed
        /\ request'.delivery # "response_not_delivered"
             <=> r.delivery # "response_not_delivered"
    <3>1. r.handed <= 1 /\ (r.handed = 1 <=> r.delivery # "response_not_delivered")
      BY <2>2
    <3>2. CASE request' = r
      BY <3>2, <2>2
    <3>3. CASE request' = Attention!Uncertain(r)
      BY <3>1, <3>3, <2>2, <1>b
    <3>4. CASE request' = Attention!Cancelled(r, "obsolete")
      BY <3>1, <3>4, <2>2, <1>b
    <3> QED
      BY <2>1, <3>2, <3>3, <3>4
  <2> QED
    BY <2>2, <2>3, <1>4 DEF Attention!Bind
<1>5. CASE Attention!Invalidate
  BY <1>3, <1>5, <1>b DEF Attention!Invalidate
<1>6. CASE Attention!RespondToAttention
  BY <1>6 DEF Attention!RespondToAttention, Attention!Responded
<1>7. CASE Attention!ReceiveHumanAttentionResponse
  BY <1>7, <1>a DEF Attention!ReceiveHumanAttentionResponse
<1>8. CASE Attention!AcknowledgeAttentionResponse
  BY <1>8 DEF Attention!AcknowledgeAttentionResponse, Attention!Acknowledged
<1>9. CASE Attention!CancelPendingHumanAttention
  BY <1>9, <1>b DEF Attention!CancelPendingHumanAttention
<1>10. CASE Attention!ResolveAttention
  BY <1>10, <1>b DEF Attention!ResolveAttention
<1>11. CASE Attention!Disconnect \/ Attention!AutomationResumed \/ UNCHANGED Attention!vars
  BY <1>11 DEF Attention!Disconnect, Attention!AutomationResumed, Attention!vars
<1>12. CASE Attention!Restart
  BY <1>0, <1>12 DEF Attention!Restart
<1> QED
  BY <1>1, <1>2, <1>4, <1>5, <1>6, <1>7, <1>8, <1>9, <1>10, <1>11, <1>12 DEF Attention!Next

(* An answer of the user is handed to the native wait at most once           *)
(* (beginHumanAttentionDelivery): a delivery that was begun and not          *)
(* acknowledged is uncertain, and is never begun again.                      *)
THEOREM AnswerAlwaysDeliveredAtMostOnce ==
  Attention!Spec => []AnswerDeliveredAtMostOnce
<1>1. AttentionInv => Attention!AnswerDeliveredAtMostOnce
  BY DEF AttentionInv
<1> QED
  BY <1>1, AttentionInit, AttentionStep, PTL DEF AnswerDeliveredAtMostOnce, Attention!Spec

-----------------------------------------------------------------------------
(* Structured completion (StructuredCompletion).                            *)

ContextRecord ==
    [phase : {"awaiting_result", "exporting", "completed", "failed"},
     op : {"idle", "writing", "verifying", "preparing", "recording", "failing"},
     failure : {"none", "reported"}, stops : Nat, violated : BOOLEAN]

CompletionType ==
    /\ bound \in 0 .. MaxContexts /\ context \in {0, bound} /\ publisher \in 0 .. bound
    /\ results \in Nat
    /\ file \in {"none", "exporting", "completed", "failed"}
    /\ binding \in {"no", "reading", "none", "exporting", "completed", "failed"}
    /\ binding # "no" => bound < MaxContexts
    /\ ctx \in [1 .. MaxContexts -> ContextRecord]

(* Once a result is published, the newest context is past the point where it *)
(* could publish; one bound since then was told at once.                     *)
PublishedIsKnown ==
    results > 0 =>
        /\ ctx[bound].op \notin {"writing", "verifying", "preparing"}
        /\ publisher # bound => ctx[bound].op = "idle" /\ ctx[bound].phase = "completed"

CompletionInv ==
    /\ CompletionType /\ PublishedIsKnown
    /\ results <= 1 /\ (results = 0 <=> publisher = 0)

(* No context is bound and nothing is published.                             *)
LEMMA CompletionInit ==
    ASSUME MaxContexts \in Nat \ {0}, Completion!Init
    PROVE  CompletionInv
  BY DEF Completion!Init, Completion!Contexts, Completion!Fresh, CompletionInv, CompletionType,
         PublishedIsKnown, ContextRecord

(* An operation changes one context.                                         *)
LEMMA ContextUpdated ==
    ASSUME CompletionInv, NEW c \in 1 .. MaxContexts,
           MaxContexts \in Nat \ {0}, ctx' \in [1 .. MaxContexts -> ContextRecord],
           \A d \in 1 .. MaxContexts : d # c => ctx'[d] = ctx[d],
           UNCHANGED <<bound, context, publisher, results, binding>>,
           file' \in {"none", "exporting", "completed", "failed"},
           results > 0 /\ c = bound =>
              /\ ctx'[c].op \notin {"writing", "verifying", "preparing"}
              /\ publisher # bound => ctx'[c].op = "idle" /\ ctx'[c].phase = "completed"
    PROVE  CompletionInv'
<1>1. CompletionType'
  BY DEF CompletionInv, CompletionType
<1>2. results > 0 => bound \in 1 .. MaxContexts
  BY DEF CompletionInv, CompletionType
<1>3. PublishedIsKnown'
  BY <1>2 DEF CompletionInv, CompletionType, PublishedIsKnown
<1> QED
  BY <1>1, <1>3 DEF CompletionInv

(* Every operation of a completion context, and the binding of a new one.    *)
LEMMA CompletionStep ==
    ASSUME MaxContexts \in Nat \ {0}, MaxStopEnforcements \in Nat,
           CompletionInv, [Completion!Next]_Completion!vars
    PROVE  CompletionInv'
<1>1. ASSUME NEW c \in 1 .. MaxContexts PROVE ctx[c] \in ContextRecord
  BY DEF CompletionInv, CompletionType
<1>2. results > 0 => bound \in 1 .. MaxContexts
  BY DEF CompletionInv, CompletionType
<1>3. CASE Completion!Bind \/ Completion!readStructuredCompletionState \/ Completion!Invalidate
           \/ Completion!Settle \/ UNCHANGED Completion!vars
  BY <1>3 DEF Completion!Bind, Completion!readStructuredCompletionState, Completion!Invalidate,
              Completion!Settle, Completion!vars, CompletionInv, CompletionType, PublishedIsKnown
<1>4. CASE Completion!Bound
  <2> DEFINE b == bound + 1
             r == [phase |-> Completion!BoundPhase, op |-> "idle", failure |-> "none",
                   stops |-> 0, violated |-> FALSE]
  <2>1. /\ Completion!BoundPhase \in {"awaiting_result", "exporting", "completed", "failed"}
        /\ results > 0 => Completion!BoundPhase = "completed"
    BY <1>4 DEF Completion!BoundPhase, Completion!Bound, CompletionInv, CompletionType
  <2>2. b \in 1 .. MaxContexts /\ b > bound
    BY <1>4 DEF Completion!Bound, CompletionInv, CompletionType
  <2>3. r \in ContextRecord /\ r.op = "idle" /\ r.phase = Completion!BoundPhase
    BY <2>1 DEF ContextRecord
  <2>4. ctx' = [ctx EXCEPT ![b] = r] /\ bound' = b /\ context' = b
    BY <1>4 DEF Completion!Bound, Completion!Fresh
  <2>5. ctx' \in [1 .. MaxContexts -> ContextRecord] /\ ctx'[b] = r
    BY <2>2, <2>3, <2>4 DEF CompletionInv, CompletionType
  <2>6. /\ file' \in {"none", "exporting", "completed", "failed"} /\ binding' = "no"
        /\ UNCHANGED <<results, publisher>>
    BY <1>4 DEF Completion!Bound, CompletionInv, CompletionType
  <2>7. CompletionType'
    BY <2>2, <2>4, <2>5, <2>6 DEF CompletionInv, CompletionType
  <2>8. PublishedIsKnown'
    BY <2>1, <2>3, <2>4, <2>5, <2>6 DEF PublishedIsKnown
  <2> QED
    BY <2>6, <2>7, <2>8 DEF CompletionInv
<1>5. CASE Completion!Restart
  <2>1. \A c \in 1 .. MaxContexts :
          [ctx[c] EXCEPT !.op = "idle"] \in ContextRecord
          /\ [ctx[c] EXCEPT !.op = "idle"].op = "idle"
          /\ [ctx[c] EXCEPT !.op = "idle"].phase = ctx[c].phase
    BY <1>1 DEF ContextRecord
  <2>2. ctx' = [c \in 1 .. MaxContexts |-> [ctx[c] EXCEPT !.op = "idle"]]
    BY <1>5 DEF Completion!Restart, Completion!Contexts
  <2>3. ctx' \in [1 .. MaxContexts -> ContextRecord]
    BY <2>1, <2>2
  <2>4. CompletionType'
    BY <1>5, <2>3 DEF Completion!Restart, CompletionInv, CompletionType
  <2>5. PublishedIsKnown'
    BY <1>2, <1>5, <2>1, <2>2 DEF Completion!Restart, CompletionInv, PublishedIsKnown
  <2> QED
    BY <1>5, <2>4, <2>5 DEF Completion!Restart, CompletionInv
<1>6. ASSUME NEW c \in 1 .. MaxContexts,
             \/ Completion!complete(c) \/ Completion!Rejected(c) \/ Completion!Written(c)
             \/ Completion!Verified(c) \/ Completion!Recorded(c)
             \/ Completion!completionStatus(c) \/ Completion!nativeStop(c)
      PROVE  CompletionInv'
  <2>1. UNCHANGED <<bound, context, publisher, results, binding>>
    BY <1>6 DEF Completion!complete, Completion!Rejected, Completion!Written,
         Completion!Verified, Completion!Recorded, Completion!completionStatus,
         Completion!nativeStop, Completion!Failing
  <2>2. file' \in {"none", "exporting", "completed", "failed"}
    BY <1>6 DEF Completion!complete, Completion!Rejected, Completion!Written,
         Completion!Verified, Completion!Recorded, Completion!completionStatus,
         Completion!nativeStop, Completion!Failing, CompletionInv, CompletionType
  <2> DEFINE Becomes(r) == r \in ContextRecord /\ ctx' = [ctx EXCEPT ![c] = r]
  <2>3. \E r : Becomes(r)
    <3>0. ctx[c].stops + 1 \in Nat
      BY <1>1 DEF ContextRecord
    <3>1. CASE Completion!complete(c)
      <4>1. Becomes([ctx[c] EXCEPT !.phase = "exporting", !.failure = "none", !.op = "writing"])
        BY <3>1, <1>1 DEF Completion!complete, CompletionInv, CompletionType, ContextRecord
      <4> QED
        BY <4>1
    <3>2. CASE Completion!Rejected(c)
      <4>1. Becomes([ctx[c] EXCEPT !.failure = "reported"])
        BY <3>2, <1>1 DEF Completion!Rejected, CompletionInv, CompletionType, ContextRecord
      <4> QED
        BY <4>1
    <3>3. CASE Completion!nativeStop(c)
      <4>1. (ctx[c].stops + 1 > MaxStopEnforcements) \in BOOLEAN
        OBVIOUS
      <4>2. PICK v \in BOOLEAN : v = (ctx[c].stops + 1 > MaxStopEnforcements)
        BY <4>1, Zenon
      <4>3. ctx' = [ctx EXCEPT ![c].stops = ctx[c].stops + 1, ![c].violated = v]
        BY <3>3, <4>2, Zenon DEF Completion!nativeStop
      <4>4. Becomes([ctx[c] EXCEPT !.stops = ctx[c].stops + 1, !.violated = v])
        BY <4>3, <3>0, <1>1 DEF CompletionInv, CompletionType, ContextRecord
      <4> QED
        BY <4>4
    <3>4. CASE Completion!Written(c)
      <4> USE DEF CompletionInv, CompletionType, ContextRecord
      <4>1. CASE ctx' = [ctx EXCEPT ![c].phase = "awaiting_result", ![c].op = "idle",
                                    ![c].failure = "reported"]
        <5>1. Becomes([ctx[c] EXCEPT !.phase = "awaiting_result", !.op = "idle",
                                     !.failure = "reported"])
          BY <4>1, <1>1
        <5> QED
          BY <5>1
      <4>2. CASE ctx' = [ctx EXCEPT ![c] = IF Completion!assertCurrent(c)
                                         THEN [@ EXCEPT !.op = "verifying"]
                                         ELSE [@ EXCEPT !.op = "failing", !.phase = "failed"]]
        <5>1. CASE Completion!assertCurrent(c)
          <6>1. Becomes([ctx[c] EXCEPT !.op = "verifying"])
            BY <4>2, <5>1, <1>1
          <6> QED
            BY <6>1
        <5>2. CASE ~Completion!assertCurrent(c)
          <6>1. Becomes([ctx[c] EXCEPT !.op = "failing", !.phase = "failed"])
            BY <4>2, <5>2, <1>1
          <6> QED
            BY <6>1
        <5> QED
          BY <5>1, <5>2
      <4> QED
        BY <3>4, <4>1, <4>2 DEF Completion!Written
    <3>5. ASSUME Completion!Failing(c) PROVE \E r : Becomes(r)
      <4>1. Becomes([ctx[c] EXCEPT !.phase = "failed", !.op = "failing", !.failure = "reported"])
        BY <3>5, <1>1 DEF Completion!Failing, CompletionInv, CompletionType, ContextRecord
      <4> QED
        BY <4>1
    <3>6. CASE Completion!Verified(c)
      <4>1. Completion!Failing(c) \/ Becomes([ctx[c] EXCEPT !.op = "preparing"])
        BY <3>6, <1>1 DEF Completion!Verified, CompletionInv, CompletionType, ContextRecord
      <4> QED
        BY <4>1, <3>5
    <3>7. CASE Completion!Recorded(c)
      <4>1. Completion!Failing(c) \/ Becomes([ctx[c] EXCEPT !.op = "idle"])
        BY <3>7, <1>1 DEF Completion!Recorded, CompletionInv, CompletionType, ContextRecord
      <4> QED
        BY <4>1, <3>5
    <3>8. CASE Completion!completionStatus(c)
      <4>1. Becomes([ctx[c] EXCEPT !.phase = "completed"])
        BY <3>8, <1>1 DEF Completion!completionStatus, CompletionInv, CompletionType, ContextRecord
      <4> QED
        BY <4>1
    <3> QED
      BY <1>6, <3>1, <3>2, <3>3, <3>4, <3>6, <3>7, <3>8
  <2>4. ASSUME results > 0, c = bound
        PROVE  /\ ctx'[c].op \notin {"writing", "verifying", "preparing"}
               /\ publisher # bound => ctx'[c].op = "idle" /\ ctx'[c].phase = "completed"
    <3>1. /\ ctx[c].op \notin {"writing", "verifying", "preparing"}
          /\ publisher # bound => ctx[c].op = "idle" /\ ctx[c].phase = "completed"
      BY <2>4 DEF CompletionInv, PublishedIsKnown
    <3>2. ~Completion!complete(c) /\ ~Completion!Written(c) /\ ~Completion!Verified(c)
          /\ ~Completion!nativeStop(c)
      BY <2>4, <3>1 DEF Completion!complete, Completion!Written, Completion!Verified,
           Completion!nativeStop, CompletionInv, CompletionType
    <3>3. CASE Completion!Rejected(c) \/ Completion!completionStatus(c)
      BY <3>1, <3>3, <1>1 DEF Completion!Rejected, Completion!completionStatus, CompletionInv,
           CompletionType, ContextRecord
    <3>4. CASE Completion!Recorded(c)
      BY <3>1, <3>4, <1>1 DEF Completion!Recorded, Completion!Failing, CompletionInv,
           CompletionType, ContextRecord
    <3> QED
      BY <1>6, <3>2, <3>3, <3>4
  <2>5. PICK r : Becomes(r)
    BY <2>3
  <2>6. /\ ctx' \in [1 .. MaxContexts -> ContextRecord]
        /\ \A d \in 1 .. MaxContexts : d # c => ctx'[d] = ctx[d]
    BY <2>5 DEF CompletionInv, CompletionType
  <2> QED
    BY <2>1, <2>2, <2>4, <2>6, ContextUpdated
<1>7. ASSUME NEW c \in 1 .. MaxContexts, Completion!Publish(c) PROVE CompletionInv'
  <2>1. ctx[c] \in ContextRecord /\ ctx[c].op = "preparing"
    BY <1>1, <1>7 DEF Completion!Publish
  <2>2. UNCHANGED <<bound, context, file, binding>>
    BY <1>7 DEF Completion!Publish
  <2>3. CASE Completion!Failing(c) /\ UNCHANGED <<results, publisher>>
    <3>1. /\ ctx' \in [1 .. MaxContexts -> ContextRecord]
          /\ \A d \in 1 .. MaxContexts : d # c => ctx'[d] = ctx[d]
      BY <2>1, <2>3 DEF Completion!Failing, CompletionInv, CompletionType, ContextRecord
    <3>2. ~(results > 0 /\ c = bound)
      BY <2>1 DEF CompletionInv, PublishedIsKnown
    <3>3. file' \in {"none", "exporting", "completed", "failed"}
      BY <2>2 DEF CompletionInv, CompletionType
    <3> QED
      BY <2>2, <2>3, <3>1, <3>2, <3>3, ContextUpdated
  <2>4. CASE /\ Completion!assertCurrent(c)
             /\ results' = results + 1 /\ publisher' = c
             /\ ctx' = [ctx EXCEPT ![c].phase = "completed", ![c].op = "recording"]
    <3>1. c = bound
      BY <2>4 DEF Completion!assertCurrent, CompletionInv, CompletionType
    <3>2. results = 0 /\ results' = 1 /\ publisher' = bound
      BY <2>1, <2>4, <3>1 DEF CompletionInv, CompletionType, PublishedIsKnown
    <3>3. ctx' \in [1 .. MaxContexts -> ContextRecord] /\ ctx'[c].op = "recording"
      BY <2>1, <2>4 DEF CompletionInv, CompletionType, ContextRecord
    <3>4. CompletionType'
      BY <2>2, <3>1, <3>2, <3>3 DEF CompletionInv, CompletionType
    <3>5. PublishedIsKnown'
      BY <2>2, <3>1, <3>2, <3>3 DEF PublishedIsKnown
    <3> QED
      BY <3>1, <3>2, <3>4, <3>5 DEF CompletionInv
  <2> QED
    BY <1>7, <2>3, <2>4 DEF Completion!Publish
<1> QED
  BY <1>3, <1>4, <1>5, <1>6, <1>7 DEF Completion!Next, Completion!Contexts

(* An Attempt publishes one result (complete, Publish): whichever contexts   *)
(* are bound, invalidated or restarted, a second one is told of the first.   *)
THEOREM OneResultAlways ==
    ASSUME Completion!CompletionAssumption
    PROVE  Completion!Spec => []OneResultPerAttempt
<1>1. CompletionInv => Completion!OneResultPerAttempt
  BY DEF CompletionInv, CompletionType, PublishedIsKnown, Completion!OneResultPerAttempt
<1>2. Completion!Init => CompletionInv
  BY CompletionInit DEF Completion!CompletionAssumption
<1>3. CompletionInv /\ [Completion!Next]_Completion!vars => CompletionInv'
  BY CompletionStep DEF Completion!CompletionAssumption
<1> QED
  BY <1>1, <1>2, <1>3, PTL DEF OneResultPerAttempt, Completion!Spec

-----------------------------------------------------------------------------
(* Turns of the Claude Agent SDK adapter (ClaudeSdkTurns).                  *)

Given(w) == life[w] = "live" /\ turn[w] # "none"

TurnsType ==
    /\ stored \in {None} \cup Claude!Binding /\ current \in {None} \cup Claude!Binding
    /\ life \in [Claude!Wrapper -> {"unused", "live", "gone"}]
    /\ turn \in [Claude!Wrapper -> {"none", "sent", "started", "accepted", "settled",
                                    "rejected", "fatal"}]

(* Whoever may be at work on a turn is the wrapper that the registry names,  *)
(* and the execution in memory has another one only when that one is gone.   *)
TurnsInv ==
    /\ TurnsType
    /\ \A w \in Claude!Wrapper : life[w] = "unused" => turn[w] = "none"
    /\ at \notin {"idle", "recover"} => current # None
    /\ \A w \in Claude!Wrapper : Given(w) => stored # None /\ stored.wrapper = w
    /\ current # None /\ stored # None =>
         current.wrapper = stored.wrapper \/ life[stored.wrapper] = "gone"
    /\ at = "send" => stored # None /\ stored.wrapper = current.wrapper

(* Nothing is recorded and no wrapper was started.                           *)
LEMMA TurnsInit == ASSUME Claude!Init PROVE TurnsInv
  BY DEF Claude!Init, TurnsInv, TurnsType, Given, Claude!Wrapper

(* NextWrapper is a wrapper that is not used yet.                            *)
LEMMA NextWrapperUnused ==
    ASSUME MaxWrapper \in Nat, \E w \in Claude!Wrapper : life[w] = "unused"
    PROVE  Claude!NextWrapper \in Claude!Wrapper /\ life[Claude!NextWrapper] = "unused"
<1> DEFINE R == OpToRel(<, Nat)
           S == {w \in Claude!Wrapper : life[w] = "unused"}
<1>1. IsWellFoundedOn(R, Nat)
  BY NatLessThanWellFounded
<1>2. \A x, y \in Nat : <<y, x>> \in R <=> y < x
  BY DEF OpToRel
<1>3. S \subseteq Nat /\ S # {}
  BY DEF Claude!Wrapper
<1> HIDE DEF R
<1>4. PICK w \in S : \A v \in S : ~ (<<v, w>> \in R)
  BY <1>1, <1>3, WFMin
<1>5. \A v \in 1 .. w - 1 : life[v] # "unused"
  <2> SUFFICES ASSUME NEW v \in 1 .. w - 1, life[v] = "unused" PROVE FALSE
    OBVIOUS
  <2>1. w \in Nat /\ w <= MaxWrapper
    BY <1>4 DEF Claude!Wrapper
  <2>2. v \in S /\ v \in Nat /\ v < w
    BY <2>1 DEF Claude!Wrapper
  <2> QED
    BY <1>2, <1>4, <2>1, <2>2
<1>6. w \in Claude!Wrapper /\ life[w] = "unused"
  BY <1>4
<1> HIDE DEF S
<1> QED
  BY <1>5, <1>6 DEF Claude!NextWrapper

(* What continue makes of a binding is a binding of the same wrapper.        *)
LEMMA ContinuedBinding ==
    ASSUME NEW b \in Claude!Binding, NEW c, c = Claude!Continued(b)
    PROVE  c \in Claude!Binding /\ c.wrapper = b.wrapper
<1>1. CASE b.submission = "settled"
  <2>1. PICK n \in 0 .. Claude!MaxContinuations : n = 0
    BY DEF Claude!MaxContinuations
  <2>2. c = [b EXCEPT !.submission = "not_submitted", !.continuations = n]
    BY <1>1, <2>1 DEF Claude!Continued
  <2> QED
    BY <2>2 DEF Claude!Binding
<1>2. CASE b.submission # "settled"
  BY <1>2 DEF Claude!Continued
<1> QED
  BY <1>1, <1>2

(* So is what is recorded before a turn is sent.                             *)
LEMMA SubmittedBinding ==
    ASSUME NEW b \in Claude!Binding, NEW n \in 0 .. Claude!MaxContinuations,
           NEW c, c = Claude!Submitted(b, n)
    PROVE  c \in Claude!Binding /\ c.wrapper = b.wrapper
<1>1. PICK q \in {"not_invoked", "requested", "acknowledged", "uncertain"} :
        q = IF b.query = "not_invoked" THEN "requested" ELSE b.query
  BY DEF Claude!Binding
<1>2. c = [b EXCEPT !.query = q, !.submission = "submitted", !.continuations = n]
  BY <1>1, Zenon DEF Claude!Submitted
<1> QED
  BY <1>1, <1>2 DEF Claude!Binding

(* A step that keeps bindings and wrappers.                                  *)
LEMMA TurnsKept ==
    ASSUME TurnsInv, UNCHANGED <<stored, current, life, turn>>,
           at' \in {"idle", "recover", at} \/ (at' # "send" /\ current # None)
    PROVE  TurnsInv'
  BY DEF TurnsInv, TurnsType, Given

(* A binding is recorded: from then on memory and registry agree.            *)
LEMMA BindingPersisted ==
    ASSUME TurnsInv, current # None, None \notin Claude!Binding,
           NEW b \in Claude!Binding, b.wrapper = current.wrapper,
           Claude!Persist(b), UNCHANGED <<life, turn>>
    PROVE  TurnsInv'
<1>1. stored' = b /\ current' = b /\ b # None
  BY DEF Claude!Persist
<1>2. TurnsType'
  BY <1>1 DEF TurnsInv, TurnsType
<1>3. ASSUME NEW w \in Claude!Wrapper, Given(w) PROVE b.wrapper = w
  BY <1>3 DEF TurnsInv, Given
<1> QED
  BY <1>1, <1>2, <1>3 DEF TurnsInv, Given

(* A wrapper is started: nobody else may be at work.                         *)
LEMMA WrapperSpawned ==
    ASSUME TurnsInv, MaxWrapper \in Nat, None \notin Claude!Binding,
           NEW a, NEW b \in {None} \cup Claude!Binding, Claude!Spawn(a, b),
           stored' = stored, current = None,
           stored # None => life[stored.wrapper] = "gone"
    PROVE  TurnsInv'
<1>0. PICK n : n = Claude!NextWrapper
  OBVIOUS
<1>1. n \in Claude!Wrapper /\ life[n] = "unused" /\ turn[n] = "none"
  BY <1>0, NextWrapperUnused DEF Claude!Spawn, TurnsInv
<1>2. turn' = turn
  BY DEF Claude!Spawn
<1>3. life' = life \/ life' = [life EXCEPT ![n] = "live"]
  BY <1>0, Zenon DEF Claude!Spawn, Claude!memory, Claude!Fails
<1>4. \/ current' = current /\ at' = "idle"
      \/ current' = Claude!SpawnBinding(n, b) /\ at' = "record"
  <2>1. ASSUME Claude!Fails(a, "not_initialized"), UNCHANGED Claude!memory
        PROVE  current' = current /\ at' = "idle"
    BY <2>1 DEF Claude!Fails, Claude!Ends, Claude!memory
  <2> QED
    BY <1>0, <2>1, Zenon DEF Claude!Spawn
<1>5. Claude!SpawnBinding(n, b) \in Claude!Binding
  BY <1>1 DEF Claude!SpawnBinding, Claude!Binding, Claude!MaxContinuations
<1>6. TurnsType'
  BY <1>1, <1>2, <1>3, <1>4, <1>5 DEF TurnsInv, TurnsType
<1>7. \A w \in Claude!Wrapper : Given(w)' => Given(w)
  BY <1>1, <1>2, <1>3 DEF Given, TurnsInv, TurnsType
<1>8. \A w \in Claude!Wrapper : life'[w] = "unused" => life[w] = "unused"
  BY <1>1, <1>3 DEF TurnsInv, TurnsType
<1>9. stored # None => stored.wrapper \in Claude!Wrapper /\ life'[stored.wrapper] = "gone"
  BY <1>1, <1>3 DEF TurnsInv, TurnsType, Claude!Binding
<1> QED
  BY <1>2, <1>4, <1>5, <1>6, <1>7, <1>8, <1>9 DEF TurnsInv

(* prepareReplacement lets a wrapper be spawned only over one that is gone.  *)
LEMMA WrapperReplaced ==
    ASSUME TurnsInv, MaxWrapper \in Nat, None \notin Claude!Binding,
           NEW a, Claude!Replace(a, stored), stored' = stored, current = None
    PROVE  TurnsInv'
<1>1. CASE life[stored.wrapper] = "gone" /\ Claude!Spawn(a, stored)
  BY <1>1, WrapperSpawned DEF TurnsInv, TurnsType
<1>2. CASE Claude!Fails(a, "stream_lost") /\ UNCHANGED <<Claude!native, Claude!memory>>
  <2>1. UNCHANGED <<stored, current, life, turn>> /\ at' = "idle"
    BY <1>2 DEF Claude!Fails, Claude!Ends, Claude!native, Claude!memory
  <2> QED
    BY <2>1, TurnsKept
<1> QED
  BY <1>1, <1>2 DEF Claude!Replace

(* An execution begins: on the binding in memory, or on a wrapper of its     *)
(* own over one that is gone.                                                *)
LEMMA TurnsBegin ==
    ASSUME TurnsInv, MaxWrapper \in Nat, None \notin Claude!Binding,
           NEW a, Claude!Begin(a)
    PROVE  TurnsInv'
<1>1. stored' = stored /\ at = "idle"
  BY DEF Claude!Begin
<1>2. CASE current # None
  <2>1. CASE Claude!Continuable(current)
    <3>1. current' = Claude!Continued(current) /\ UNCHANGED <<life, turn>> /\ at' = "record"
      BY <1>2, <2>1 DEF Claude!Begin, Claude!native
    <3>2. current \in Claude!Binding
      BY <1>2 DEF TurnsInv, TurnsType
    <3>3. current' \in Claude!Binding /\ current'.wrapper = current.wrapper
      BY <3>1, <3>2, ContinuedBinding
    <3>4. current' # None
      BY <3>3
    <3> QED
      BY <1>1, <1>2, <3>1, <3>3, <3>4 DEF TurnsInv, TurnsType, Given
  <2>2. CASE ~Claude!Continuable(current)
    <3>1. UNCHANGED <<stored, current, life, turn>> /\ at' = "idle"
      BY <1>1, <1>2, <2>2 DEF Claude!Begin, Claude!Fails, Claude!Ends, Claude!native, Claude!memory
    <3> QED
      BY <3>1, TurnsKept
  <2> QED
    BY <2>1, <2>2
<1>3. CASE current = None
  <2>1. CASE stored = None
    <3>1. Claude!Spawn(a, None)
      BY <1>3, <2>1 DEF Claude!Begin
    <3> QED
      BY <1>1, <1>3, <2>1, <3>1, WrapperSpawned
  <2>2. CASE stored # None /\ stored.submission = "settled"
    <3>1. Claude!Replace(a, stored)
      BY <1>3, <2>2 DEF Claude!Begin
    <3> QED
      BY <1>1, <1>3, <3>1, WrapperReplaced
  <2>3. CASE stored # None /\ stored.submission # "settled"
    <3>1. UNCHANGED <<stored, current, life, turn>> /\ at' = "idle"
      BY <1>1, <1>3, <2>3 DEF Claude!Begin, Claude!Fails, Claude!Ends, Claude!native, Claude!memory
    <3> QED
      BY <3>1, TurnsKept
  <2> QED
    BY <2>1, <2>2, <2>3
<1> QED
  BY <1>2, <1>3

(* A recovered execution: it takes the wrapper that the registry names, or   *)
(* replaces one that is gone.                                                *)
LEMMA TurnsRecover ==
    ASSUME TurnsInv, MaxWrapper \in Nat, None \notin Claude!Binding,
           NEW a, Claude!Recover(a)
    PROVE  TurnsInv'
<1>1. stored' = stored /\ at = "recover"
  BY DEF Claude!Recover
<1>2. CASE current # None
  <2>1. UNCHANGED <<stored, current, life, turn>> /\ at' = "record"
    BY <1>1, <1>2 DEF Claude!Recover, Claude!native, Claude!memory
  <2> QED
    BY <1>2, <2>1, TurnsKept
<1>3. CASE current = None /\ (outcome[a] = "exported" \/ Claude!InFlight(stored))
  <2>1. UNCHANGED <<stored, current, life, turn>> /\ at' = "idle"
    BY <1>1, <1>3 DEF Claude!Recover, Claude!Fails, Claude!Ends, Claude!native, Claude!memory
  <2> QED
    BY <2>1, TurnsKept
<1>4. CASE current = None /\ outcome[a] # "exported" /\ ~Claude!InFlight(stored)
  <2>1. Claude!Replace(a, stored)
    BY <1>4 DEF Claude!Recover
  <2> QED
    BY <1>1, <1>4, <2>1, WrapperReplaced
<1> QED
  BY <1>2, <1>3, <1>4

(* A step of the wrapper, of which a turn in the hands of nobody is no part. *)
LEMMA TurnsStep ==
    ASSUME Claude!TurnsAssumption, TurnsInv, [Claude!Next]_Claude!vars
    PROVE  TurnsInv'
<1>0. MaxWrapper \in Nat /\ None \notin Claude!Binding
  BY DEF Claude!TurnsAssumption
<1>1. CASE UNCHANGED Claude!vars
  BY <1>1, TurnsKept DEF Claude!vars
<1>2. CASE Claude!Crash
  BY <1>2 DEF Claude!Crash, Claude!native, TurnsInv, TurnsType, Given
<1>3. ASSUME NEW w \in Claude!Wrapper, Claude!WrapperAdvances(w) \/ Claude!WrapperExits(w)
      PROVE  TurnsInv'
  <2>1. UNCHANGED <<stored, current, at>>
    BY <1>3 DEF Claude!WrapperAdvances, Claude!WrapperExits, Claude!memory
  <2>2. life[w] = "live" /\ life' \in {life, [life EXCEPT ![w] = "gone"]}
    <3>1. CASE Claude!WrapperExits(w)
      BY <3>1 DEF Claude!WrapperExits
    <3>2. CASE Claude!WrapperAdvances(w)
      <4>1. PICK stage :
               life' = [life EXCEPT ![w] = IF stage \in {"rejected", "fatal"} THEN "gone" ELSE @]
        BY <3>2 DEF Claude!WrapperAdvances
      <4>2. life' = [life EXCEPT ![w] = "gone"] \/ life' = life
        BY <4>1 DEF TurnsInv, TurnsType
      <4> QED
        BY <4>2, <3>2 DEF Claude!WrapperAdvances
    <3> QED
      BY <1>3, <3>1, <3>2
  <2>3. /\ turn' \in [Claude!Wrapper -> {"none", "sent", "started", "accepted", "settled",
                                         "rejected", "fatal"}]
        /\ \A v \in Claude!Wrapper : turn'[v] # "none" <=> turn[v] # "none"
    <3>1. CASE Claude!WrapperExits(w)
      BY <3>1 DEF Claude!WrapperExits, TurnsInv, TurnsType
    <3>2. CASE Claude!WrapperAdvances(w)
      <4>1. PICK stage \in Claude!After(turn[w]) : turn' = [turn EXCEPT ![w] = stage]
        BY <3>2 DEF Claude!WrapperAdvances
      <4>2. /\ turn[w] # "none"
            /\ stage \in {"sent", "started", "accepted", "settled", "rejected", "fatal"}
        BY <4>1 DEF Claude!After
      <4> QED
        BY <4>1, <4>2 DEF TurnsInv, TurnsType
    <3> QED
      BY <1>3, <3>1, <3>2
  <2>4. TurnsType'
    BY <2>1, <2>2, <2>3 DEF TurnsInv, TurnsType
  <2>5. \A v \in Claude!Wrapper :
          /\ Given(v)' => Given(v)
          /\ life'[v] = "unused" => life[v] = "unused"
          /\ life[v] = "gone" => life'[v] = "gone"
    BY <2>2, <2>3 DEF Given, TurnsInv, TurnsType
  <2>6. stored # None => stored.wrapper \in Claude!Wrapper
    BY DEF TurnsInv, TurnsType, Claude!Binding
  <2> QED
    BY <2>1, <2>3, <2>4, <2>5, <2>6 DEF TurnsInv
<1>4. ASSUME NEW a \in Claude!Attempt, Claude!Adapter(a) PROVE TurnsInv'
  <2>1. CASE Claude!Begin(a) \/ Claude!Recover(a)
    BY <1>0, <2>1, TurnsBegin, TurnsRecover
  <2>2. CASE Claude!AuthorizePrompt(a) \/ Claude!MarkPromptIntent(a) \/ Claude!Attach(a)
             \/ Claude!CompleteStep(a) \/ Claude!AwaitExport(a) \/ Claude!ExportResult(a)
    <3>1. UNCHANGED <<stored, current, life, turn>>
      BY <2>2 DEF Claude!AuthorizePrompt, Claude!MarkPromptIntent, Claude!Attach,
           Claude!CompleteStep, Claude!AwaitExport, Claude!ExportResult, Claude!memory,
           Claude!native
    <3>2. at' \in {"idle", "recover", at} \/ (at' # "send" /\ current # None)
      BY <2>2 DEF Claude!AuthorizePrompt, Claude!MarkPromptIntent, Claude!Attach, Claude!Ends,
           Claude!Fails,
           Claude!CompleteStep, Claude!AwaitExport, Claude!ExportResult, TurnsInv
    <3> QED
      BY <3>1, <3>2, TurnsKept
  <2>3. ASSUME at \notin {"idle", "recover"} PROVE current \in Claude!Binding /\ current # None
    BY <2>3 DEF TurnsInv, TurnsType
  <2>4. CASE Claude!Record(a)
    BY <1>0, <2>3, <2>4, BindingPersisted DEF Claude!Record, Claude!native
  <2>5. CASE Claude!Renew(a)
    <3>1. current \in Claude!Binding /\ current # None /\ UNCHANGED <<life, turn>>
      BY <2>3, <2>5 DEF Claude!Renew, Claude!native
    <3>2. CASE Claude!Persist(Claude!Continued(current))
      <4>1. PICK c : c = Claude!Continued(current)
        OBVIOUS
      <4> QED
        BY <1>0, <3>1, <3>2, <4>1, ContinuedBinding, BindingPersisted
    <3>3. CASE Claude!Fails(a, "continuation_refused") /\ UNCHANGED <<stored, current>>
      BY <3>1, <3>3, TurnsKept DEF Claude!Fails, Claude!Ends
    <3> QED
      BY <2>5, <3>2, <3>3 DEF Claude!Renew
  <2>6. CASE Claude!SubmitPrompt(a)
    <3>1. current \in Claude!Binding /\ current # None /\ UNCHANGED <<life, turn>>
      BY <2>3, <2>6 DEF Claude!SubmitPrompt, Claude!native
    <3>2. PICK c : c = Claude!Submitted(current, 0)
      OBVIOUS
    <3>3. c \in Claude!Binding /\ c.wrapper = current.wrapper
      BY <3>1, <3>2, SubmittedBinding DEF Claude!MaxContinuations
    <3>4. Claude!Persist(c)
      BY <2>6, <3>2 DEF Claude!SubmitPrompt
    <3> QED
      BY <1>0, <3>1, <3>3, <3>4, BindingPersisted
  <2>7. CASE Claude!AfterSettlement(a)
    <3>1. current \in Claude!Binding /\ current # None /\ UNCHANGED <<life, turn>>
      BY <2>3, <2>7 DEF Claude!AfterSettlement, Claude!native
    <3>2. CASE UNCHANGED <<stored, current>> /\ at' # "send"
      BY <3>1, <3>2, TurnsKept
    <3>3. CASE /\ current.continuations < Claude!MaxContinuations
               /\ Claude!Persist(Claude!Submitted(current, current.continuations + 1))
      <4>1. PICK c : c = Claude!Submitted(current, current.continuations + 1)
        OBVIOUS
      <4>2. current.continuations + 1 \in 0 .. Claude!MaxContinuations
        BY <3>1, <3>3 DEF Claude!Binding, Claude!MaxContinuations
      <4>3. c \in Claude!Binding /\ c.wrapper = current.wrapper
        BY <3>1, <4>1, <4>2, SubmittedBinding
      <4> QED
        BY <1>0, <3>1, <3>3, <4>1, <4>3, BindingPersisted
    <3> QED
      BY <2>7, <3>2, <3>3 DEF Claude!AfterSettlement, Claude!Fails, Claude!Ends
  <2>8. ASSUME NEW delivered \in BOOLEAN, NEW acknowledged \in BOOLEAN,
               Claude!Send(a, delivered, acknowledged)
        PROVE  TurnsInv'
    <3>1. /\ current \in Claude!Binding /\ current # None /\ stored # None /\ life' = life
          /\ stored.wrapper = current.wrapper
      BY <2>3, <2>8 DEF Claude!Send, TurnsInv
    <3>2. PICK b : b = current.wrapper
      OBVIOUS
    <3>3. b \in Claude!Wrapper
      BY <3>1, <3>2 DEF Claude!Binding
    <3>4. /\ turn' \in [Claude!Wrapper -> {"none", "sent", "started", "accepted", "settled",
                                           "rejected", "fatal"}]
          /\ \A w \in Claude!Wrapper : turn'[w] = turn[w] \/ (w = b /\ life[w] = "live")
      <4>1. CASE ~delivered
        BY <2>8, <4>1 DEF Claude!Send, TurnsInv, TurnsType
      <4>2. CASE delivered
        <5>1. PICK stage \in {"sent", "started"} : turn' = [turn EXCEPT ![b] = stage]
          BY <2>8, <3>2, <4>2 DEF Claude!Send
        <5>2. life[b] = "live"
          BY <2>8, <3>2, <4>2 DEF Claude!Send
        <5> QED
          BY <3>3, <5>1, <5>2 DEF TurnsInv, TurnsType
      <4> QED
        BY <4>1, <4>2
    <3>5. /\ stored' \in Claude!Binding /\ stored'.wrapper = b
          /\ current' \in Claude!Binding /\ current'.wrapper = b
      <4>1. CASE UNCHANGED <<stored, current>>
        BY <3>1, <3>2, <4>1 DEF TurnsInv, TurnsType
      <4>2. CASE Claude!Persist(current)
        BY <3>1, <3>2, <4>2 DEF Claude!Persist
      <4>3. CASE Claude!Persist([current EXCEPT !.query = "uncertain"])
        <5>1. PICK c : c = [current EXCEPT !.query = "uncertain"]
          OBVIOUS
        <5>2. c \in Claude!Binding /\ c.wrapper = b
          BY <3>1, <3>2, <5>1 DEF Claude!Binding
        <5> QED
          BY <4>3, <5>1, <5>2 DEF Claude!Persist
      <4> QED
        BY <2>8, <4>1, <4>2, <4>3 DEF Claude!Send
    <3>6. at' \notin {"record", "gate"} /\ stored' # None /\ current' # None
      BY <1>0, <2>8, <3>5 DEF Claude!Send, Claude!Ends
    <3>7. TurnsType'
      BY <3>1, <3>4, <3>5 DEF TurnsInv, TurnsType
    <3> QED
      BY <3>1, <3>2, <3>4, <3>5, <3>6, <3>7 DEF TurnsInv, Given
  <2>9. CASE \/ Claude!ObserveQueryStarted(a) \/ Claude!ObserveAccepted(a)
             \/ Claude!ObserveSettled(a) \/ Claude!ObserveFatal(a) \/ Claude!ObserveStreamLost(a)
    <3>1. current \in Claude!Binding /\ current # None /\ UNCHANGED <<life, turn>>
      BY <2>3, <2>9 DEF Claude!ObserveQueryStarted, Claude!ObserveAccepted, Claude!ObserveSettled,
           Claude!ObserveFatal, Claude!ObserveStreamLost, Claude!Collecting, Claude!native
    <3>2. SUFFICES \E c : /\ c \in Claude!Binding /\ c.wrapper = current.wrapper
                          /\ Claude!Persist(c)
      BY <1>0, <3>1, BindingPersisted
    <3>3. ASSUME NEW c, Claude!Persist(c),
                 \/ c \in {current, [current EXCEPT !.query = "acknowledged"],
                            [current EXCEPT !.query = "uncertain"],
                            [current EXCEPT !.submission = "native_accepted"],
                            [current EXCEPT !.submission = "settled"]}
                 \/ c = [current EXCEPT !.query = "not_invoked", !.submission = "not_submitted",
                                        !.continuations = 0]
          PROVE  c \in Claude!Binding /\ c.wrapper = current.wrapper
      <4>1. PICK n \in 0 .. Claude!MaxContinuations : n = 0
        BY DEF Claude!MaxContinuations
      <4>2. CASE c = [current EXCEPT !.query = "not_invoked", !.submission = "not_submitted",
                                     !.continuations = n]
        BY <3>1, <4>2 DEF Claude!Binding
      <4> QED
        BY <3>1, <3>3, <4>1, <4>2 DEF Claude!Binding
    <3>4. CASE Claude!ObserveQueryStarted(a)
      BY <3>3, <3>4 DEF Claude!ObserveQueryStarted
    <3>5. CASE Claude!ObserveAccepted(a)
      BY <3>3, <3>5 DEF Claude!ObserveAccepted
    <3>6. CASE Claude!ObserveSettled(a)
      BY <3>3, <3>6 DEF Claude!ObserveSettled
    <3>7. CASE Claude!ObserveFatal(a)
      BY <3>3, <3>7 DEF Claude!ObserveFatal
    <3>8. CASE Claude!ObserveStreamLost(a)
      BY <3>3, <3>8 DEF Claude!ObserveStreamLost
    <3> QED
      BY <2>9, <3>4, <3>5, <3>6, <3>7, <3>8
  <2> QED
    BY <1>4, <2>1, <2>2, <2>4, <2>5, <2>6, <2>7, <2>8, <2>9 DEF Claude!Adapter
<1> QED
  BY <1>1, <1>2, <1>3, <1>4 DEF Claude!Next

(* No two living wrappers have been given a turn of one lineage              *)
(* (prepareReplacement): the wrapper at work is the one the registry names,  *)
(* and it is replaced only when it is gone.                                  *)
THEOREM OneWrapperAlways ==
    ASSUME Claude!TurnsAssumption
    PROVE  Claude!Spec => []OneWrapperPerSession
<1>1. TurnsInv => Claude!OneWrapperPerSession
  BY DEF TurnsInv, Given, Claude!OneWrapperPerSession
<1>2. Claude!Init => TurnsInv
  BY TurnsInit
<1>3. TurnsInv /\ [Claude!Next]_Claude!vars => TurnsInv'
  BY TurnsStep
<1> QED
  BY <1>1, <1>2, <1>3, PTL DEF OneWrapperPerSession, Claude!Spec

-----------------------------------------------------------------------------
(* The authorized prompt of the Antigravity adapter (AntigravityPrompt).    *)

DispatchRecord ==
    [state : {"absent", "accepted", "running", "completed", "failed", "uncertain"},
     intent : BOOLEAN, cursor : {None} \cup Nat, accepted : {None} \cup Nat,
     failure : {"none", "duplicate_prompt", "native_activity", "conversation_mismatch",
                "input_fence", "dispatch_rejected", "store_failed", "prompt_uncertain"}]

(* The failures that are no refusal of the adapter's.                        *)
SideEffectOpen == {"dispatch_rejected", "store_failed"}

PromptType ==
    /\ dispatch \in [1 .. Attempts -> DispatchRecord]
    /\ log \in Seq([from : 0 .. Attempts, ok : BOOLEAN])
    /\ line \in {None} \cup 1 .. Attempts /\ submitted \in {None} \cup 0 .. Attempts

(* The text of Attempt a is in the session.                                  *)
Reached(a) == line = a \/ submitted = a \/ \E i \in DOMAIN log : log[i].from = a

Late == {"submit_fence", "submit_send", "inspect", "await", "wait", "reconcile", "recover"}

(* Text reaches the session after the intent is on record, in the turn of    *)
(* its Attempt, and from then on nothing refuses it but native evidence.     *)
ReachedInTurn(a) ==
    /\ dispatch[a].intent
    /\ \A b \in 1 .. a - 1 : dispatch[b].state = "completed"
    /\ Antigravity!Current(a) => pc \in Late
    /\ dispatch[a].state = "failed" => dispatch[a].failure \in SideEffectOpen

PromptInv ==
    /\ PromptType
    /\ \A a \in 1 .. Attempts :
         /\ pc \notin {"idle", "recover"} /\ Antigravity!Current(a) => dispatch[a].intent
         /\ Reached(a) => ReachedInTurn(a)

(* No prompt was written and no Attempt has begun.                           *)
LEMMA PromptInit == ASSUME Antigravity!PromptAssumption, Antigravity!Init PROVE PromptInv
<1> USE DEF Antigravity!PromptAssumption, Antigravity!Init, Antigravity!Human, Antigravity!Attempt
<1>1. Antigravity!NoDispatch \in DispatchRecord
  BY DEF Antigravity!NoDispatch, DispatchRecord
<1>2. PromptType
  BY <1>1 DEF PromptType
<1>3. \A a \in 1 .. Attempts : ~Reached(a)
  BY DEF Reached
<1> QED
  BY <1>2, <1>3 DEF PromptInv

(* One Attempt at a time occupies the lineage.                               *)
LEMMA OneCurrent ==
    ASSUME PromptType, Attempts \in Nat, NEW a \in 1 .. Attempts, NEW b \in 1 .. Attempts,
           Antigravity!Current(a), Antigravity!Current(b)
    PROVE  a = b
  BY DEF Antigravity!Current, Antigravity!Settled

(* A step of the current Attempt a.                                          *)
LEMMA AttemptStep ==
    ASSUME PromptInv, Attempts \in Nat, NEW a \in 1 .. Attempts, Antigravity!Current(a),
           PromptType', \A b \in 1 .. Attempts : b # a => dispatch'[b] = dispatch[b],
           \A b \in 1 .. Attempts : b # a /\ Reached(b)' => Reached(b),
           pc' \notin {"idle", "recover"} => /\ dispatch'[a].intent
                                            /\ dispatch'[a].state # "completed",
           Reached(a)' =>
             /\ dispatch'[a].intent
             /\ Antigravity!Current(a)' => pc' \in Late
             /\ dispatch'[a].state = "failed" => dispatch'[a].failure \in SideEffectOpen
    PROVE  PromptInv'
<1>1. \A b \in 1 .. a - 1 : dispatch[b].state = "completed" /\ b \in 1 .. Attempts
  BY DEF Antigravity!Current
<1>2. dispatch[a].state # "completed"
  BY DEF Antigravity!Current, Antigravity!Settled
<1>3. Reached(a)' => ReachedInTurn(a)'
  BY <1>1 DEF ReachedInTurn
<1>4. ASSUME NEW b \in 1 .. Attempts, b # a, Reached(b)' PROVE ReachedInTurn(b)'
  <2>1. Reached(b) /\ ReachedInTurn(b) /\ dispatch'[b] = dispatch[b]
    BY <1>4 DEF PromptInv
  <2>2. b < a
    BY <1>2, <1>4, <2>1 DEF ReachedInTurn
  <2>3. dispatch[b].state = "completed"
    BY <1>1, <2>2
  <2>4. \A c \in 1 .. b - 1 : c \in 1 .. Attempts /\ c # a
    BY <2>2
  <2>5. ~Antigravity!Current(b)'
    BY <2>1, <2>3 DEF Antigravity!Current, Antigravity!Settled
  <2> QED
    BY <2>1, <2>3, <2>4, <2>5 DEF ReachedInTurn
<1>5. ASSUME NEW b \in 1 .. Attempts, pc' \notin {"idle", "recover"}, Antigravity!Current(b)'
      PROVE  dispatch'[b].intent
  <2>1. CASE b = a
    BY <1>5, <2>1
  <2>2. CASE b < a
    <3>1. dispatch'[b].state = "completed"
      BY <1>1, <2>2
    <3> QED
      BY <1>5, <3>1 DEF Antigravity!Current, Antigravity!Settled
  <2>3. CASE b > a
    <3>1. dispatch'[a].state = "completed"
      BY <1>5, <2>3 DEF Antigravity!Current
    <3> QED
      BY <1>5, <3>1
  <2> QED
    BY <2>1, <2>2, <2>3
<1> QED
  BY <1>3, <1>4, <1>5 DEF PromptInv

(* A step that is none of an Attempt's.                                      *)
LEMMA SessionStep ==
    ASSUME PromptInv, UNCHANGED <<dispatch, pc>>, PromptType',
           \A a \in 1 .. Attempts : Reached(a)' => Reached(a)
    PROVE  PromptInv'
  BY DEF PromptInv, ReachedInTurn, Antigravity!Current

(* Every step of the adapter, its restarts, and what the native process and  *)
(* a human write to the log.                                                 *)
LEMMA PromptStep ==
    ASSUME Antigravity!PromptAssumption, PromptInv, [Antigravity!Next]_Antigravity!vars
    PROVE  PromptInv'
<1>0. /\ Attempts \in Nat /\ PromptType
      /\ Antigravity!Attempt = 1 .. Attempts /\ Antigravity!Human = 0
  BY DEF Antigravity!PromptAssumption, Antigravity!Attempt, Antigravity!Human, PromptInv
<1>1. ASSUME NEW a \in 1 .. Attempts, Antigravity!Adapter(a) PROVE PromptInv'
  <2>0. Antigravity!Current(a) /\ pc # "recover"
    BY <1>1 DEF Antigravity!Adapter, Antigravity!Prepare, Antigravity!AuthorizePrompt,
         Antigravity!Baseline, Antigravity!CheckSubmission, Antigravity!FenceStage,
         Antigravity!FenceSubmit, Antigravity!Sends, Antigravity!SendText, Antigravity!SendEnter,
         Antigravity!InspectProcess, Antigravity!AwaitAcceptance,
         Antigravity!AcceptanceTimesOut, Antigravity!Reconcile, Antigravity!CollectResult
  <2>1. /\ pc \notin {"idle", "recover"} => dispatch[a].intent
        /\ pc \notin Late => ~Reached(a)
        /\ dispatch[a] \in DispatchRecord
    BY <1>0, <2>0 DEF PromptInv, ReachedInTurn, PromptType
  <2>2. ASSUME UNCHANGED <<line, submitted, log>>
        PROVE  \A b \in 1 .. Attempts : Reached(b)' <=> Reached(b)
    BY <2>2 DEF Reached
  <2> DEFINE Becomes(r) == r \in DispatchRecord /\ dispatch' = [dispatch EXCEPT ![a] = r]
             Quiet == UNCHANGED <<line, submitted, log>>
  <2>3. ASSUME NEW r, Becomes(r), Quiet
        PROVE  /\ PromptType' /\ dispatch'[a] = r
               /\ \A b \in 1 .. Attempts : b # a => dispatch'[b] = dispatch[b]
    BY <1>0, <2>3 DEF PromptType
  <2>4. ASSUME NEW r, Becomes(r), Quiet, pc \notin Late,
               pc' \in {"idle", "recover"} \/ (r.intent /\ r.state # "completed")
        PROVE  PromptInv'
    <3>1. ~Reached(a)'
      BY <2>1, <2>2, <2>4
    <3>2. pc' \notin {"idle", "recover"} => dispatch'[a].intent /\ dispatch'[a].state # "completed"
      BY <2>3, <2>4
    <3> QED
      BY <1>0, <2>0, <2>2, <2>3, <2>4, <3>1, <3>2, AttemptStep
  <2>5. ASSUME NEW r, Becomes(r), Quiet, r.intent,
               \/ r.state \notin Antigravity!Settled /\ pc' \in Late
               \/ /\ r.state \in Antigravity!Settled /\ pc' = "idle"
                  /\ r.state = "failed" => r.failure \in SideEffectOpen
        PROVE  PromptInv'
    <3>1. pc' \notin {"idle", "recover"} => dispatch'[a].intent /\ dispatch'[a].state # "completed"
      BY <2>3, <2>5 DEF Antigravity!Settled
    <3>2. /\ dispatch'[a].intent
          /\ Antigravity!Current(a)' => pc' \in Late
          /\ dispatch'[a].state = "failed" => dispatch'[a].failure \in SideEffectOpen
      BY <2>3, <2>5 DEF Antigravity!Current, Antigravity!Settled
    <3> QED
      BY <1>0, <2>0, <2>2, <2>3, <2>5, <3>1, <3>2, AttemptStep
  <2>6. Becomes(dispatch[a]) <=> dispatch' = dispatch
    BY <1>0, <2>1 DEF PromptType
  <2>7. ASSUME NEW f \in {"duplicate_prompt", "native_activity", "conversation_mismatch",
                          "input_fence", "dispatch_rejected", "store_failed"},
               Antigravity!Fails(a, f)
        PROVE  \E r : /\ Becomes(r) /\ r.intent = dispatch[a].intent
                      /\ r.state = "failed" /\ r.failure = f
    <3>1. PICK r : r = [dispatch[a] EXCEPT !.state = "failed", !.failure = f]
      OBVIOUS
    <3>2. /\ r \in DispatchRecord /\ r.intent = dispatch[a].intent
          /\ r.state = "failed" /\ r.failure = f
      BY <2>1, <3>1 DEF DispatchRecord
    <3>3. dispatch' = [dispatch EXCEPT ![a] = r]
      BY <1>0, <2>7, <3>1 DEF Antigravity!Fails, PromptType
    <3> QED
      BY <3>2, <3>3
  <2>8. ASSUME Antigravity!Uncertain(a)
        PROVE  \E r : Becomes(r) /\ r.intent = dispatch[a].intent /\ r.state = "uncertain"
    <3>1. PICK r : r = [dispatch[a] EXCEPT !.state = "uncertain", !.failure = "prompt_uncertain"]
      OBVIOUS
    <3>2. r \in DispatchRecord /\ r.intent = dispatch[a].intent /\ r.state = "uncertain"
      BY <2>1, <3>1 DEF DispatchRecord
    <3>3. dispatch' = [dispatch EXCEPT ![a] = r]
      BY <1>0, <2>8, <3>1 DEF Antigravity!Uncertain, PromptType
    <3> QED
      BY <3>2, <3>3
  <2>9. CASE Antigravity!Prepare(a)
    <3>1. pc = "idle" /\ pc' = "idle" /\ Quiet
      BY <2>9 DEF Antigravity!Prepare, Antigravity!native
    <3>2. \E r : Becomes(r)
      <4>1. CASE Antigravity!ReadinessRefuses(a) # "none"
        <5>1. Antigravity!ReadinessRefuses(a) \in
                {"duplicate_prompt", "native_activity", "conversation_mismatch"}
          BY <4>1 DEF Antigravity!ReadinessRefuses
        <5> QED
          BY <2>7, <2>9, <4>1, <5>1 DEF Antigravity!Prepare
      <4>2. CASE Antigravity!ReadinessRefuses(a) = "none"
        <5>1. PICK r : r = [dispatch[a] EXCEPT !.state = "accepted"]
          OBVIOUS
        <5>2. r \in DispatchRecord
          BY <2>1, <5>1 DEF DispatchRecord
        <5>3. dispatch' = [dispatch EXCEPT ![a] = r]
          BY <1>0, <2>9, <4>2, <5>1 DEF Antigravity!Prepare, PromptType
        <5> QED
          BY <5>2, <5>3
      <4> QED
        BY <4>1, <4>2
    <3> QED
      BY <2>4, <3>1, <3>2 DEF Late
  <2>10. CASE Antigravity!AuthorizePrompt(a)
    <3>1. pc = "idle" /\ Quiet
      BY <2>10 DEF Antigravity!AuthorizePrompt, Antigravity!native
    <3>2. CASE Antigravity!ReadinessRefuses(a) # "none"
      <4>1. Antigravity!ReadinessRefuses(a) \in
              {"duplicate_prompt", "native_activity", "conversation_mismatch"}
        BY <3>2 DEF Antigravity!ReadinessRefuses
      <4>2. \E r : Becomes(r)
        BY <2>7, <2>10, <3>2, <4>1 DEF Antigravity!AuthorizePrompt
      <4>3. pc' = "idle"
        BY <2>10, <3>1, <3>2 DEF Antigravity!AuthorizePrompt
      <4> QED
        BY <2>4, <3>1, <4>2, <4>3 DEF Late
    <3>3. CASE Antigravity!ReadinessRefuses(a) = "none"
      <4>1. PICK r : r = [dispatch[a] EXCEPT !.intent = TRUE]
        OBVIOUS
      <4>2. r \in DispatchRecord /\ r.intent /\ r.state = dispatch[a].state
        BY <2>1, <4>1 DEF DispatchRecord
      <4>3. dispatch' = [dispatch EXCEPT ![a] = r] /\ r.state = "accepted"
        BY <1>0, <2>10, <3>3, <4>1, <4>2 DEF Antigravity!AuthorizePrompt, PromptType
      <4> QED
        BY <2>4, <3>1, <4>2, <4>3 DEF Late
    <3> QED
      BY <3>2, <3>3
  <2>11. ASSUME UNCHANGED dispatch, Quiet, dispatch[a].intent, pc' \notin {"idle", "recover"},
                pc \notin Late \/ pc' \in Late
         PROVE  PromptInv'
    <3>1. Becomes(dispatch[a]) /\ dispatch[a].state \notin Antigravity!Settled
      BY <2>0, <2>1, <2>6, <2>11 DEF Antigravity!Current
    <3>2. dispatch[a].state # "completed"
      BY <3>1 DEF Antigravity!Settled
    <3> QED
      BY <2>4, <2>5, <2>11, <3>1, <3>2
  <2>12. ASSUME Antigravity!ObserveEvidence(a), Quiet, dispatch[a].intent
         PROVE  PromptInv'
    <3>1. CASE log[Antigravity!Evidence(a)].ok
      <4>1. PICK n \in Nat : n = dispatch[a].cursor + 1
        BY <1>0, <2>1, <2>12 DEF Antigravity!ObserveEvidence, Antigravity!EvidenceExists,
             DispatchRecord
      <4>2. PICK r : r = [dispatch[a] EXCEPT !.state = "running", !.accepted = n]
        OBVIOUS
      <4>3. r \in DispatchRecord /\ r.intent /\ r.state = "running"
        BY <2>1, <2>12, <4>2 DEF DispatchRecord
      <4>4. dispatch' = [dispatch EXCEPT ![a] = r] /\ pc' = "wait"
        BY <1>0, <2>12, <3>1, <4>1, <4>2 DEF Antigravity!ObserveEvidence, Antigravity!Evidence,
             PromptType
      <4> QED
        BY <2>5, <2>12, <4>3, <4>4 DEF Antigravity!Settled, Late
    <3>2. CASE ~log[Antigravity!Evidence(a)].ok
      <4>1. Antigravity!Fails(a, "dispatch_rejected") /\ pc' = "idle"
        BY <2>12, <3>2 DEF Antigravity!ObserveEvidence
      <4>2. PICK r : /\ Becomes(r) /\ r.intent = dispatch[a].intent
                     /\ r.state = "failed" /\ r.failure = "dispatch_rejected"
        BY <2>7, <4>1
      <4> QED
        BY <2>5, <2>12, <4>1, <4>2 DEF Antigravity!Settled, SideEffectOpen
    <3> QED
      BY <3>1, <3>2
  <2>13. ASSUME Antigravity!Uncertain(a), Quiet, dispatch[a].intent, pc' = "idle"
         PROVE  PromptInv'
    <3>1. PICK r : Becomes(r) /\ r.intent = dispatch[a].intent /\ r.state = "uncertain"
      BY <2>8, <2>13
    <3> QED
      BY <2>5, <2>13, <3>1 DEF Antigravity!Settled
  <2>14. ASSUME dispatch' = [dispatch EXCEPT ![a].state = "completed"], Quiet,
                dispatch[a].intent, pc' = "idle"
         PROVE  PromptInv'
    <3>1. PICK r : r = [dispatch[a] EXCEPT !.state = "completed"]
      OBVIOUS
    <3>2. r \in DispatchRecord /\ r.intent /\ r.state = "completed"
      BY <2>1, <2>14, <3>1 DEF DispatchRecord
    <3>3. dispatch' = [dispatch EXCEPT ![a] = r]
      BY <1>0, <2>14, <3>1 DEF PromptType
    <3> QED
      BY <2>5, <2>14, <3>2, <3>3 DEF Antigravity!Settled
  <2>15. CASE Antigravity!Baseline(a)
    <3>1. pc = "baseline" /\ pc' = "check" /\ Quiet
      BY <2>15 DEF Antigravity!Baseline, Antigravity!native
    <3>2. PICK n \in Nat : n = Len(log)
      BY <1>0 DEF PromptType
    <3>3. PICK r : r = [dispatch[a] EXCEPT !.cursor = n]
      OBVIOUS
    <3>4. r \in DispatchRecord /\ r.intent /\ r.state = dispatch[a].state
      BY <2>1, <3>1, <3>3 DEF DispatchRecord
    <3>5. dispatch' = [dispatch EXCEPT ![a] = r]
      BY <1>0, <2>15, <3>2, <3>3 DEF Antigravity!Baseline, PromptType
    <3>6. r.state # "completed"
      BY <2>0, <3>4 DEF Antigravity!Current, Antigravity!Settled
    <3> QED
      BY <2>4, <3>1, <3>4, <3>5, <3>6 DEF Late
  <2>16. ASSUME pc \notin Late, Quiet, pc' = "idle",
                NEW f \in {"duplicate_prompt", "input_fence", "store_failed"},
                Antigravity!Fails(a, f)
         PROVE  PromptInv'
    <3>1. PICK r : Becomes(r)
      BY <2>7, <2>16
    <3> QED
      BY <2>4, <2>16, <3>1
  <2>17. CASE Antigravity!CheckSubmission(a)
    <3>1. pc = "check" /\ Quiet /\ pc \notin Late
      BY <2>17 DEF Antigravity!CheckSubmission, Antigravity!native, Late
    <3>2. \/ UNCHANGED dispatch /\ pc' = "stage_fence"
          \/ pc' = "idle" /\ (\/ Antigravity!Fails(a, "duplicate_prompt")
                              \/ Antigravity!Fails(a, "input_fence")
                              \/ Antigravity!Fails(a, "store_failed"))
      BY <2>17 DEF Antigravity!CheckSubmission, Antigravity!NotRecorded
    <3> QED
      BY <2>1, <2>11, <2>16, <3>1, <3>2
  <2>18. CASE Antigravity!FenceStage(a)
    <3>1. pc = "stage_fence" /\ Quiet /\ pc \notin Late
      BY <2>18 DEF Antigravity!FenceStage, Antigravity!native, Late
    <3>2. \/ UNCHANGED dispatch /\ pc' = "stage_send"
          \/ pc' = "idle" /\ Antigravity!Fails(a, "input_fence")
      BY <2>18 DEF Antigravity!FenceStage
    <3> QED
      BY <2>1, <2>11, <2>16, <3>1, <3>2
  <2>19. CASE Antigravity!FenceSubmit(a)
    <3>1. /\ pc = "submit_fence" /\ Quiet /\ UNCHANGED dispatch
          /\ pc' \in {"submit_send", "inspect"}
      BY <2>19 DEF Antigravity!FenceSubmit, Antigravity!native
    <3> QED
      BY <2>1, <2>11, <3>1 DEF Late
  <2>20. CASE Antigravity!InspectProcess(a)
    <3>1. /\ pc = "inspect" /\ Quiet
          /\ \/ pc' = "await" /\ UNCHANGED dispatch
             \/ pc' = "idle" /\ Antigravity!Uncertain(a)
      BY <2>20 DEF Antigravity!InspectProcess, Antigravity!native
    <3> QED
      BY <2>1, <2>11, <2>13, <3>1 DEF Late
  <2>21. CASE Antigravity!AwaitAcceptance(a) \/ Antigravity!AcceptanceTimesOut(a)
    <3>1. /\ pc = "await" /\ Quiet
          /\ \/ Antigravity!ObserveEvidence(a)
             \/ pc' = "idle" /\ Antigravity!Uncertain(a)
      BY <2>21 DEF Antigravity!AwaitAcceptance, Antigravity!AcceptanceTimesOut,
           Antigravity!native
    <3> QED
      BY <2>1, <2>12, <2>13, <3>1
  <2>22. CASE Antigravity!Reconcile(a) \/ Antigravity!CollectResult(a)
    <3>1. /\ pc \in {"reconcile", "wait"} /\ Quiet
          /\ \/ pc' = "idle" /\ dispatch' = [dispatch EXCEPT ![a].state = "completed"]
             \/ Antigravity!ObserveEvidence(a)
             \/ pc' = "idle" /\ Antigravity!Uncertain(a)
      BY <2>22 DEF Antigravity!Reconcile, Antigravity!CollectResult, Antigravity!native
    <3> QED
      BY <2>1, <2>12, <2>13, <2>14, <3>1
  <2>23. ASSUME NEW delivered \in BOOLEAN, NEW acknowledged \in BOOLEAN,
                Antigravity!SendEnter(a, delivered, acknowledged)
         PROVE  PromptInv'
    <3>1. /\ pc = "submit_send" /\ pc' = "inspect" /\ UNCHANGED <<dispatch, log>>
          /\ \/ submitted' = line /\ line' = None
             \/ UNCHANGED <<submitted, line>>
      BY <2>23 DEF Antigravity!SendEnter
    <3>2. PromptType'
      BY <1>0, <3>1 DEF PromptType
    <3>3. None \notin 1 .. Attempts
      BY <1>0 DEF Antigravity!PromptAssumption
    <3>4. \A b \in 1 .. Attempts : Reached(b)' => Reached(b)
      BY <3>1, <3>3 DEF Reached
    <3>5. dispatch[a].intent /\ dispatch[a].state \notin Antigravity!Settled
      BY <2>0, <2>1, <3>1 DEF Antigravity!Current
    <3> QED
      BY <1>0, <2>0, <3>1, <3>2, <3>4, <3>5, AttemptStep DEF Antigravity!Settled, Late
  <2>24. ASSUME NEW delivered \in BOOLEAN, NEW acknowledged \in BOOLEAN,
                Antigravity!SendText(a, delivered, acknowledged)
         PROVE  PromptInv'
    <3>1. /\ pc = "stage_send" /\ UNCHANGED <<submitted, log>> /\ line' \in {a, line}
          /\ \/ pc' = "submit_fence" /\ UNCHANGED dispatch
             \/ pc' = "idle" /\ Antigravity!Uncertain(a)
             \/ pc' = "idle" /\ Antigravity!Fails(a, "store_failed")
      BY <2>24 DEF Antigravity!SendText, Antigravity!NotRecorded
    <3>2. \A b \in 1 .. Attempts : b # a /\ Reached(b)' => Reached(b)
      BY <3>1 DEF Reached
    <3>3. dispatch[a].intent /\ dispatch[a].state \notin Antigravity!Settled
      BY <2>0, <2>1, <3>1 DEF Antigravity!Current
    <3>4. PICK r : /\ Becomes(r) /\ r.intent
                   /\ \/ pc' = "submit_fence" /\ r.state \notin Antigravity!Settled
                      \/ pc' = "idle" /\ r.state = "uncertain"
                      \/ pc' = "idle" /\ r.state = "failed" /\ r.failure = "store_failed"
      <4>1. CASE pc' = "submit_fence" /\ UNCHANGED dispatch
        BY <2>6, <3>3, <4>1
      <4>2. CASE pc' = "idle" /\ Antigravity!Uncertain(a)
        BY <2>8, <3>3, <4>2
      <4>3. CASE pc' = "idle" /\ Antigravity!Fails(a, "store_failed")
        <5>1. PICK r : /\ Becomes(r) /\ r.intent = dispatch[a].intent
                       /\ r.state = "failed" /\ r.failure = "store_failed"
          BY <2>7, <4>3
        <5> QED
          BY <3>3, <4>3, <5>1
      <4> QED
        BY <3>1, <4>1, <4>2, <4>3
    <3>5. dispatch'[a] = r /\ \A b \in 1 .. Attempts : b # a => dispatch'[b] = dispatch[b]
      BY <1>0, <3>4 DEF PromptType
    <3>6. PromptType'
      BY <1>0, <3>1, <3>4 DEF PromptType
    <3>7. /\ pc' \notin {"idle", "recover"} => dispatch'[a].state # "completed"
          /\ Antigravity!Current(a)' => pc' \in Late
          /\ dispatch'[a].intent
          /\ dispatch'[a].state = "failed" => dispatch'[a].failure \in SideEffectOpen
      BY <3>4, <3>5 DEF Antigravity!Current, Antigravity!Settled, Late, SideEffectOpen
    <3> QED
      BY <1>0, <2>0, <3>2, <3>5, <3>6, <3>7, AttemptStep
  <2> QED
    BY <1>1, <2>9, <2>10, <2>15, <2>17, <2>18, <2>19, <2>20, <2>21, <2>22, <2>23, <2>24
    DEF Antigravity!Adapter, Antigravity!Sends
<1>2. ASSUME NEW a \in 1 .. Attempts, Antigravity!NativeCompletes(a) PROVE PromptInv'
  <2>1. UNCHANGED <<dispatch, pc, line, submitted, log>>
    BY <1>2 DEF Antigravity!NativeCompletes, Antigravity!store
  <2> QED
    BY <1>0, <2>1, SessionStep DEF PromptType, Reached
<1>3. ASSUME NEW ok \in BOOLEAN, Antigravity!NativeHandles(ok) PROVE PromptInv'
  <2>1. /\ UNCHANGED <<dispatch, pc, line>> /\ submitted # None /\ submitted' = None
        /\ log' = Append(log, [from |-> submitted, ok |-> ok])
    BY <1>3 DEF Antigravity!NativeHandles, Antigravity!store
  <2>2. [from |-> submitted, ok |-> ok] \in [from : 0 .. Attempts, ok : BOOLEAN]
    BY <1>0, <2>1 DEF PromptType
  <2>3. PromptType'
    BY <1>0, <2>1, <2>2 DEF PromptType
  <2>4. \A i \in DOMAIN log' : log'[i].from = submitted \/ (i \in DOMAIN log /\ log'[i] = log[i])
    BY <1>0, <2>1, <2>2 DEF PromptType
  <2>5. None \notin 1 .. Attempts
    BY <1>0 DEF Antigravity!PromptAssumption
  <2> QED
    BY <2>1, <2>3, <2>4, <2>5, SessionStep DEF Reached
<1>4. CASE Antigravity!ReplaceProcess \/ Antigravity!HumanSubmits
  <2>1. /\ UNCHANGED <<dispatch, pc, log>> /\ line' = None
        /\ \/ submitted' = None
           \/ line = None /\ submitted' = 0
           \/ line # None /\ submitted' = line
    BY <1>0, <1>4 DEF Antigravity!ReplaceProcess, Antigravity!HumanSubmits, Antigravity!store
  <2>2. None \notin 0 .. Attempts
    BY <1>0 DEF Antigravity!PromptAssumption
  <2>3. PromptType'
    BY <1>0, <2>1 DEF PromptType
  <2> QED
    BY <1>0, <2>1, <2>2, <2>3, SessionStep DEF Reached
<1>5. CASE Antigravity!Crash \/ UNCHANGED Antigravity!vars
  <2>1. UNCHANGED <<dispatch, line, submitted, log>> /\ pc' \in {"recover", pc}
    BY <1>5 DEF Antigravity!Crash, Antigravity!vars, Antigravity!store, Antigravity!native
  <2> QED
    BY <1>0, <2>1 DEF PromptInv, PromptType, Reached, ReachedInTurn, Antigravity!Current, Late
<1>6. CASE Antigravity!Recover
  <2>0. pc = "recover" /\ UNCHANGED <<line, submitted, log>>
    BY <1>6 DEF Antigravity!Recover, Antigravity!native
  <2>1. \A b \in 1 .. Attempts : Reached(b)' <=> Reached(b)
    BY <2>0 DEF Reached
  <2>2. CASE \E a \in 1 .. Attempts : Antigravity!Current(a) /\ dispatch[a].intent
    <3>1. PICK a \in 1 .. Attempts :
            /\ Antigravity!Current(a) /\ dispatch[a].intent
            /\ pc' \in {"wait", "reconcile"}
            /\ dispatch' \in {[dispatch EXCEPT ![a].cursor = Len(log)], dispatch}
      <4>1. PICK a : a = CHOOSE b \in Antigravity!Attempt :
                            Antigravity!Current(b) /\ dispatch[b].intent
        OBVIOUS
      <4>2. a \in 1 .. Attempts /\ Antigravity!Current(a) /\ dispatch[a].intent
        BY <1>0, <2>2, <4>1
      <4> QED
        BY <1>0, <1>6, <2>2, <4>1, <4>2 DEF Antigravity!Recover
    <3>2. PICK n \in Nat : n = Len(log)
      BY <1>0 DEF PromptType
    <3>3. PICK r \in {[dispatch[a] EXCEPT !.cursor = n], dispatch[a]} :
            dispatch' = [dispatch EXCEPT ![a] = r]
      <4>1. CASE dispatch' = dispatch
        BY <1>0, <4>1 DEF PromptType
      <4>2. CASE dispatch' = [dispatch EXCEPT ![a].cursor = n]
        BY <1>0, <4>2 DEF PromptType
      <4> QED
        BY <3>1, <3>2, <4>1, <4>2
    <3>4. /\ r \in DispatchRecord /\ r.intent
          /\ r.state = dispatch[a].state /\ r.failure = dispatch[a].failure
      <4>1. dispatch[a] \in DispatchRecord
        BY <1>0 DEF PromptType
      <4> QED
        BY <3>1, <4>1 DEF DispatchRecord
    <3>5. /\ PromptType' /\ dispatch'[a] = r
          /\ \A b \in 1 .. Attempts : b # a => dispatch'[b] = dispatch[b]
      BY <1>0, <2>0, <3>3, <3>4 DEF PromptType
    <3>6. /\ dispatch'[a].intent /\ dispatch'[a].state \notin Antigravity!Settled
          /\ pc' \in Late
      BY <3>1, <3>4, <3>5 DEF Antigravity!Current, Late
    <3> QED
      BY <1>0, <2>1, <3>1, <3>5, <3>6, AttemptStep DEF Antigravity!Settled
  <2>3. CASE ~\E a \in 1 .. Attempts : Antigravity!Current(a) /\ dispatch[a].intent
    <3>1. pc' = "idle" /\ UNCHANGED dispatch
      BY <1>0, <1>6, <2>3 DEF Antigravity!Recover
    <3> QED
      BY <1>0, <2>0, <2>1, <2>3, <3>1
      DEF PromptInv, PromptType, ReachedInTurn, Antigravity!Current
  <2> QED
    BY <2>2, <2>3
<1> QED
  BY <1>0, <1>1, <1>2, <1>3, <1>4, <1>5, <1>6 DEF Antigravity!Next

(* An Attempt that is reported as refused left nothing in the native         *)
(* session (sendPrompt, observeAntigravityPromptDispatch): what was written  *)
(* without an acknowledgement is uncertain instead, and no later Attempt is  *)
(* mistaken for it.                                                          *)
THEOREM RefusalNeverHadSideEffect ==
    ASSUME Antigravity!PromptAssumption
    PROVE  Antigravity!Spec => []RefusalHadNoSideEffect
<1>1. PromptInv => Antigravity!RefusalHadNoSideEffect
  <2> SUFFICES ASSUME PromptInv, NEW a \in 1 .. Attempts,
                      dispatch[a].state = "failed", dispatch[a].failure \notin SideEffectOpen
               PROVE  ~Reached(a)
    BY DEF Antigravity!RefusalHadNoSideEffect, Antigravity!Attempt, Reached, SideEffectOpen
  <2> QED
    BY DEF PromptInv, ReachedInTurn
<1>2. Antigravity!Init => PromptInv
  BY PromptInit
<1>3. PromptInv /\ [Antigravity!Next]_Antigravity!vars => PromptInv'
  BY PromptStep
<1> QED
  BY <1>1, <1>2, <1>3, PTL DEF RefusalHadNoSideEffect, Antigravity!Spec


-----------------------------------------------------------------------------
(* The login of a harness (HarnessSetup).                                   *)

SetupType ==
    /\ row \in [state : Setup!States, inv : Setup!Invocations]
    /\ tally \in [begun : {0, 1}, commands : Nat, restarts : Nat]

(* The row forgets a begun login only in a state no preparation starts from, *)
(* and no preparation under way holds a failed row.                          *)
Remembered ==
    tally.begun = 1 /\ row.inv = "not_requested" =>
        /\ row.state \in {"failed", "cancelled", "invalidated"}
        /\ op \in {"preparing", "inspecting"} => row.state # "failed"

SetupInv ==
    /\ SetupType /\ Remembered
    /\ op = "requested" => tally.begun = 0 /\ row.inv # "not_requested"
    /\ op = "beginning" => tally.begun = 1

(* Nothing is set up and no login has begun.                                 *)
LEMMA SetupInit == Setup!Init => SetupInv
  BY DEF Setup!Init, SetupInv, SetupType, Remembered, Setup!States, Setup!Invocations

(* The row becomes r, and the login count changes only with op.             *)
LEMMA RowChanged ==
    ASSUME SetupInv, NEW s \in Setup!States, NEW i \in Setup!Invocations,
           row' = [state |-> s, inv |-> i]
    PROVE  /\ row' \in [state : Setup!States, inv : Setup!Invocations]
           /\ row'.state = s /\ row'.inv = i
  OBVIOUS

(* Commands and restarts are counted apart from logins.                      *)
LEMMA Counted ==
    ASSUME SetupInv,
           \/ UNCHANGED tally
           \/ tally' = [tally EXCEPT !.commands = @ + 1]
           \/ tally' = [tally EXCEPT !.restarts = @ + 1]
    PROVE  /\ tally' \in [begun : {0, 1}, commands : Nat, restarts : Nat]
           /\ tally'.begun = tally.begun
  BY DEF SetupInv, SetupType

(* Every operation of a setup, its cancellation, its invalidation and a      *)
(* restart of the Worker.                                                    *)
LEMMA SetupStep ==
    ASSUME SetupInv, [Setup!Next]_Setup!vars PROVE SetupInv'
<1> USE DEF Setup!States, Setup!Invocations
<1>0. /\ row \in [state : Setup!States, inv : Setup!Invocations]
      /\ tally \in [begun : {0, 1}, commands : Nat, restarts : Nat]
  BY DEF SetupInv, SetupType
<1> USE <1>0 DEF SetupInv, SetupType, Remembered, Setup!Command, Setup!Row, Setup!Cancelling,
        Setup!MayHaveStarted, Setup!Interrupted, Setup!FinishCancellation, Setup!Unsure,
        Setup!Stops, Setup!RequestCancel
<1>1. CASE Setup!Prepare
  BY <1>1 DEF Setup!Prepare
<1>2. CASE Setup!ReportFails
  BY <1>2 DEF Setup!ReportFails
<1>3. CASE Setup!Reported
  BY <1>3 DEF Setup!Reported
<1>4. CASE Setup!PreparationFails
  BY <1>4 DEF Setup!PreparationFails
<1>5. CASE Setup!Inspected
  BY <1>5 DEF Setup!Inspected
<1>6. CASE Setup!Begin
  <2>1. op = "requested" /\ tally.begun = 0 /\ row.inv # "not_requested"
    BY <1>6 DEF Setup!Begin
  <2>2. CASE UNCHANGED tally
    BY <1>6, <2>1, <2>2 DEF Setup!Begin
  <2>3. CASE tally' # tally
    <3>1. /\ tally' = [tally EXCEPT !.begun = tally.begun + 1] /\ tally.begun + 1 = 1
          /\ UNCHANGED row /\ op' = "beginning"
      BY <1>6, <2>1, <2>3 DEF Setup!Begin
    <3>2. tally' = [tally EXCEPT !.begun = 1]
      BY <3>1
    <3>3. /\ tally' \in [begun : {0, 1}, commands : Nat, restarts : Nat]
          /\ tally'.begun = 1
      BY <3>2
    <3> QED
      BY <2>1, <3>1, <3>3
  <2> QED
    BY <2>2, <2>3
<1>7. CASE Setup!Begun
  BY <1>7 DEF Setup!Begun
<1>8. CASE Setup!BeginFails
  BY <1>8 DEF Setup!BeginFails
<1>9. CASE Setup!OpStopped
  BY <1>9 DEF Setup!OpStopped
<1>10. CASE Setup!Revalidated
  BY <1>10 DEF Setup!Revalidated
<1>11. CASE Setup!Interaction
  BY <1>11 DEF Setup!Interaction
<1>12. CASE Setup!ResponseUncertain
  BY <1>12 DEF Setup!ResponseUncertain
<1>13. CASE Setup!Complete
  BY <1>13 DEF Setup!Complete
<1>14. CASE Setup!Cancel
  BY <1>14 DEF Setup!Cancel
<1>15. CASE Setup!CancelReported
  BY <1>15 DEF Setup!CancelReported
<1>16. CASE Setup!CancelPending
  BY <1>16 DEF Setup!CancelPending
<1>17. CASE Setup!CancelStopped
  BY <1>17 DEF Setup!CancelStopped
<1>18. CASE Setup!Invalidate
  BY <1>18 DEF Setup!Invalidate
<1>19. CASE Setup!InvalidateWaited
  BY <1>19 DEF Setup!InvalidateWaited
<1>20. CASE Setup!InvalidateStopped
  BY <1>20 DEF Setup!InvalidateStopped
<1>21. CASE Setup!Restart
  BY <1>21 DEF Setup!Restart
<1>22. CASE Setup!ReportedUncertain \/ Setup!ReportedCancelled
  BY <1>22 DEF Setup!ReportedUncertain, Setup!ReportedCancelled
<1>23. CASE UNCHANGED Setup!vars
  BY <1>23 DEF Setup!vars
<1> QED
  BY <1>1, <1>2, <1>3, <1>4, <1>5, <1>6, <1>7, <1>8, <1>9, <1>10, <1>11,
     <1>12, <1>13, <1>14, <1>15, <1>16, <1>17, <1>18, <1>19, <1>20, <1>21, <1>22, <1>23
  DEF Setup!Next

(* prepareOnce begins the login of a setup at most once, and never after a  *)
(* cancellation or the Run's cleanup.                                       *)
THEOREM LoginNeverBegunTwice == Setup!Spec => LoginBegunAtMostOnce
<1> DEFINE Once == /\ tally'.begun <= 1
                   /\ tally'.begun > tally.begun =>
                        row.state \notin {"invalidated", "cancelled", "cancellation_requested"}
<1>1. ASSUME SetupInv, SetupInv', [Setup!Next]_Setup!vars PROVE Once
  <2>1. tally'.begun <= 1 /\ tally.begun \in {0, 1}
    BY <1>1 DEF SetupInv, SetupType
  <2>2. CASE Setup!Begin
    BY <1>1, <2>1, <2>2 DEF Setup!Begin, Setup!Cancelling, Setup!Interrupted
  <2>3. CASE ~Setup!Begin
    <3>1. tally'.begun = tally.begun \/ Setup!BeginFails
      BY <1>1, <2>3 DEF SetupInv, SetupType, Setup!Next, Setup!vars, Setup!Command, Setup!Prepare,
           Setup!ReportFails, Setup!Reported, Setup!PreparationFails, Setup!Inspected,
           Setup!Begun, Setup!OpStopped, Setup!Revalidated, Setup!Interaction,
           Setup!ResponseUncertain, Setup!ReportedUncertain, Setup!ReportedCancelled,
           Setup!Complete, Setup!Cancel, Setup!CancelReported,
           Setup!CancelPending, Setup!CancelStopped, Setup!Invalidate,
           Setup!InvalidateWaited, Setup!InvalidateStopped, Setup!Restart
    <3>2. CASE Setup!BeginFails
      BY <1>1, <2>1, <3>2 DEF Setup!BeginFails, SetupInv, SetupType
    <3> QED
      BY <2>1, <3>1, <3>2
  <2> QED
    BY <2>2, <2>3
<1>2. SetupInv /\ [Setup!Next]_Setup!vars => SetupInv'
  BY SetupStep
<1> QED
  BY <1>1, <1>2, SetupInit, PTL DEF LoginBegunAtMostOnce, Setup!Spec, Setup!LoginBegunAtMostOnce

-----------------------------------------------------------------------------
(* The login of a provider account (AccountSetup).                          *)

(* The intent to launch is on record and the attempt is not settled.        *)
Launching ==
    rec # None /\ rec.inv \in {"requested", "acknowledged"} /\ rec.state \notin Account!Terminals

AccountType ==
    /\ rec = None \/ rec \in Account!AttemptRow
    /\ count \in [spawns : {0, 1}, signals : Nat, commands : Nat, restarts : Nat]

(* Nothing works on an attempt that does not exist.                         *)
NothingBefore ==
    rec = None =>
        /\ prep = "idle" /\ recon = "idle" /\ monitor = "none" /\ writing = FALSE
        /\ live = Account!NoSupervisor
        /\ \A c \in Cancels : cancels[c] = Account!Idle

AccountInv ==
    /\ AccountType /\ NothingBefore
    /\ rec = None \/ rec.inv = "not_requested" => count.spawns = 0
    /\ prep \in {"queued", "preflight"} => rec # None /\ rec.inv = "not_requested"
    /\ prep = "spawning" => Launching /\ rec.inv = "requested" /\ count.spawns = 0
    /\ envop = TRUE => prep \in {"idle", "queued"} /\ ~Launching
    /\ Launching => env = "available"

(* No attempt exists.                                                        *)
LEMMA AccountInit == Account!Init => AccountInv
  BY DEF Account!Init, AccountInv, AccountType, NothingBefore, Launching

(* A step that leaves the row, the environment and their locks alone.       *)
LEMMA Aside ==
    ASSUME AccountInv, UNCHANGED <<rec, env, prep, envop>>,
           \/ UNCHANGED count
           \/ count' = [count EXCEPT !.commands = @ + 1]
           \/ count' = [count EXCEPT !.signals = @ + 1],
           rec = None => UNCHANGED <<recon, monitor, writing, live, cancels>>
    PROVE  AccountInv'
<1>1. /\ count' \in [spawns : {0, 1}, signals : Nat, commands : Nat, restarts : Nat]
      /\ count'.spawns = count.spawns
  BY DEF AccountInv, AccountType
<1>2. NothingBefore'
  BY DEF AccountInv, NothingBefore
<1> QED
  BY <1>1, <1>2 DEF AccountInv, AccountType, Launching

(* A transition of an attempt outside its preparation: it forgets no launch *)
(* and revives no settled one.                                              *)
LEMMA Transition ==
    ASSUME Account!AccountAssumption, AccountInv, Account!TailFree, rec # None,
           rec' \in Account!AttemptRow, UNCHANGED <<env, prep, envop>>,
           UNCHANGED count \/ count' = [count EXCEPT !.commands = @ + 1],
           rec'.inv = "not_requested" => rec.inv = "not_requested",
           Launching' => Launching
    PROVE  AccountInv'
<1>1. /\ count' \in [spawns : {0, 1}, signals : Nat, commands : Nat, restarts : Nat]
      /\ count'.spawns = count.spawns
  BY DEF AccountInv, AccountType
<1>2. rec' # None
  BY DEF Account!AccountAssumption
<1>3. NothingBefore'
  BY <1>2 DEF NothingBefore
<1> QED
  BY <1>1, <1>2, <1>3 DEF AccountInv, AccountType, Account!TailFree

(* What the outcomes of a cancellation make of a row.                       *)
LEMMA RowOutcomes ==
    ASSUME NEW r \in Account!AttemptRow
    PROVE  /\ Account!Uncertain(r) \in Account!AttemptRow
           /\ Account!Uncertain(r).state = "uncertain" /\ Account!Uncertain(r).inv = "uncertain"
           /\ Account!CancelledUncertain(r) \in Account!AttemptRow
           /\ Account!CancelledUncertain(r).state = "uncertain"
           /\ Account!CancelledUncertain(r).inv = "uncertain"
           /\ Account!Terminated(r) \in Account!AttemptRow
           /\ Account!Terminated(r).state \in Account!Terminals
           /\ Account!Terminated(r).inv = "not_requested" <=> r.inv = "not_requested"
           /\ Account!CancelRequested(r) \in Account!AttemptRow
           /\ Account!CancelRequested(r).inv = r.inv
           /\ Account!CancelRequested(r).state = "cancellation_requested"
<1> USE DEF Account!AttemptRow, Account!Terminals
<1>1. /\ Account!Uncertain(r) \in Account!AttemptRow
      /\ Account!Uncertain(r).state = "uncertain" /\ Account!Uncertain(r).inv = "uncertain"
  BY DEF Account!Uncertain
<1>2. /\ Account!CancelledUncertain(r) \in Account!AttemptRow
      /\ Account!CancelledUncertain(r).state = "uncertain"
      /\ Account!CancelledUncertain(r).inv = "uncertain"
  BY <1>1 DEF Account!CancelledUncertain
<1>3. /\ Account!CancelRequested(r) \in Account!AttemptRow
      /\ Account!CancelRequested(r).inv = r.inv
      /\ Account!CancelRequested(r).state = "cancellation_requested"
  BY DEF Account!CancelRequested
<1>4. PICK s \in Account!Terminals :
        s = CASE r.state = "cancellation_requested" -> "cancelled"
              [] r.state # "cancellation_requested" /\ r.sup = "input_uncertain" -> "uncertain"
              [] OTHER -> "failed"
  OBVIOUS
<1>5. PICK v :
        v = CASE r.inv = "not_requested" -> r.inv
              [] /\ r.inv # "not_requested" /\ r.state # "cancellation_requested"
                 /\ r.sup = "input_uncertain" -> "uncertain"
              [] OTHER -> "settled"
  OBVIOUS
<1>6. /\ v \in {"not_requested", "uncertain", "settled"}
      /\ v = "not_requested" <=> r.inv = "not_requested"
  <2>1. CASE r.inv = "not_requested"
    BY <1>5, <2>1
  <2>2. CASE r.inv # "not_requested"
    BY <1>5, <2>2
  <2> QED
    BY <2>1, <2>2
<1>7. Account!Terminated(r) = [r EXCEPT !.state = s, !.inv = v, !.cancel = "settled"]
  BY <1>4, <1>5 DEF Account!Terminated
<1>8. /\ Account!Terminated(r) \in Account!AttemptRow
      /\ Account!Terminated(r).state = s /\ Account!Terminated(r).inv = v
  BY <1>6, <1>7
<1> QED
  BY <1>1, <1>2, <1>3, <1>4, <1>6, <1>8

(* Every operation of an account: its preparation, the supervisor, the       *)
(* cancellation, the reconciliation and a restart.                           *)
LEMMA AccountStep ==
    ASSUME Account!AccountAssumption, AccountInv, [Account!Next]_Account!vars PROVE AccountInv'
<1>0. rec # None => rec \in Account!AttemptRow
  BY DEF AccountInv, AccountType
<1>1. ASSUME NEW r, r \in Account!AttemptRow, rec' = r, Account!TailFree, rec # None,
             UNCHANGED <<env, prep, envop>>,
             UNCHANGED count \/ count' = [count EXCEPT !.commands = @ + 1],
             r.inv = "not_requested" => rec.inv = "not_requested",
             r.inv \in {"requested", "acknowledged"} /\ r.state \notin Account!Terminals
               => Launching
      PROVE  AccountInv'
  BY <1>1, Transition DEF Launching
<1>2. CASE Account!Prepare
  <2>0. /\ UNCHANGED <<live, login, stream, env, envop, monitor, writing>> /\ prep = "idle"
        /\ count' = [count EXCEPT !.commands = @ + 1]
    BY <1>2 DEF Account!Prepare, Account!Command, Account!TailFree
  <2>1. ASSUME NEW r, rec' = r, r \in Account!AttemptRow,
               r.inv = "not_requested" => rec = None \/ rec.inv = "not_requested",
               \/ rec = None /\ r.inv = "not_requested"
               \/ rec # None /\ r.inv = rec.inv /\ (r.state \notin Account!Terminals =>
                                                     rec.state \notin Account!Terminals)
               \/ r.state \in Account!Terminals,
               prep' = "idle" \/ (prep' = "queued" /\ r.inv = "not_requested")
        PROVE  AccountInv'
    <3>1. Launching' => Launching
      BY <1>0, <2>1 DEF Launching
    <3>2. count' \in [spawns : {0, 1}, signals : Nat, commands : Nat, restarts : Nat]
          /\ count'.spawns = count.spawns
      BY <2>0 DEF AccountInv, AccountType
    <3>3. rec' # None
      BY <2>1 DEF Account!AccountAssumption
    <3> QED
      BY <2>0, <2>1, <3>1, <3>2, <3>3 DEF AccountInv, AccountType, NothingBefore
  <2>2. PICK s \in {"authorized", "cancellation_requested"} :
          \E a, r :
            /\ a = Account!Accepted(s)
            /\ r = IF s = "cancellation_requested" /\ a.state \notin Account!Terminals
                   THEN Account!CancelRequested(a) ELSE a
            /\ \/ rec' = r /\ prep' = "idle"
               \/ /\ r.state \notin Account!Terminals /\ prep' = "queued"
                  /\ r.inv = "not_requested" /\ rec' = [r EXCEPT !.state = "preparing"]
               \/ /\ prep' = "idle" /\ r.state \notin Account!Terminals /\ r.inv # "not_requested"
                  /\ rec' = [r EXCEPT !.state =
                                IF r.state = "invocation_acknowledged" /\ live.prompt
                                THEN "human_interaction_required" ELSE r.state]
               \/ prep' = "idle" /\ rec' = [r EXCEPT !.state = "uncertain", !.inv = "uncertain"]
    BY <1>2, <2>0 DEF Account!Prepare, Account!NeverInvoked
  <2>9. PICK a, r :
          /\ a = Account!Accepted(s)
          /\ r = IF s = "cancellation_requested" /\ a.state \notin Account!Terminals
                 THEN Account!CancelRequested(a) ELSE a
          /\ \/ rec' = r /\ prep' = "idle"
             \/ /\ r.state \notin Account!Terminals /\ prep' = "queued"
                /\ r.inv = "not_requested" /\ rec' = [r EXCEPT !.state = "preparing"]
             \/ /\ prep' = "idle" /\ r.state \notin Account!Terminals /\ r.inv # "not_requested"
                /\ rec' = [r EXCEPT !.state = IF r.state = "invocation_acknowledged" /\ live.prompt
                                             THEN "human_interaction_required" ELSE r.state]
             \/ prep' = "idle" /\ rec' = [r EXCEPT !.state = "uncertain", !.inv = "uncertain"]
    BY <2>2
  <2>3. /\ a \in Account!AttemptRow
        /\ \/ rec = None /\ a.inv = "not_requested" /\ a.state = s
           \/ rec # None /\ a = rec
    <3>1. CASE rec = None
      BY <2>9, <3>1 DEF Account!Accepted, Account!AttemptRow, Account!Terminals
    <3>2. CASE rec # None
      BY <1>0, <2>9, <3>2 DEF Account!Accepted
    <3> QED
      BY <3>1, <3>2
  <2>4. /\ r \in Account!AttemptRow /\ r.inv = a.inv
        /\ r.state \notin Account!Terminals => a.state \notin Account!Terminals
    <3>1. CASE r = Account!CancelRequested(a) /\ a.state \notin Account!Terminals
      BY <2>3, <3>1, RowOutcomes
    <3>2. CASE r = a
      BY <2>3, <3>2
    <3> QED
      BY <2>9, <3>1, <3>2
  <2>5. /\ r.inv = "not_requested" => rec = None \/ rec.inv = "not_requested"
        /\ \/ rec = None /\ r.inv = "not_requested"
           \/ rec # None /\ r.inv = rec.inv /\ (r.state \notin Account!Terminals =>
                                                 rec.state \notin Account!Terminals)
    BY <2>3, <2>4
  <2>6. CASE rec' = r /\ prep' = "idle"
    BY <2>1, <2>4, <2>5, <2>6
  <2>7. ASSUME NEW t \in {"preparing", "human_interaction_required", r.state},
               rec' = [r EXCEPT !.state = t], r.state \notin Account!Terminals,
               prep' = "idle" \/ (prep' = "queued" /\ r.inv = "not_requested")
        PROVE  AccountInv'
    <3>1. PICK q : q = [r EXCEPT !.state = t]
      OBVIOUS
    <3>2. q \in Account!AttemptRow /\ q.inv = r.inv
      BY <2>4, <3>1 DEF Account!AttemptRow
    <3> QED
      BY <2>1, <2>5, <2>7, <3>1, <3>2
  <2>8. CASE rec' = [r EXCEPT !.state = "uncertain", !.inv = "uncertain"] /\ prep' = "idle"
    <3>1. rec' = Account!Uncertain(r)
      BY <2>8 DEF Account!Uncertain
    <3>2. PICK q : q = Account!Uncertain(r)
      OBVIOUS
    <3>3. q \in Account!AttemptRow /\ q.inv = "uncertain" /\ q.state \in Account!Terminals
      BY <2>4, <3>2, RowOutcomes DEF Account!Terminals
    <3> QED
      BY <2>1, <2>8, <3>1, <3>2, <3>3
  <2> QED
    BY <2>9, <2>6, <2>7, <2>8
<1>3. CASE Account!BeginSetupProcess
  BY <1>3 DEF Account!BeginSetupProcess, AccountInv, AccountType, NothingBefore, Launching
<1>4. CASE Account!PreflightFails
  <2>1. PICK r : r = [rec EXCEPT !.state = "failed", !.inv = "not_requested"]
    OBVIOUS
  <2>2. rec # None /\ r \in Account!AttemptRow /\ r.inv = "not_requested" /\ r # None
    BY <1>0, <1>4, <2>1
    DEF Account!PreflightFails, AccountInv, Account!AttemptRow, Account!Terminals,
        Account!AccountAssumption
  <2>3. rec' = r /\ prep' = "idle" /\ UNCHANGED <<env, envop, count>> /\ count.spawns = 0
    BY <1>4, <2>1, <2>2 DEF Account!PreflightFails, AccountInv
  <2> QED
    BY <2>2, <2>3 DEF AccountInv, AccountType, NothingBefore, Launching
<1>5. CASE Account!BeforeSpawn
  <2>1. PICK r : r = [rec EXCEPT !.state = "invocation_requested", !.inv = "requested"]
    OBVIOUS
  <2>2. /\ rec # None /\ r \in Account!AttemptRow /\ r.inv = "requested" /\ r # None
        /\ r.state \notin Account!Terminals
    BY <1>0, <1>5, <2>1
    DEF Account!BeforeSpawn, AccountInv, Account!AttemptRow, Account!Terminals,
        Account!AccountAssumption
  <2>3. /\ rec' = r /\ prep' = "spawning" /\ UNCHANGED <<env, envop, count>>
        /\ count.spawns = 0 /\ env = "available" /\ prep = "preflight"
    BY <1>5, <2>1, <2>2 DEF Account!BeforeSpawn, AccountInv
  <2> QED
    BY <2>2, <2>3 DEF AccountInv, AccountType, NothingBefore, Launching
<1>6. CASE Account!AcknowledgeSpawn
  <2>1. PICK r : r = [rec EXCEPT !.state = "invocation_acknowledged", !.inv = "acknowledged",
                                 !.handle = TRUE]
    OBVIOUS
  <2>2. /\ rec # None /\ r \in Account!AttemptRow /\ r.inv = "acknowledged" /\ r # None
    BY <1>0, <1>6, <2>1
    DEF Account!AcknowledgeSpawn, AccountInv, Launching, Account!AttemptRow, Account!Terminals,
        Account!AccountAssumption
  <2>3. /\ rec' = r /\ prep = "spawning" /\ prep' = "idle" /\ UNCHANGED <<env, envop>>
        /\ count.spawns = 0 /\ count.spawns + 1 = 1 /\ env = "available"
    BY <1>6, <2>1, <2>2 DEF Account!AcknowledgeSpawn, AccountInv
  <2>4. count' = [count EXCEPT !.spawns = 1]
    BY <1>6, <2>3 DEF Account!AcknowledgeSpawn
  <2> QED
    BY <2>2, <2>3, <2>4 DEF AccountInv, AccountType, NothingBefore, Launching
<1>7. CASE Account!SpawnFails
  <2>0. /\ prep = "spawning" /\ prep' = "idle" /\ UNCHANGED <<env, envop, recon, monitor>>
        /\ rec # None /\ rec \in Account!AttemptRow /\ rec.inv = "requested"
        /\ count.spawns = 0 /\ count.spawns + 1 = 1
    BY <1>0, <1>7 DEF Account!SpawnFails, AccountInv, Launching
  <2>1. PICK r \in Account!AttemptRow :
          rec' = r /\ r.state \in Account!Terminals /\ r.inv # "not_requested"
    <3>1. CASE rec' = [rec EXCEPT !.state = "uncertain", !.inv = "uncertain"]
      <4>1. rec' = Account!Uncertain(rec)
        BY <3>1 DEF Account!Uncertain
      <4> QED
        BY <2>0, <4>1, RowOutcomes DEF Account!Terminals
    <3>2. CASE rec' = [rec EXCEPT !.state = "failed"]
      <4>1. PICK r : r = [rec EXCEPT !.state = "failed"]
        OBVIOUS
      <4>2. /\ r \in Account!AttemptRow /\ r.state \in Account!Terminals
            /\ r.inv # "not_requested"
        BY <2>0, <4>1 DEF Account!AttemptRow, Account!Terminals
      <4> QED
        BY <3>2, <4>1, <4>2
    <3> QED
      BY <1>7, <3>1, <3>2 DEF Account!SpawnFails
  <2>2. count' = count \/ count' = [count EXCEPT !.spawns = 1]
    BY <1>7, <2>0 DEF Account!SpawnFails
  <2>3. count' \in [spawns : {0, 1}, signals : Nat, commands : Nat, restarts : Nat]
    BY <2>2 DEF AccountInv, AccountType
  <2>4. rec' # None
    BY <2>1 DEF Account!AccountAssumption
  <2> QED
    BY <2>0, <2>1, <2>3, <2>4 DEF AccountInv, AccountType, NothingBefore, Launching
<1>8. CASE \/ Account!ReconInspects \/ Account!ReconSettles \/ Account!PromptSeen
           \/ Account!ExitObserved \/ Account!StreamLost \/ Account!LoginEnds
           \/ UNCHANGED Account!vars
  <2>1. rec = None => UNCHANGED <<recon, monitor, writing, live, cancels>>
    BY <1>8 DEF Account!ReconInspects, Account!ReconSettles, Account!PromptSeen,
         Account!ExitObserved, Account!StreamLost, Account!LoginEnds, Account!vars,
         Account!MonitorSees, AccountInv, NothingBefore, Account!NoSupervisor
  <2> QED
    BY <1>8, <2>1, Aside DEF Account!ReconInspects, Account!ReconSettles, Account!PromptSeen,
         Account!ExitObserved, Account!StreamLost, Account!LoginEnds, Account!vars
<1>9. CASE Account!ReconThrows
  <2>1. rec # None
    BY <1>9 DEF Account!ReconThrows, AccountInv, NothingBefore
  <2> QED
    BY <1>0, <1>1, <1>9, <2>1, RowOutcomes DEF Account!ReconThrows, Account!Terminals
<1>10. ASSUME NEW s, s \in {rec.state, "human_interaction_required"},
              s = rec.state \/ rec.state = "invocation_acknowledged",
              rec' = [rec EXCEPT !.state = s], Account!TailFree, rec # None,
              UNCHANGED <<env, prep, envop, count>>
       PROVE  AccountInv'
  <2>1. PICK r : r = [rec EXCEPT !.state = s]
    OBVIOUS
  <2>2. /\ r \in Account!AttemptRow /\ r.inv = rec.inv
        /\ r.state \notin Account!Terminals => rec.state \notin Account!Terminals
    BY <1>0, <1>10, <2>1 DEF Account!AttemptRow, Account!Terminals
  <2> QED
    BY <1>1, <1>10, <2>1, <2>2 DEF Launching
<1>11. ASSUME NEW u \in {rec.sup, "supervision", "input_uncertain"},
              NEW k \in {rec.cancel, "intent_recorded", "requested", "acknowledged", "uncertain"},
              NEW d \in {rec.delivery, "requested", "acknowledged", "uncertain"},
              rec' = [rec EXCEPT !.sup = u, !.cancel = k, !.delivery = d],
              Account!TailFree, rec # None, UNCHANGED <<env, prep, envop>>,
              UNCHANGED count \/ count' = [count EXCEPT !.commands = @ + 1]
       PROVE  AccountInv'
  <2>1. PICK r : r = [rec EXCEPT !.sup = u, !.cancel = k, !.delivery = d]
    OBVIOUS
  <2>2. r \in Account!AttemptRow /\ r.inv = rec.inv /\ r.state = rec.state
    BY <1>0, <1>11, <2>1 DEF Account!AttemptRow, Account!Terminals
  <2> QED
    BY <1>1, <1>11, <2>1, <2>2 DEF Launching
<1>12. CASE Account!ReconUnattached
  <2>1. Account!TailFree /\ rec # None /\ UNCHANGED <<env, prep, envop, count>>
    BY <1>12 DEF Account!ReconUnattached, AccountInv, NothingBefore
  <2>2. CASE rec' = [rec EXCEPT !.state = IF @ = "invocation_acknowledged" /\ live.prompt
                                          THEN "human_interaction_required" ELSE @]
    BY <1>10, <2>1, <2>2
  <2>3. CASE rec' = [rec EXCEPT !.sup = "supervision", !.cancel = "intent_recorded"]
    <3>1. rec' = [rec EXCEPT !.sup = "supervision", !.cancel = "intent_recorded",
                             !.delivery = rec.delivery]
      BY <1>0, <2>1, <2>3 DEF Account!AttemptRow
    <3> QED
      BY <1>11, <2>1, <3>1
  <2> QED
    BY <1>12, <2>2, <2>3 DEF Account!ReconUnattached
<1>13. CASE Account!PromptRecorded
  <2>1. rec # None
    BY <1>13 DEF Account!PromptRecorded, AccountInv, NothingBefore, Account!NoSupervisor
  <2> QED
    BY <1>10, <1>13, <2>1 DEF Account!PromptRecorded
<1>14. ASSUME rec # None, Account!TailFree, UNCHANGED <<env, prep, envop, count>>,
              NEW w \in Account!Terminals \cup {"validating"},
              NEW v \in {rec.inv, "settled"},
              w = "validating" => v = "settled",
              rec' = [rec EXCEPT !.state = w, !.inv = v]
       PROVE  AccountInv'
  <2>1. PICK r : r = [rec EXCEPT !.state = w, !.inv = v]
    OBVIOUS
  <2>2. r \in Account!AttemptRow /\ r.state = w /\ r.inv = v
    BY <1>0, <1>14, <2>1 DEF Account!AttemptRow, Account!Terminals
  <2> QED
    BY <1>1, <1>14, <2>1, <2>2
<1>15. CASE Account!ReconValidates
  <2>1. rec # None /\ Account!TailFree /\ UNCHANGED <<env, prep, envop, count>>
    BY <1>15 DEF Account!ReconValidates, AccountInv, NothingBefore
  <2>2. \/ rec' = rec \/ rec' = Account!Uncertain(rec)
        \/ rec' = [rec EXCEPT !.state = "succeeded", !.inv = "settled"]
        \/ rec' = [rec EXCEPT !.state = "failed", !.inv = "settled"]
    BY <1>15 DEF Account!ReconValidates, Account!Validations
  <2>3. {"succeeded", "failed", "uncertain"} \subseteq Account!Terminals
    BY DEF Account!Terminals
  <2>4. CASE rec' = rec
    BY <1>0, <1>1, <2>1, <2>4 DEF Launching
  <2>5. CASE rec' = Account!Uncertain(rec)
    BY <1>0, <1>1, <2>1, <2>3, <2>5, RowOutcomes
  <2>6. CASE rec' = [rec EXCEPT !.state = "succeeded", !.inv = "settled"]
    BY <1>14, <2>1, <2>3, <2>6
  <2>7. CASE rec' = [rec EXCEPT !.state = "failed", !.inv = "settled"]
    BY <1>14, <2>1, <2>3, <2>7
  <2> QED
    BY <2>2, <2>4, <2>5, <2>6, <2>7
<1>16. ASSUME rec # None, Account!TailFree, UNCHANGED <<env, prep, envop>>,
              UNCHANGED count \/ count' = [count EXCEPT !.commands = @ + 1],
              \/ rec' = [rec EXCEPT !.sup = "supervision", !.cancel = "intent_recorded"]
              \/ rec' = [rec EXCEPT !.delivery = "requested"]
              \/ rec' = [rec EXCEPT !.delivery = "acknowledged"]
              \/ rec' = [rec EXCEPT !.delivery = "uncertain"]
              \/ rec' = [rec EXCEPT !.delivery = "uncertain", !.sup = "input_uncertain",
                                    !.cancel = "intent_recorded"]
              \/ rec' = [rec EXCEPT !.cancel = "requested"]
              \/ rec' = [rec EXCEPT !.cancel = "acknowledged"]
              \/ rec' = [rec EXCEPT !.cancel = "uncertain"]
              \/ rec' = rec
       PROVE  AccountInv'
  <2>1. rec \in Account!AttemptRow
    BY <1>0, <1>16
  <2>2. ASSUME NEW u, NEW k, NEW d,
               rec' = [rec EXCEPT !.sup = u, !.cancel = k, !.delivery = d],
               u \in {rec.sup, "supervision", "input_uncertain"},
               k \in {rec.cancel, "intent_recorded", "requested", "acknowledged", "uncertain"},
               d \in {rec.delivery, "requested", "acknowledged", "uncertain"}
        PROVE  AccountInv'
    BY <1>11, <1>16, <2>2
  <2>4. CASE \E k \in {"requested", "acknowledged", "uncertain"} : rec' = [rec EXCEPT !.cancel = k]
    <3>1. PICK k \in {"requested", "acknowledged", "uncertain"} : rec' = [rec EXCEPT !.cancel = k]
      BY <2>4
    <3>2. rec' = [rec EXCEPT !.sup = rec.sup, !.cancel = k, !.delivery = rec.delivery]
      BY <2>1, <3>1 DEF Account!AttemptRow
    <3> QED
      BY <2>2, <3>2
  <2>5. CASE \E d \in {"requested", "acknowledged", "uncertain"} :
               rec' = [rec EXCEPT !.delivery = d]
    <3>1. PICK d \in {"requested", "acknowledged", "uncertain"} : rec' = [rec EXCEPT !.delivery = d]
      BY <2>5
    <3>2. rec' = [rec EXCEPT !.sup = rec.sup, !.cancel = rec.cancel, !.delivery = d]
      BY <2>1, <3>1 DEF Account!AttemptRow
    <3> QED
      BY <2>2, <3>2
  <2>6. CASE rec' = [rec EXCEPT !.sup = "supervision", !.cancel = "intent_recorded"]
    <3>1. rec' = [rec EXCEPT !.sup = "supervision", !.cancel = "intent_recorded",
                             !.delivery = rec.delivery]
      BY <2>1, <2>6 DEF Account!AttemptRow
    <3> QED
      BY <2>2, <3>1
  <2>7. CASE rec' = [rec EXCEPT !.delivery = "uncertain", !.sup = "input_uncertain",
                                !.cancel = "intent_recorded"]
    <3>1. rec' = [rec EXCEPT !.sup = "input_uncertain", !.cancel = "intent_recorded",
                             !.delivery = "uncertain"]
      BY <2>1, <2>7 DEF Account!AttemptRow
    <3> QED
      BY <2>2, <3>1
  <2>8. CASE rec' = rec
    BY <1>1, <1>16, <2>1, <2>8 DEF Launching
  <2> QED
    BY <1>16, <2>4, <2>5, <2>6, <2>7, <2>8
<1>17. CASE Account!RequestTermination \/ Account!Respond
  BY <1>16, <1>17 DEF Account!RequestTermination, Account!Respond, Account!Command
<1>18. CASE Account!Written
  <2>1. rec # None
    BY <1>18 DEF Account!Written, AccountInv, NothingBefore
  <2>2. [[rec EXCEPT !.delivery = "uncertain"] EXCEPT !.sup = "input_uncertain",
                                                     !.cancel = "intent_recorded"]
        = [rec EXCEPT !.delivery = "uncertain", !.sup = "input_uncertain",
                      !.cancel = "intent_recorded"]
    BY <1>0, <2>1 DEF Account!AttemptRow
  <2> QED
    BY <1>16, <1>18, <2>1, <2>2 DEF Account!Written
<1>19. CASE Account!MonitorSettles
  <2>1. rec # None /\ Account!TailFree /\ UNCHANGED <<env, prep, envop, count>>
    BY <1>19 DEF Account!MonitorSettles, AccountInv, NothingBefore
  <2>2. \/ rec' = rec \/ rec' = Account!CancelledUncertain(rec) \/ rec' = Account!Terminated(rec)
        \/ rec' = [rec EXCEPT !.state = "failed", !.inv = "settled"]
        \/ rec' = [rec EXCEPT !.state = "validating", !.inv = "settled"]
    BY <1>19 DEF Account!MonitorSettles
  <2>3. {"uncertain", "failed"} \subseteq Account!Terminals
    BY DEF Account!Terminals
  <2>4. CASE rec' = rec
    BY <1>0, <1>1, <2>1, <2>4 DEF Launching
  <2>5. CASE rec' = Account!CancelledUncertain(rec)
    BY <1>0, <1>1, <2>1, <2>3, <2>5, RowOutcomes
  <2>6. CASE rec' = Account!Terminated(rec)
    BY <1>0, <1>1, <2>1, <2>6, RowOutcomes
  <2>7. CASE rec' = [rec EXCEPT !.state = "failed", !.inv = "settled"]
    BY <1>14, <2>1, <2>3, <2>7
  <2>8. CASE rec' = [rec EXCEPT !.state = "validating", !.inv = "settled"]
    BY <1>14, <2>1, <2>8
  <2> QED
    BY <2>2, <2>4, <2>5, <2>6, <2>7, <2>8
<1>20. CASE Account!MonitorValidates
  <2>1. rec # None /\ Account!TailFree /\ UNCHANGED <<env, prep, envop, count>>
    BY <1>20 DEF Account!MonitorValidates, AccountInv, NothingBefore
  <2>2. PICK w \in {"succeeded", "failed"} : rec' = rec \/ rec' = [rec EXCEPT !.state = w]
    BY <1>20 DEF Account!MonitorValidates
  <2>3. [rec EXCEPT !.state = w] = [rec EXCEPT !.state = w, !.inv = rec.inv]
    BY <1>0, <2>1 DEF Account!AttemptRow
  <2>4. w \in Account!Terminals
    BY DEF Account!Terminals
  <2> QED
    BY <1>14, <1>16, <2>1, <2>2, <2>3, <2>4
<1>21. CASE Account!Cancel
  <2>1. rec # None /\ rec.state \notin Account!Terminals /\ rec' = Account!CancelRequested(rec)
    BY <1>21 DEF Account!Cancel, Account!Terminal
  <2> QED
    BY <1>0, <1>1, <1>21, <2>1, RowOutcomes DEF Account!Cancel, Account!Command, Launching
<1>22. CASE Account!EnvironmentCommand
  <2>1. /\ UNCHANGED <<rec, env, prep, recon, monitor, writing, live, cancels>>
        /\ count' = [count EXCEPT !.commands = @ + 1]
        /\ prep \in {"idle", "queued"} /\ ~Launching
    BY <1>22 DEF Account!EnvironmentCommand, Account!Command, Account!FenceHolds,
         Account!Terminal, Launching
  <2>2. /\ count' \in [spawns : {0, 1}, signals : Nat, commands : Nat, restarts : Nat]
        /\ count'.spawns = count.spawns
    BY <2>1 DEF AccountInv, AccountType
  <2>3. NothingBefore'
    BY <2>1 DEF AccountInv, NothingBefore
  <2> QED
    BY <2>1, <2>2, <2>3 DEF AccountInv, AccountType, Launching
<1>23. CASE Account!EnvironmentRetired
  <2>1. /\ UNCHANGED <<rec, prep, recon, monitor, writing, live, cancels, count>>
        /\ envop' = FALSE /\ envop
    BY <1>23 DEF Account!EnvironmentRetired
  <2>2. ~Launching /\ prep \in {"idle", "queued"}
    BY <2>1 DEF AccountInv
  <2>3. NothingBefore'
    BY <2>1 DEF AccountInv, NothingBefore
  <2> QED
    BY <2>1, <2>2, <2>3 DEF AccountInv, AccountType, Launching
<1>24. CASE Account!Restart
  <2>1. /\ UNCHANGED <<rec, env>> /\ prep' = "idle" /\ envop' = FALSE /\ NothingBefore'
    BY <1>24 DEF Account!Restart, NothingBefore
  <2>2. PICK launched \in BOOLEAN :
          /\ count' = [count EXCEPT !.restarts = @ + 1,
                                   !.spawns = @ + (IF launched THEN 1 ELSE 0)]
          /\ launched => prep = "spawning"
    BY <1>24 DEF Account!Restart
  <2>3. PICK k \in {0, 1} : /\ k = count.spawns + (IF launched THEN 1 ELSE 0)
                            /\ prep # "spawning" => k = count.spawns
    BY <2>2 DEF AccountInv, AccountType
  <2>4. /\ count' \in [spawns : {0, 1}, signals : Nat, commands : Nat, restarts : Nat]
        /\ count'.spawns = k
    <3>1. PICK m \in Nat : m = count.restarts + 1
      BY DEF AccountInv, AccountType
    <3>2. count' = [count EXCEPT !.restarts = m, !.spawns = k]
      BY <2>2, <2>3, <3>1
    <3> QED
      BY <3>2 DEF AccountInv, AccountType
  <2>5. prep = "spawning" => rec # None /\ rec.inv = "requested"
    BY DEF AccountInv, Launching
  <2> QED
    BY <2>1, <2>3, <2>4, <2>5 DEF AccountInv, AccountType, Launching
<1>25. ASSUME NEW c \in Cancels, cancels[c] # Account!Idle PROVE rec # None
  BY <1>25 DEF AccountInv, NothingBefore
<1>26. Account!Idle.pc = "idle" /\ Account!Idle.seen = None
  BY DEF Account!Idle
<1>27. ASSUME NEW c \in Cancels, Account!CancelInspects(c) PROVE AccountInv'
  <2>1. rec # None
    BY <1>25, <1>26, <1>27 DEF Account!CancelInspects
  <2> QED
    BY <1>27, <2>1, Aside DEF Account!CancelInspects
<1>28. ASSUME NEW c \in Cancels, Account!CancelSettles(c) \/ Account!CancelWithoutProcess(c)
       PROVE  AccountInv'
  <2>1. rec # None /\ Account!TailFree /\ UNCHANGED <<env, prep, envop, count>>
    BY <1>25, <1>26, <1>28 DEF Account!CancelSettles, Account!CancelWithoutProcess,
         Account!AccountAssumption, Account!Reports
  <2>2. \/ rec' = rec \/ rec' = Account!CancelledUncertain(rec)
        \/ rec' = Account!Terminated(rec)
    BY <1>28 DEF Account!CancelSettles, Account!CancelWithoutProcess
  <2>3. CASE rec' = rec
    BY <1>16, <2>1, <2>3
  <2>4. CASE rec' = Account!CancelledUncertain(rec)
    BY <1>0, <1>1, <2>1, <2>4, RowOutcomes DEF Account!Terminals
  <2>5. CASE rec' = Account!Terminated(rec)
    BY <1>0, <1>1, <2>1, <2>5, RowOutcomes
  <2> QED
    BY <2>2, <2>3, <2>4, <2>5
<1>29. ASSUME NEW c \in Cancels,
              Account!CancelDecides(c) \/ Account!CancelAcknowledged(c) \/ Account!CancelFailed(c)
       PROVE  AccountInv'
  <2>1. rec # None /\ Account!TailFree /\ UNCHANGED <<env, prep, envop, count>>
    BY <1>25, <1>26, <1>29 DEF Account!CancelDecides, Account!CancelAcknowledged,
         Account!CancelFailed
  <2> QED
    BY <1>16, <1>29, <2>1 DEF Account!CancelDecides, Account!CancelAcknowledged,
         Account!CancelFailed
<1>30. ASSUME NEW c \in Cancels, Account!CancelSubmits(c) \/ Account!CancelWaits(c)
       PROVE  AccountInv'
  <2>1. rec # None /\ UNCHANGED <<rec, env, prep, envop>>
    BY <1>25, <1>26, <1>30 DEF Account!CancelSubmits, Account!CancelWaits
  <2>2. UNCHANGED count \/ count' = [count EXCEPT !.signals = @ + 1]
    BY <1>30 DEF Account!CancelSubmits, Account!CancelWaits
  <2> QED
    BY <2>1, <2>2, Aside
<1> QED
  BY <1>2, <1>3, <1>4, <1>5, <1>6, <1>7, <1>8, <1>9, <1>12, <1>13, <1>15, <1>17, <1>18, <1>19,
     <1>20, <1>21, <1>22, <1>23, <1>24, <1>27, <1>28, <1>29, <1>30
  DEF Account!Next

(* A login is launched at most once for an attempt, and from the intent to  *)
(* launch until the attempt is settled its environment is left alone        *)
(* (prepare, activeSetupFence).                                             *)
THEOREM LoginAlwaysUndisturbed ==
    ASSUME Account!AccountAssumption
    PROVE  Account!Spec => []LoginIsUndisturbed
<1>1. AccountInv => Account!LoginIsUndisturbed
  BY DEF AccountInv, AccountType, Launching, Account!LoginIsUndisturbed, Account!Terminal
<1>2. Account!Init => AccountInv
  BY AccountInit
<1>3. AccountInv /\ [Account!Next]_Account!vars => AccountInv'
  BY AccountStep
<1> QED
  BY <1>1, <1>2, <1>3, PTL DEF LoginIsUndisturbed, Account!Spec
=============================================================================
