---------------------------- MODULE WorkerSession ----------------------------
(***************************************************************************)
(* The Bun Worker's session with the control plane: worker.ts              *)
(* (registration, reconciliation, readiness, claims, shutdown) over        *)
(* protocol/phoenix-channel.ts (one topic membership per local connection  *)
(* generation).                                                            *)
(*                                                                         *)
(* Every async method is a coroutine: a phase per generation, advanced by  *)
(* one action per stretch of code between two awaits.  A coroutine of a    *)
(* lost generation keeps running until its next fence.  Requests carry no  *)
(* data: what matters of a reply is whether it came, and for which         *)
(* generation.                                                             *)
(***************************************************************************)
EXTENDS Naturals

CONSTANTS
  MaxGeneration, \* bound: connections opened; the last one meets no fault
  MaxMessages    \* bound: suppressed reports and reconcile_requests

BoundsAssumption == MaxGeneration \in Nat \ {0} /\ MaxMessages \in Nat

Generations == 1 .. MaxGeneration
Requests == {"worktrees", "reconcile", "ready"}

VARIABLES
  generation,   \* PhoenixWorkerChannel.generation
  active,       \* generation of the active connection, 0 when there is none
  registered,   \* PhoenixWorkerChannel.registered
  reply,        \* [Generations -> [Requests -> none | waiting | ok | error]]
  registration, \* [Generations -> phase of initializeRegistration]
  publication,  \* [Generations -> phase of publishReconciliation]
  readyGeneration,
  dirty,        \* reconciliationDirtyGeneration
  heartbeat,    \* generation that installed the heartbeat timer, 0 when null
  claims,       \* [Generations -> phase of a claim waiting for readiness]
  turn,         \* an execution whose prompt the server may authorize
  messages,      \* suppressed reports and requests so far (bounded by MaxMessages)
  recovery,     \* recovery-control.json of a retained lineage
  stopping,
  storesClosed

channel == <<generation, active, registered>>
worker == <<readyGeneration, heartbeat, registration>>
vars == <<channel, reply, registration, publication, readyGeneration, dirty,
          heartbeat, claims, turn, messages, recovery, stopping, storesClosed>>

Init ==
  /\ generation = 0 /\ active = 0 /\ registered = FALSE
  /\ reply = [g \in Generations |-> [r \in Requests |-> "none"]]
  /\ registration = [g \in Generations |-> "none"]
  /\ publication = [g \in Generations |-> "idle"]
  /\ readyGeneration = 0 /\ dirty = 0 /\ heartbeat = 0
  /\ claims = [g \in Generations |-> "none"]
  /\ turn = "gated" /\ messages = 0 /\ recovery = "requested"
  /\ stopping = FALSE /\ storesClosed = FALSE

isCurrentGeneration(g) == active = g /\ registered
controlPlaneReady == active # 0 /\ registered /\ readyGeneration = active

(* Bound: the last connection meets no fault. *)
CanFail == generation < MaxGeneration
-----------------------------------------------------------------------------
(* PhoenixWorkerChannel *)

(* The loop of run: connect while the Worker is not stopping. *)
Connect ==
  /\ ~stopping /\ active = 0 /\ generation < MaxGeneration
  /\ generation' = generation + 1
  /\ active' = generation + 1
  /\ registered' = FALSE
  /\ UNCHANGED <<reply, registration, publication, readyGeneration, dirty,
                 heartbeat, claims, turn, messages, recovery, stopping,
                 storesClosed>>

(* Mutant: replies of an invalidated generation are left pending. *)
rejectPending_none(g) == reply' = reply

(* Every waiting request of the generation is rejected. *)
rejectPending(g) ==
  reply' = [reply EXCEPT ![g] =
              [r \in Requests |-> IF @[r] = "waiting" THEN "error" ELSE @[r]]]

(* onDisconnected: readiness of exactly that generation is withdrawn. *)
onDisconnected(g) ==
  /\ readyGeneration' = IF readyGeneration = g THEN 0 ELSE readyGeneration
  /\ heartbeat' = 0

(* invalidate: nothing happens unless g is the active generation. *)
Invalidate(g) ==
  IF active # g
  THEN UNCHANGED <<channel, reply, readyGeneration, heartbeat>>
  ELSE /\ active' = 0 /\ registered' = FALSE
       /\ UNCHANGED generation
       /\ rejectPending(g)
       /\ onDisconnected(g)

(* Socket error or close, phx_error, a reply or connect timeout, a refused  *)
(* join, a reply whose code invalidates the generation.                     *)
Lose(g) ==
  /\ active = g /\ CanFail
  /\ Invalidate(g)
  /\ UNCHANGED <<registration, publication, dirty, claims, turn, messages,
                 recovery, stopping, storesClosed>>

(* sendProtocol needs a registered channel; it rejects at once otherwise. *)
Send(g, r) ==
  reply' = [reply EXCEPT ![g][r] =
              IF isCurrentGeneration(g) THEN "waiting" ELSE "error"]

(* A phx_reply resolves the pending request, or rejects it. *)
Reply(g, r) ==
  /\ active = g /\ reply[g][r] = "waiting"
  /\ \E outcome \in {"ok"} \cup (IF CanFail THEN {"error"} ELSE {}) :
       reply' = [reply EXCEPT ![g][r] = outcome]
  /\ UNCHANGED <<channel, registration, publication, readyGeneration, dirty,
                 heartbeat, claims, turn, messages, recovery, stopping,
                 storesClosed>>
-----------------------------------------------------------------------------
(* publishReconciliation *)

(* The head of the loop: fails on a stale generation, otherwise clears the *)
(* dirty mark, takes the snapshot and sends reconcile_state.               *)
Publish(g) ==
  IF isCurrentGeneration(g)
  THEN /\ dirty' = 0
       /\ Send(g, "reconcile")
       /\ publication' = [publication EXCEPT ![g] = "sent"]
  ELSE /\ publication' = [publication EXCEPT ![g] = "failed"]
       /\ UNCHANGED <<dirty, reply>>

Publishing(g) == publication[g] \in {"sent", "commands", "applied"}

(* reconcileControlPlane: one operation per generation, joined by callers. *)
reconcileControlPlane(g) ==
  IF Publishing(g)
  THEN UNCHANGED <<publication, dirty, reply>>
  ELSE Publish(g)

(* The promise settles; initializeRegistration resumes in a later step. *)
Settle(g, result) ==
  /\ publication' = [publication EXCEPT ![g] = result]
  /\ registration' =
       [registration EXCEPT ![g] =
          IF result = "failed" /\ @ \in {"reconciling", "again"} THEN "failed"
          ELSE IF @ = "reconciling" THEN "reconciled"
          ELSE IF @ = "again" THEN "reconciledAgain" ELSE @]

(* The acknowledgement of reconcile_state: the commands it carries are      *)
(* applied, prompt authorizations last.  prompt_authorizations names every  *)
(* authorized dispatch that is acknowledged or running.                     *)
ReconcileReplied(g) ==
  /\ publication[g] = "sent" /\ reply[g]["reconcile"] \in {"ok", "error"}
  /\ IF reply[g]["reconcile"] = "error"
     THEN Settle(g, "failed")
     ELSE /\ publication' = [publication EXCEPT ![g] =
                IF turn \in {"authorized", "running"}
                THEN "commands" ELSE "applied"]
          /\ UNCHANGED registration
  /\ UNCHANGED <<channel, reply, readyGeneration, dirty, heartbeat, claims,
                 turn, messages, recovery, stopping, storesClosed>>

(* executor.authorizePrompt: joins or starts the execution, and returns     *)
(* only when its turn has ended.                                            *)
AuthorizePrompt(g) ==
  /\ publication[g] = "commands"
  /\ \/ turn = "authorized" /\ turn' = "running" /\ UNCHANGED publication
     \/ /\ turn = "ended"
        /\ publication' = [publication EXCEPT ![g] = "applied"]
        /\ UNCHANGED turn
  /\ UNCHANGED <<channel, reply, worker, dirty, claims, messages, recovery,
                 stopping, storesClosed>>

(* The loop repeats while the generation is current and was marked dirty. *)
PublicationLoop(g) ==
  /\ publication[g] = "applied"
  /\ IF dirty = g /\ isCurrentGeneration(g)
     THEN Publish(g) /\ UNCHANGED registration
     ELSE Settle(g, "settled") /\ UNCHANGED <<dirty, reply>>
  /\ UNCHANGED <<channel, readyGeneration, heartbeat, claims, turn, messages,
                 recovery, stopping, storesClosed>>

(* reconcile_request: provider accounts are reconciled, then the rest. *)
ReconcileRequest(g) ==
  /\ isCurrentGeneration(g)
  /\ \E accountsReconciled \in BOOLEAN :
       IF accountsReconciled
       THEN reconcileControlPlane(g)
       ELSE UNCHANGED <<publication, dirty, reply>>
  /\ messages < MaxMessages /\ messages' = messages + 1
  /\ UNCHANGED <<channel, worker, claims, turn, recovery, stopping,
                 storesClosed>>
-----------------------------------------------------------------------------
(* initializeRegistration *)

SetRegistration(g, phase) ==
  registration' = [registration EXCEPT ![g] = phase]

(* The join reply: onRegistered withdraws readiness, applies the binding    *)
(* outcomes (which throws when they are malformed) and reports the           *)
(* worktrees the server asked about (which throws when one is to be retained *)
(* while its Run is not idle: RunSettlement).                                *)
OnRegistered(g) ==
  /\ active = g /\ ~registered
  /\ registered' = TRUE
  /\ readyGeneration' = 0
  /\ \E outcome \in {"worktrees", "none"} \cup
                    (IF CanFail THEN {"failed"} ELSE {}) :
       /\ SetRegistration(g, IF outcome = "failed" THEN "failed"
                                                   ELSE "worktrees")
       /\ reply' = [reply EXCEPT ![g]["worktrees"] =
                      IF outcome = "worktrees" THEN "waiting" ELSE "ok"]
  /\ UNCHANGED <<generation, active, publication, dirty, heartbeat, claims,
                 turn, messages, recovery, stopping, storesClosed>>

(* reconcileRunWorktrees returned: the control plane is reconciled. *)
WorktreesReconciled(g) ==
  /\ registration[g] = "worktrees" /\ reply[g]["worktrees"] \in {"ok", "error"}
  /\ IF reply[g]["worktrees"] = "error"
     THEN /\ SetRegistration(g, "failed")
          /\ UNCHANGED <<publication, dirty, reply>>
     ELSE IF ~isCurrentGeneration(g) /\ ~Publishing(g)
     THEN /\ SetRegistration(g, "failed")
          /\ UNCHANGED <<publication, dirty, reply>>
     ELSE /\ reconcileControlPlane(g)
          /\ SetRegistration(g, "reconciling")
  /\ UNCHANGED <<channel, readyGeneration, heartbeat, claims, turn, messages,
                 recovery, stopping, storesClosed>>

(* readyGeneration is set and worker_ready sent with no await in between. *)
PublishReady(g) ==
  /\ readyGeneration' = g
  /\ reply' = [reply EXCEPT ![g]["ready"] = "waiting"]
  /\ SetRegistration(g, "publishingReady")
  /\ UNCHANGED <<publication, dirty>>

(* Mutant: the generation is not compared again after the reconciliation. *)
Reconciled_unfenced(g) ==
  /\ registration[g] = "reconciled"
  /\ PublishReady(g)
  /\ UNCHANGED <<channel, heartbeat, claims, turn, messages, recovery,
                 stopping, storesClosed>>

(* The first reconciliation returned: fail on a stale generation, repeat    *)
(* once if a report was suppressed meanwhile, otherwise publish readiness.  *)
Reconciled(g) ==
  /\ registration[g] = "reconciled"
  /\ IF ~isCurrentGeneration(g)
     THEN /\ SetRegistration(g, "failed")
          /\ UNCHANGED <<readyGeneration, reply, publication, dirty>>
     ELSE IF dirty = g
     THEN /\ reconcileControlPlane(g)
          /\ SetRegistration(g, "again")
          /\ UNCHANGED readyGeneration
     ELSE PublishReady(g)
  /\ UNCHANGED <<channel, heartbeat, claims, turn, messages, recovery,
                 stopping, storesClosed>>

(* The second reconciliation returned. *)
ReconciledAgain(g) ==
  /\ registration[g] = "reconciledAgain"
  /\ IF isCurrentGeneration(g)
     THEN PublishReady(g)
     ELSE /\ SetRegistration(g, "failed")
          /\ UNCHANGED <<readyGeneration, reply, publication, dirty>>
  /\ UNCHANGED <<channel, heartbeat, claims, turn, messages, recovery,
                 stopping, storesClosed>>

(* The acknowledgement must name the current server generation. *)
ReadyReplied(g) ==
  /\ registration[g] = "publishingReady" /\ reply[g]["ready"] \in {"ok", "error"}
  /\ IF reply[g]["ready"] = "ok" /\ isCurrentGeneration(g)
     THEN SetRegistration(g, "setups") /\ UNCHANGED readyGeneration
     ELSE /\ SetRegistration(g, "failed")
          /\ readyGeneration' = IF readyGeneration = g THEN 0 ELSE readyGeneration
  /\ UNCHANGED <<channel, reply, publication, dirty, heartbeat, claims, turn,
                 messages, recovery, stopping, storesClosed>>

(* setupCoordinator.reconcile returned (or threw on a lost connection): the *)
(* heartbeat starts, without another look at the generation.                *)
SetupsReconciled(g) ==
  /\ registration[g] = "setups"
  /\ \/ SetRegistration(g, "done") /\ heartbeat' = g
     \/ ~isCurrentGeneration(g) /\ SetRegistration(g, "failed") /\ UNCHANGED heartbeat
  /\ UNCHANGED <<channel, reply, publication, readyGeneration, dirty, claims,
                 turn, messages, recovery, stopping, storesClosed>>

(* Mutant: the rejection is only logged. *)
RegistrationFailed_logged(g) ==
  /\ registration[g] = "failed"
  /\ SetRegistration(g, "closed")
  /\ UNCHANGED <<channel, reply, readyGeneration, heartbeat, publication,
                 dirty, claims, turn, messages, recovery, stopping,
                 storesClosed>>

(* handleFrame: a rejected onRegistered invalidates its own generation. *)
RegistrationFailed(g) ==
  /\ registration[g] = "failed"
  /\ SetRegistration(g, "closed")
  /\ Invalidate(g)
  /\ UNCHANGED <<publication, dirty, claims, turn, messages, recovery,
                 stopping, storesClosed>>
-----------------------------------------------------------------------------
(* Commands and reports *)

(* A claim (execute_action, or the preparation of a setup, a broker or an   *)
(* account environment) on connection g awaits that registration.           *)
Claim(g) ==
  /\ isCurrentGeneration(g) /\ claims[g] = "none"
  /\ claims' = [claims EXCEPT ![g] = "waiting"]
  /\ UNCHANGED <<channel, reply, worker, publication, dirty, turn, messages,
                 recovery, stopping, storesClosed>>

(* The registration settled: the claim starts only if it succeeded and its  *)
(* generation is still the ready and current one.                           *)
awaitClaimReadiness(g) ==
  /\ claims[g] = "waiting" /\ registration[g] \in {"done", "closed"}
  /\ claims' = [claims EXCEPT ![g] =
       IF /\ registration[g] = "done"
          /\ readyGeneration = g /\ isCurrentGeneration(g)
       THEN "started" ELSE "refused"]
  /\ UNCHANGED <<channel, reply, worker, publication, dirty, turn, messages,
                 recovery, stopping, storesClosed>>

(* report, reportHarnessSession and reportHumanAttentionDelivery while the  *)
(* Worker is not ready: nothing is sent, the current generation is dirty.   *)
SuppressReport ==
  /\ ~controlPlaneReady /\ messages < MaxMessages
  /\ messages' = messages + 1
  /\ dirty' = IF active # 0 /\ registered THEN active ELSE dirty
  /\ UNCHANGED <<channel, reply, worker, publication, claims, turn, recovery,
                 stopping, storesClosed>>

(* scanRecoveryRequests: the request file is answered on a ready connection *)
(* and left as it is when the reply is lost.                                *)
ScanRecoveryRequests ==
  /\ controlPlaneReady /\ heartbeat # 0 /\ ~stopping
  /\ recovery = "requested"
  /\ recovery' \in {"authorized", "rejected"}
  /\ UNCHANGED <<channel, reply, worker, publication, dirty, claims, turn,
                 messages, stopping, storesClosed>>
-----------------------------------------------------------------------------
(* Turns and shutdown *)

(* The server authorizes the prompt; its message may reach the Worker. *)
Authorize ==
  /\ turn = "gated"
  /\ turn' \in {"authorized"} \cup (IF registered THEN {"running"} ELSE {})
  /\ UNCHANGED <<channel, reply, worker, publication, dirty, claims, messages,
                 recovery, stopping, storesClosed>>

(* The provider turn ends: in its own time, or after human input. *)
TurnEnds ==
  /\ turn = "running"
  /\ turn' = "ended"
  /\ UNCHANGED <<channel, reply, worker, publication, dirty, claims, messages,
                 recovery, stopping, storesClosed>>

(* stopOnce, or a connection_superseded message (which only sets the flag   *)
(* and invalidates): the channel is closed and the executions are aborted.  *)
Stop ==
  /\ ~stopping /\ stopping' = TRUE
  /\ IF active # 0 THEN Invalidate(active)
     ELSE /\ heartbeat' = 0
          /\ UNCHANGED <<channel, reply, readyGeneration>>
  /\ turn' = IF turn \in {"authorized", "running"} THEN "ended" ELSE turn
  /\ UNCHANGED <<registration, publication, dirty, claims, messages, recovery,
                 storesClosed>>

(* waitForProtocolOperations returned with nothing left in flight; when it  *)
(* times out the stores stay open.                                          *)
CloseStores ==
  /\ stopping /\ ~storesClosed
  /\ \A g \in Generations :
       /\ registration[g] \in {"none", "done", "closed"}
       /\ publication[g] \in {"idle", "settled", "failed"}
       /\ claims[g] # "waiting"
  /\ storesClosed' = TRUE
  /\ UNCHANGED <<channel, reply, worker, publication, dirty, claims, turn,
                 messages, recovery, stopping>>
-----------------------------------------------------------------------------
(* One step of a coroutine of generation g, each awaited by the code. *)
Resume(g) ==
  \/ ReconcileReplied(g) \/ AuthorizePrompt(g) \/ PublicationLoop(g)
  \/ WorktreesReconciled(g) \/ Reconciled(g) \/ ReconciledAgain(g)
  \/ ReadyReplied(g) \/ SetupsReconciled(g) \/ RegistrationFailed(g)
  \/ awaitClaimReadiness(g)

Answer(g) == OnRegistered(g) \/ (\E r \in Requests : Reply(g, r))

Next ==
  \/ Connect \/ SuppressReport \/ ScanRecoveryRequests
  \/ Authorize \/ TurnEnds \/ Stop \/ CloseStores
  \/ \E g \in Generations :
       Lose(g) \/ ReconcileRequest(g) \/ Claim(g) \/ Resume(g) \/ Answer(g)

Spec == Init /\ [][Next]_vars

(* The event loop runs every ready coroutine, the reconnect loop never      *)
(* gives up, and the server answers on a connection that stays up.          *)
SessionFairness ==
  /\ WF_vars(Connect)
  /\ WF_vars(CloseStores)
  /\ \A g \in Generations : WF_vars(Resume(g)) /\ WF_vars(Answer(g))

SessionSpec == Spec /\ SessionFairness
FairSpec == SessionSpec /\ WF_vars(TurnEnds)
-----------------------------------------------------------------------------
(* Registration is not readiness (initializeRegistration, onDisconnected):  *)
(* the ready generation is the registered one, its reconcile_state was      *)
(* acknowledged on that very connection, and no stale coroutine can revive  *)
(* a lost generation.                                                       *)
ReadyIsReconciled ==
  readyGeneration # 0 =>
    /\ isCurrentGeneration(readyGeneration)
    /\ reply[readyGeneration]["worktrees"] = "ok"
    /\ registration[readyGeneration]
         \in {"publishingReady", "setups", "done"}

(* The Worker recovers its session from every loss (run, handleFrame): once *)
(* connections stop failing it is ready for good, unless it is stopped.     *)
EventuallyReady == <>[](stopping \/ controlPlaneReady)

(* A stopped Worker drains: every coroutine fails or finishes and the       *)
(* stores are closed.                                                       *)
StopDrains == stopping ~> storesClosed
=============================================================================
