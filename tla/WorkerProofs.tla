---------------------------- MODULE WorkerProofs ----------------------------
(***************************************************************************)
(* Theorems about the Worker: its session with the control plane is ready   *)
(* only on the connection that reconciled (WorkerSession).  Its executor     *)
(* (DispatchExecutor over DispatchRegistry) submits the prompt of an Attempt *)
(* at most once, believes acknowledged only what the server has recorded,    *)
(* and runs one Attempt of a lineage at a time.                              *)
(*                                                                          *)
(* Each proof has an inductive invariant (SessionInv, ExecutorInv, WorkInv), *)
(* a lemma for the initial state and one for every group of handlers, and a  *)
(* theorem.  The handlers' lemmas of WorkInv have one conclusion, Moves: what*)
(* a step may do to a row of the registry, a row of the server and a thread. *)
(* The session and the executor share no variable.                           *)
(***************************************************************************)
EXTENDS Worker, Naturals, Sequences, WellFoundedInduction, TLAPS

-----------------------------------------------------------------------------
(* The session with the control plane (WorkerSession).                      *)

Phases == {"none", "worktrees", "reconciling", "again", "reconciled", "reconciledAgain",
           "publishingReady", "setups", "done", "failed", "closed"}

(* The phases behind the answer to the report of the worktrees.             *)
Answered == {"reconciling", "again", "reconciled", "reconciledAgain", "publishingReady",
             "setups", "done"}

Announced == {"publishingReady", "setups", "done"}

SessionType ==
    /\ generation \in Nat /\ active \in 0 .. generation /\ readyGeneration \in Nat
    /\ active # 0 => active \in Session!Generations
    /\ registration \in [Session!Generations -> Phases]
    /\ reply \in [Session!Generations
                    -> [Session!Requests -> {"none", "waiting", "ok", "error"}]]

(* A connection registers once: nothing of its registration has run before. *)
RegistersOnce ==
    \A g \in Session!Generations :
        g > generation \/ (g = active /\ ~registered) => registration[g] = "none"

AnswersArePresent ==
    \A g \in Session!Generations :
        registration[g] \in Answered => reply[g]["worktrees"] = "ok"

ReadyIsCurrent ==
    readyGeneration # 0 =>
        /\ readyGeneration = active /\ registered
        /\ readyGeneration \in Session!Generations
        /\ registration[readyGeneration] \in Announced

SessionInv == SessionType /\ RegistersOnce /\ AnswersArePresent /\ ReadyIsCurrent

(* Before the first connection nothing is registered and nothing is ready.   *)
LEMMA SessionInit == Session!Init => SessionInv
<1> SUFFICES ASSUME Session!Init PROVE SessionInv
  OBVIOUS
<1>1. SessionType
  BY DEF Session!Init, SessionType, Phases
<1>2. RegistersOnce /\ AnswersArePresent /\ ReadyIsCurrent
  BY DEF Session!Init, RegistersOnce, AnswersArePresent, ReadyIsCurrent, Answered
<1> QED
  BY <1>1, <1>2 DEF SessionInv

(* A coroutine of g resumes on its connection: its registration moves on,   *)
(* and no answer that a registration relies on is lost.                     *)
LEMMA Resumed ==
    ASSUME SessionInv, NEW g \in Session!Generations, registration[g] # "none",
           NEW phase \in Phases, registration' = [registration EXCEPT ![g] = phase],
           phase \in Answered => reply[g]["worktrees"] = "ok",
           reply' \in [Session!Generations
                         -> [Session!Requests -> {"none", "waiting", "ok", "error"}]],
           \A h \in Session!Generations :
               reply[h]["worktrees"] = "ok" => reply'[h]["worktrees"] = "ok",
           UNCHANGED <<generation, active, registered>>,
           \/ readyGeneration' = g /\ phase \in Announced /\ active = g /\ registered
           \/ readyGeneration' = readyGeneration /\ (readyGeneration = g => phase \in Announced)
           \/ readyGeneration' = 0
    PROVE  SessionInv'
<1> USE DEF SessionInv
<1>1. SessionType'
  BY DEF SessionType, Session!Generations
<1>2. RegistersOnce'
  BY DEF RegistersOnce, SessionType, Phases
<1>3. AnswersArePresent'
  BY DEF AnswersArePresent, SessionType
<1>4. ReadyIsCurrent'
  BY DEF ReadyIsCurrent, SessionType
<1> QED
  BY <1>1, <1>2, <1>3, <1>4

(* A request that is sent, answered or rejected with its connection leaves   *)
(* the replies that came in before it.                                       *)
LEMMA Sent ==
    ASSUME SessionInv, NEW g \in Session!Generations,
           \/ UNCHANGED reply
           \/ Session!Send(g, "reconcile")
           \/ Session!rejectPending(g)
           \/ reply' = [reply EXCEPT ![g]["ready"] = "waiting"]
           \/ \E r \in Session!Requests, outcome \in {"ok", "error"} :
                reply[g][r] = "waiting" /\ reply' = [reply EXCEPT ![g][r] = outcome]
    PROVE  /\ reply' \in [Session!Generations
                            -> [Session!Requests -> {"none", "waiting", "ok", "error"}]]
           /\ \A h \in Session!Generations :
                reply[h]["worktrees"] = "ok" => reply'[h]["worktrees"] = "ok"
<1>1. reply \in [Session!Generations
                    -> [Session!Requests -> {"none", "waiting", "ok", "error"}]]
  BY DEF SessionInv, SessionType
<1> QED
  BY <1>1 DEF Session!Send, Session!rejectPending, Session!Requests

(* Invalidate withdraws the readiness of the connection it closes.          *)
LEMMA Invalidated ==
    ASSUME SessionInv, NEW g \in Session!Generations, Session!Invalidate(g),
           \/ UNCHANGED registration
           \/ /\ registration[g] = "failed"
              /\ registration' = [registration EXCEPT ![g] = "closed"]
    PROVE  SessionInv'
<1> USE DEF SessionInv
<1>0. /\ registration' \in [Session!Generations -> Phases]
      /\ \A h \in Session!Generations :
           \/ registration'[h] = registration[h]
           \/ registration[h] = "failed" /\ registration'[h] = "closed"
  BY DEF SessionType, Phases
<1>1. CASE active # g
  <2>1. UNCHANGED <<generation, active, registered, reply, readyGeneration>>
    BY <1>1 DEF Session!Invalidate, Session!channel
  <2>2. SessionType' /\ RegistersOnce'
    BY <1>0, <2>1 DEF SessionType, RegistersOnce
  <2>3. AnswersArePresent' /\ ReadyIsCurrent'
    BY <1>0, <2>1 DEF AnswersArePresent, ReadyIsCurrent, Answered, Announced
  <2> QED
    BY <2>2, <2>3
<1>2. CASE active = g
  <2>1. /\ active' = 0 /\ registered' = FALSE /\ generation' = generation
        /\ Session!rejectPending(g)
        /\ readyGeneration' = 0
    BY <1>2 DEF Session!Invalidate, Session!onDisconnected, ReadyIsCurrent
  <2>2. /\ reply' \in [Session!Generations
                         -> [Session!Requests -> {"none", "waiting", "ok", "error"}]]
        /\ \A h \in Session!Generations :
             reply[h]["worktrees"] = "ok" => reply'[h]["worktrees"] = "ok"
    BY <2>1, Sent
  <2>3. SessionType'
    BY <1>0, <2>1, <2>2 DEF SessionType
  <2>4. RegistersOnce'
    BY <1>0, <2>1 DEF RegistersOnce, Session!Generations
  <2>5. AnswersArePresent' /\ ReadyIsCurrent'
    BY <1>0, <2>1, <2>2 DEF AnswersArePresent, ReadyIsCurrent, Answered
  <2> QED
    BY <2>3, <2>4, <2>5
<1> QED
  BY <1>1, <1>2

(* What a step leaves alone when it touches no connection and no registration. *)
LEMMA SessionAside ==
    ASSUME SessionInv,
           UNCHANGED <<generation, active, registered, registration, readyGeneration>>,
           \/ UNCHANGED reply
           \/ \E g \in Session!Generations : Session!Send(g, "reconcile")
           \/ \E g \in Session!Generations, r \in Session!Requests, outcome \in {"ok", "error"} :
                reply[g][r] = "waiting" /\ reply' = [reply EXCEPT ![g][r] = outcome]
    PROVE  SessionInv'
<1> DEFINE Kept ==
             /\ reply' \in [Session!Generations
                              -> [Session!Requests -> {"none", "waiting", "ok", "error"}]]
             /\ \A h \in Session!Generations :
                  reply[h]["worktrees"] = "ok" => reply'[h]["worktrees"] = "ok"
<1>1. Kept
  <2>1. CASE UNCHANGED reply
    BY <2>1 DEF SessionInv, SessionType
  <2>2. ASSUME NEW g \in Session!Generations, Session!Send(g, "reconcile") PROVE Kept
    BY <2>2, Sent
  <2>3. ASSUME NEW g \in Session!Generations, NEW r \in Session!Requests,
               NEW outcome \in {"ok", "error"},
               reply[g][r] = "waiting", reply' = [reply EXCEPT ![g][r] = outcome]
        PROVE  Kept
    BY <2>3, Sent
  <2> QED
    BY <2>1, <2>2, <2>3
<1>2. SessionType' /\ RegistersOnce'
  BY <1>1 DEF SessionInv, SessionType, RegistersOnce
<1>3. AnswersArePresent' /\ ReadyIsCurrent'
  BY <1>1 DEF SessionInv, AnswersArePresent, ReadyIsCurrent
<1> QED
  BY <1>2, <1>3 DEF SessionInv

(* A reconciliation of g settles: the registration that awaits it goes on,   *)
(* whether the publication succeeded or not.                                *)
LEMMA Settled ==
    ASSUME SessionInv, NEW g \in Session!Generations, NEW how \in {"failed", "settled"},
           Session!Settle(g, how),
           UNCHANGED <<generation, active, registered, reply, readyGeneration>>
    PROVE  SessionInv'
<1> DEFINE phase ==
             IF how = "failed" /\ registration[g] \in {"reconciling", "again"} THEN "failed"
             ELSE IF registration[g] = "reconciling" THEN "reconciled"
             ELSE IF registration[g] = "again" THEN "reconciledAgain" ELSE registration[g]
<1>1. registration \in [Session!Generations -> Phases]
  BY DEF SessionInv, SessionType
<1>2. registration' = [registration EXCEPT ![g] = phase]
  BY DEF Session!Settle
<1>3. CASE registration[g] = "none"
  <2>1. registration' = registration
    BY <1>1, <1>2, <1>3
  <2> QED
    BY <2>1, SessionAside
<1>4. CASE registration[g] # "none"
  <2>1. phase \in Phases
    BY <1>1 DEF Phases
  <2>2. phase \in Answered => reply[g]["worktrees"] = "ok"
    BY DEF SessionInv, AnswersArePresent, Answered
  <2>3. readyGeneration = g => phase \in Announced
    BY DEF SessionInv, ReadyIsCurrent, Announced, Session!Generations
  <2>4. /\ reply' \in [Session!Generations
                         -> [Session!Requests -> {"none", "waiting", "ok", "error"}]]
        /\ \A h \in Session!Generations :
             reply[h]["worktrees"] = "ok" => reply'[h]["worktrees"] = "ok"
    BY DEF SessionInv, SessionType
  <2> HIDE DEF phase
  <2> QED
    BY <1>2, <1>4, <2>1, <2>2, <2>3, <2>4, Resumed
<1> QED
  BY <1>3, <1>4

(* A step of a coroutine of connection g, or the loss of that connection.   *)
LEMMA RegistrationStep ==
    ASSUME SessionInv, NEW g \in Session!Generations, Session!Resume(g)
    PROVE  SessionInv'
<1> USE DEF Session!channel, Session!worker
<1>0. /\ registration \in [Session!Generations -> Phases]
      /\ readyGeneration = g => registration[g] \in Announced /\ active = g /\ registered
  BY DEF SessionInv, SessionType, ReadyIsCurrent, Session!Generations
<1>1. CASE Session!ReconcileReplied(g)
  <2>1. CASE Session!Settle(g, "failed")
    BY <1>1, <2>1, Settled DEF Session!ReconcileReplied
  <2>2. CASE UNCHANGED registration
    BY <1>1, <2>2, SessionAside DEF Session!ReconcileReplied
  <2> QED
    BY <1>1, <2>1, <2>2 DEF Session!ReconcileReplied
<1>2. CASE Session!AuthorizePrompt(g)
  BY <1>2, SessionAside DEF Session!AuthorizePrompt
<1>3. CASE Session!PublicationLoop(g)
  <2>1. CASE Session!Settle(g, "settled") /\ UNCHANGED reply
    BY <1>3, <2>1, Settled DEF Session!PublicationLoop
  <2>2. CASE Session!Publish(g) /\ UNCHANGED registration
    BY <1>3, <2>2, SessionAside DEF Session!PublicationLoop, Session!Publish
  <2> QED
    BY <1>3, <2>1, <2>2 DEF Session!PublicationLoop
<1>4. ASSUME NEW phase \in Phases, Session!SetRegistration(g, phase), registration[g] # "none",
             phase \in Answered => reply[g]["worktrees"] = "ok",
             UNCHANGED reply \/ Session!Send(g, "reconcile")
               \/ reply' = [reply EXCEPT ![g]["ready"] = "waiting"],
             UNCHANGED <<generation, active, registered>>,
             \/ readyGeneration' = g /\ phase \in Announced /\ active = g /\ registered
             \/ readyGeneration' = readyGeneration /\ (readyGeneration = g => phase \in Announced)
             \/ readyGeneration' = 0
      PROVE  SessionInv'
  <2>1. /\ reply' \in [Session!Generations
                         -> [Session!Requests -> {"none", "waiting", "ok", "error"}]]
        /\ \A h \in Session!Generations :
             reply[h]["worktrees"] = "ok" => reply'[h]["worktrees"] = "ok"
    BY <1>4, Sent
  <2>2. registration' = [registration EXCEPT ![g] = phase]
    BY <1>4 DEF Session!SetRegistration
  <2> QED
    BY <1>4, <2>1, <2>2, Resumed
<1>5. registration[g] \in Answered => reply[g]["worktrees"] = "ok"
  BY DEF SessionInv, AnswersArePresent
<1> USE DEF Phases, Answered, Announced
<1>6. CASE Session!WorktreesReconciled(g)
  <2>1. /\ registration[g] = "worktrees" /\ readyGeneration # g
        /\ UNCHANGED <<generation, active, registered, readyGeneration>>
    BY <1>0, <1>6 DEF Session!WorktreesReconciled
  <2>2. CASE Session!SetRegistration(g, "failed") /\ UNCHANGED reply
    BY <1>4, <2>1, <2>2
  <2>3. CASE /\ Session!SetRegistration(g, "reconciling") /\ reply[g]["worktrees"] = "ok"
             /\ UNCHANGED reply \/ Session!Send(g, "reconcile")
    BY <1>4, <2>1, <2>3
  <2> QED
    BY <1>6, <2>2, <2>3
       DEF Session!WorktreesReconciled, Session!reconcileControlPlane, Session!Publish
<1>7. CASE Session!Reconciled(g)
  <2>1. /\ registration[g] = "reconciled" /\ readyGeneration # g
        /\ UNCHANGED <<generation, active, registered>>
    BY <1>0, <1>7 DEF Session!Reconciled
  <2>2. CASE Session!SetRegistration(g, "failed") /\ UNCHANGED <<readyGeneration, reply>>
    BY <1>4, <2>1, <2>2
  <2>3. CASE /\ Session!SetRegistration(g, "again") /\ UNCHANGED readyGeneration
             /\ UNCHANGED reply \/ Session!Send(g, "reconcile")
    BY <1>4, <1>5, <2>1, <2>3
  <2>4. CASE Session!PublishReady(g) /\ Session!isCurrentGeneration(g)
    BY <1>4, <1>5, <2>1, <2>4 DEF Session!PublishReady, Session!isCurrentGeneration
  <2> QED
    BY <1>7, <2>2, <2>3, <2>4
       DEF Session!Reconciled, Session!reconcileControlPlane, Session!Publish
<1>8. CASE Session!ReconciledAgain(g)
  <2>1. /\ registration[g] = "reconciledAgain" /\ readyGeneration # g
        /\ UNCHANGED <<generation, active, registered>>
    BY <1>0, <1>8 DEF Session!ReconciledAgain
  <2>2. CASE Session!SetRegistration(g, "failed") /\ UNCHANGED <<readyGeneration, reply>>
    BY <1>4, <2>1, <2>2
  <2>3. CASE Session!PublishReady(g) /\ Session!isCurrentGeneration(g)
    BY <1>4, <1>5, <2>1, <2>3 DEF Session!PublishReady, Session!isCurrentGeneration
  <2> QED
    BY <1>8, <2>2, <2>3 DEF Session!ReconciledAgain
<1>9. CASE Session!ReadyReplied(g)
  <2>1. /\ registration[g] = "publishingReady"
        /\ UNCHANGED <<generation, active, registered, reply>>
    BY <1>9 DEF Session!ReadyReplied
  <2>2. CASE Session!SetRegistration(g, "setups") /\ UNCHANGED readyGeneration
    BY <1>4, <1>5, <2>1, <2>2
  <2>3. CASE /\ Session!SetRegistration(g, "failed")
             /\ readyGeneration' = IF readyGeneration = g THEN 0 ELSE readyGeneration
    BY <1>4, <2>1, <2>3
  <2> QED
    BY <1>9, <2>2, <2>3 DEF Session!ReadyReplied
<1>10. CASE Session!SetupsReconciled(g)
  <2>1. /\ registration[g] = "setups"
        /\ UNCHANGED <<generation, active, registered, reply, readyGeneration>>
    BY <1>10 DEF Session!SetupsReconciled
  <2>2. CASE Session!SetRegistration(g, "done")
    BY <1>4, <1>5, <2>1, <2>2
  <2>3. CASE Session!SetRegistration(g, "failed") /\ ~Session!isCurrentGeneration(g)
    BY <1>0, <1>4, <2>1, <2>3 DEF Session!isCurrentGeneration
  <2> QED
    BY <1>10, <2>2, <2>3 DEF Session!SetupsReconciled
<1>11. CASE Session!RegistrationFailed(g)
  <2>1. Session!Invalidate(g) /\ registration[g] = "failed"
    BY <1>11 DEF Session!RegistrationFailed
  <2>2. registration' = [registration EXCEPT ![g] = "closed"]
    BY <1>11 DEF Session!RegistrationFailed, Session!SetRegistration
  <2> QED
    BY <2>1, <2>2, Invalidated
<1>12. CASE Session!awaitClaimReadiness(g)
  BY <1>12, SessionAside DEF Session!awaitClaimReadiness
<1> QED
  BY <1>1, <1>2, <1>3, <1>6, <1>7, <1>8, <1>9, <1>10, <1>11, <1>12 DEF Session!Resume

(* Readiness does not outlive its connection.                               *)
LEMMA SessionStep ==
    ASSUME Session!BoundsAssumption, SessionInv, [Session!Next]_Session!vars
    PROVE  SessionInv'
<1> USE DEF Session!channel, Session!worker
<1>1. CASE Session!Connect
  <2>1. /\ active = 0 /\ generation' = generation + 1 /\ active' = generation + 1
        /\ registered' = FALSE /\ UNCHANGED <<reply, registration, readyGeneration>>
    BY <1>1 DEF Session!Connect
  <2>2. readyGeneration = 0
    BY <2>1 DEF SessionInv, ReadyIsCurrent, Session!Generations
  <2>3. SessionType'
    BY <1>1, <2>1
       DEF Session!Connect, Session!BoundsAssumption, SessionInv, SessionType, Session!Generations
  <2>4. RegistersOnce'
    BY <2>1 DEF SessionInv, SessionType, RegistersOnce, Session!Generations
  <2>5. AnswersArePresent' /\ ReadyIsCurrent'
    BY <2>1, <2>2 DEF SessionInv, AnswersArePresent, ReadyIsCurrent
  <2> QED
    BY <2>3, <2>4, <2>5 DEF SessionInv
<1>2. ASSUME NEW g \in Session!Generations, Session!OnRegistered(g) PROVE SessionInv'
  <2>1. /\ active = g /\ registered' = TRUE /\ readyGeneration' = 0
        /\ UNCHANGED <<generation, active>> /\ registration[g] = "none"
    BY <1>2 DEF Session!OnRegistered, SessionInv, RegistersOnce
  <2>2. PICK phase \in {"failed", "worktrees"}, answer \in {"waiting", "ok"} :
          /\ registration' = [registration EXCEPT ![g] = phase]
          /\ reply' = [reply EXCEPT ![g]["worktrees"] = answer]
    BY <1>2 DEF Session!OnRegistered, Session!SetRegistration
  <2>3. /\ registration' \in [Session!Generations -> Phases]
        /\ registration'[g] = phase
        /\ \A h \in Session!Generations : h # g => registration'[h] = registration[h]
    BY <2>2 DEF SessionInv, SessionType, Phases
  <2>4. /\ reply' \in [Session!Generations
                         -> [Session!Requests -> {"none", "waiting", "ok", "error"}]]
        /\ \A h \in Session!Generations : h # g => reply'[h] = reply[h]
    BY <2>2 DEF SessionInv, SessionType
  <2>5. SessionType' /\ ReadyIsCurrent'
    BY <2>1, <2>3, <2>4 DEF SessionInv, SessionType, ReadyIsCurrent
  <2>6. RegistersOnce'
    BY <2>1, <2>3 DEF SessionInv, SessionType, RegistersOnce
  <2>7. AnswersArePresent'
    BY <2>3, <2>4 DEF SessionInv, AnswersArePresent, Answered
  <2> QED
    BY <2>5, <2>6, <2>7 DEF SessionInv
<1>3. ASSUME NEW g \in Session!Generations, NEW r \in Session!Requests, Session!Reply(g, r)
      PROVE  SessionInv'
  <2>1. PICK outcome \in {"ok", "error"} : reply' = [reply EXCEPT ![g][r] = outcome]
    BY <1>3 DEF Session!Reply
  <2> QED
    BY <1>3, <2>1, SessionAside DEF Session!Reply
<1>4. ASSUME NEW g \in Session!Generations, Session!Lose(g) PROVE SessionInv'
  BY <1>4, Invalidated DEF Session!Lose
<1>5. ASSUME NEW g \in Session!Generations, Session!ReconcileRequest(g) PROVE SessionInv'
  BY <1>5, SessionAside
     DEF Session!ReconcileRequest, Session!reconcileControlPlane, Session!Publish
<1>6. ASSUME NEW g \in Session!Generations, Session!Claim(g) PROVE SessionInv'
  BY <1>6, SessionAside DEF Session!Claim
<1>7. ASSUME NEW g \in Session!Generations, Session!Resume(g) PROVE SessionInv'
  BY <1>7, RegistrationStep
<1>8. CASE Session!Stop
  <2>1. CASE active # 0
    <3>1. active \in Session!Generations
      BY <2>1 DEF SessionInv, SessionType
    <3> QED
      BY <1>8, <2>1, <3>1, Invalidated DEF Session!Stop
  <2>2. CASE active = 0
    BY <1>8, <2>2, SessionAside DEF Session!Stop
  <2> QED
    BY <2>1, <2>2
<1>9. CASE \/ Session!SuppressReport \/ Session!ScanRecoveryRequests \/ Session!Authorize
           \/ Session!TurnEnds \/ Session!CloseStores \/ UNCHANGED Session!vars
  BY <1>9, SessionAside DEF Session!SuppressReport, Session!ScanRecoveryRequests,
     Session!Authorize, Session!TurnEnds, Session!CloseStores, Session!vars
<1> QED
  BY <1>1, <1>2, <1>3, <1>4, <1>5, <1>6, <1>7, <1>8, <1>9 DEF Session!Next, Session!Answer

(* Registration is not readiness (initializeRegistration, onDisconnected):  *)
(* the ready connection is the current one, it has registered, and the      *)
(* report of its worktrees was answered on that very connection.            *)
THEOREM ReadyIsAlwaysReconciled ==
    ASSUME Session!BoundsAssumption
    PROVE  Session!Spec => []ReadyIsReconciled
<1>1. SessionInv => Session!ReadyIsReconciled
  BY DEF SessionInv, AnswersArePresent, ReadyIsCurrent, Answered, Announced,
         Session!ReadyIsReconciled, Session!isCurrentGeneration
<1>2. SessionInv /\ [Session!Next]_Session!vars => SessionInv'
  BY SessionStep
<1> QED
  BY <1>1, <1>2, SessionInit, PTL DEF ReadyIsReconciled, Session!Spec

-----------------------------------------------------------------------------
(* The dispatch registry of the Worker (DispatchRegistry).                  *)

Row == [state : Executor!DispatchState, lineage : Lineage \cup {Executor!NoLineage},
        failure : Executor!FailureFact, intent : BOOLEAN, prompted : BOOLEAN,
        native : BOOLEAN, settled : BOOLEAN, authorized : BOOLEAN, acked : BOOLEAN]

Line == [logical : {Logical[a] : a \in Action} \cup {Executor!Retired},
         session : Executor!SessionState, active : Action \cup {NoAction},
         handle : BOOLEAN, native : BOOLEAN]

(* A registry s after r: a dispatch that was accepted stays so, and the     *)
(* intents to prompt are those of r.                                        *)
Keeps(r, s) ==
    /\ s \in Executor!RegistryType
    /\ \A a \in Action :
         /\ s.d[a].intent = r.d[a].intent
         /\ s.d[a].state = "absent" =>
              r.d[a].state = "absent" /\ s.d[a].lineage = r.d[a].lineage

(* Two steps of the registry, one after the other.                           *)
LEMMA KeepsChain ==
    ASSUME NEW r, NEW s, NEW t, Keeps(r, s), Keeps(s, t)
    PROVE  Keeps(r, t)
  BY DEF Keeps

(* The registry left as it is.                                               *)
LEMMA KeepsSame == ASSUME NEW r \in Executor!RegistryType PROVE Keeps(r, r)
  BY DEF Keeps

(* The row of one dispatch is written.                                      *)
LEMMA RowWritten ==
    ASSUME NEW r \in Executor!RegistryType, NEW a \in Action, NEW row \in Row,
           row.intent = r.d[a].intent,
           row.state = "absent" => r.d[a].state = "absent" /\ row.lineage = r.d[a].lineage
    PROVE  Keeps(r, [r EXCEPT !.d[a] = row])
  BY DEF Keeps, Executor!RegistryType, Row

(* The rows of lineages are written.                                        *)
LEMMA LinesWritten ==
    ASSUME NEW r \in Executor!RegistryType, NEW l \in [Lineage -> Line]
    PROVE  Keeps(r, [r EXCEPT !.l = l])
  BY DEF Keeps, Executor!RegistryType, Line

(* The row of one lineage is written.                                        *)
LEMMA LineWritten ==
    ASSUME NEW r \in Executor!RegistryType, NEW x, NEW line, x \in Lineage => line \in Line
    PROVE  Keeps(r, [r EXCEPT !.l[x] = line])
  BY DEF Keeps, Executor!RegistryType, Line

(* What a registry of the right type holds for an action and for a lineage.  *)
LEMMA Typed ==
    ASSUME NEW r \in Executor!RegistryType
    PROVE  r.d \in [Action -> Row] /\ r.l \in [Lineage -> Line]
  BY DEF Executor!RegistryType, Row, Line

(* updateSession writes the state of a session.                              *)
LEMMA SessionUpdated ==
    ASSUME NEW r \in Executor!RegistryType, NEW x, NEW state \in Executor!SessionState
    PROVE  Keeps(r, Executor!updateSession(r, x, state))
<1>1. x \in Lineage => [r.l[x] EXCEPT !.session = state] \in Line
  BY Typed DEF Line
<1> QED
  BY <1>1, LineWritten, Zenon DEF Executor!updateSession

(* recordExecution writes the harness handle of a lineage.                   *)
LEMMA ExecutionRecorded ==
    ASSUME NEW r \in Executor!RegistryType, NEW x
    PROVE  Keeps(r, Executor!recordExecution(r, x))
<1> DEFINE line == [r.l[x] EXCEPT !.handle = TRUE]
<1>1. ASSUME x \in Lineage PROVE line \in Line
  <2>1. r.l[x] \in Line
    BY <1>1, Typed
  <2> QED
    BY <2>1 DEF Line
<1>2. Keeps(r, [r EXCEPT !.l[x] = line])
  <2> HIDE DEF line
  <2> QED
    BY <1>1, LineWritten
<1> QED
  BY <1>2 DEF Executor!recordExecution

(* recordNativeSession writes the native session of a lineage.               *)
LEMMA NativeRecorded ==
    ASSUME NEW r \in Executor!RegistryType, NEW x
    PROVE  Keeps(r, Executor!recordNativeSession(r, x))
<1> DEFINE line == [r.l[x] EXCEPT !.handle = TRUE, !.native = TRUE]
<1>1. ASSUME x \in Lineage PROVE line \in Line
  <2>1. r.l[x] \in Line
    BY <1>1, Typed
  <2> QED
    BY <2>1 DEF Line
<1>2. Keeps(r, [r EXCEPT !.l[x] = line])
  <2> HIDE DEF line
  <2> QED
    BY <1>1, LineWritten
<1> QED
  BY <1>2 DEF Executor!recordNativeSession

(* occupy makes an action the active one of a lineage.                       *)
LEMMA Occupied ==
    ASSUME NEW r \in Executor!RegistryType, NEW x, NEW a \in Action
    PROVE  Keeps(r, Executor!occupy(r, x, a))
<1>1. x \in Lineage => [r.l[x] EXCEPT !.active = a] \in Line
  BY Typed DEF Line
<1> QED
  BY <1>1, LineWritten, Zenon DEF Executor!occupy

(* ReleaseLineage: physical occupancy ends with the execution.               *)
LEMMA Released ==
    ASSUME NEW r \in Executor!RegistryType, NEW a \in Action
    PROVE  Keeps(r, Executor!ReleaseLineage(r, a))
<1> DEFINE l == [x \in Lineage |->
             IF x = r.d[a].lineage /\ r.l[x].active = a
             THEN [r.l[x] EXCEPT !.active = NoAction, !.session = "retained"] ELSE r.l[x]]
<1>1. l \in [Lineage -> Line]
  <2>1. ASSUME NEW x \in Lineage
        PROVE  /\ r.l[x] \in Line
               /\ [r.l[x] EXCEPT !.active = NoAction, !.session = "retained"] \in Line
    <3>1. r.l[x] \in Line
      BY Typed
    <3> QED
      BY <3>1 DEF Line, Executor!SessionState
  <2> QED
    BY <2>1
<1>2. Keeps(r, [r EXCEPT !.l = l])
  <2> HIDE DEF l
  <2> QED
    BY <1>1, LinesWritten
<1>3. Executor!ReleaseLineage(r, a) = [r EXCEPT !.l = l]
  BY DEF Executor!ReleaseLineage
<1> QED
  BY <1>2, <1>3

(* Facts of a turn.                                                         *)
LEMMA PromptFactsWritten ==
    ASSUME NEW r \in Executor!RegistryType, NEW a \in Action
    PROVE  /\ Keeps(r, Executor!authorizePrompt(r, a))
           /\ Keeps(r, Executor!markNativeActivity(r, a))
           /\ r.d[a].state # "absent" => Keeps(r, Executor!markPromptAccepted(r, a))
<1>1. r.d[a] \in Row
  BY Typed
<1>2. Keeps(r, Executor!authorizePrompt(r, a))
  <2> DEFINE row == [r.d[a] EXCEPT !.authorized = TRUE]
  <2>1. /\ row \in Row /\ row.intent = r.d[a].intent /\ row.state = r.d[a].state
        /\ row.lineage = r.d[a].lineage
    BY <1>1 DEF Row
  <2>2. Keeps(r, [r EXCEPT !.d[a] = row])
    <3> HIDE DEF row
    <3> QED
      BY <2>1, RowWritten
  <2> QED
    BY <2>2, KeepsSame DEF Executor!authorizePrompt
<1>3. Keeps(r, Executor!markNativeActivity(r, a))
  <2> DEFINE state == Executor!Running(r.d[a].state)
             row == [r.d[a] EXCEPT !.native = TRUE, !.state = state]
  <2>1. /\ row \in Row /\ row.intent = r.d[a].intent
        /\ row.lineage = r.d[a].lineage
        /\ row.state = "absent" => r.d[a].state = "absent"
    <3>1. state \in Executor!DispatchState /\ (state = "absent" => r.d[a].state = "absent")
      BY <1>1 DEF Row, Executor!Running, Executor!DispatchState
    <3> HIDE DEF state
    <3> QED
      BY <1>1, <3>1 DEF Row
  <2>2. Keeps(r, [r EXCEPT !.d[a] = row])
    <3> HIDE DEF row
    <3> QED
      BY <2>1, RowWritten
  <2> QED
    BY <2>2, KeepsSame DEF Executor!markNativeActivity
<1>4. ASSUME r.d[a].state # "absent" PROVE Keeps(r, Executor!markPromptAccepted(r, a))
  <2> DEFINE state == Executor!Running(r.d[a].state)
             row == [r.d[a] EXCEPT !.prompted = TRUE, !.state = state]
  <2>1. /\ row \in Row /\ row.intent = r.d[a].intent
        /\ row.state = "absent" => r.d[a].state = "absent"
    <3>1. state \in Executor!DispatchState /\ (state = "absent" => r.d[a].state = "absent")
      BY <1>1 DEF Row, Executor!Running, Executor!DispatchState
    <3> HIDE DEF state
    <3> QED
      BY <1>1, <3>1 DEF Row
  <2>2. Keeps(r, [r EXCEPT !.d[a] = row])
    <3> HIDE DEF row
    <3> QED
      BY <1>4, <2>1, RowWritten
  <2> QED
    BY <2>2 DEF Executor!markPromptAccepted
<1> QED
  BY <1>2, <1>3, <1>4

(* An observation that failed is recorded or resumed, and the                *)
(* acknowledgement of the server is.                                         *)
LEMMA ObservationFailureRecorded ==
    ASSUME NEW r \in Executor!RegistryType, NEW a \in Action
    PROVE  /\ Keeps(r, Executor!recordObservationFailure(r, a))
           /\ Keeps(r, Executor!resumeObservationUncertainty(r, a))
           /\ Keeps(r, Executor!acknowledgeServerTerminal(r, a))
<1>1. r.d[a] \in Row
  BY Typed
<1>2. Keeps(r, Executor!recordObservationFailure(r, a))
  <2> DEFINE row == [r.d[a] EXCEPT !.failure = "observation"]
  <2>1. /\ row \in Row /\ row.intent = r.d[a].intent
        /\ row.lineage = r.d[a].lineage /\ row.state = r.d[a].state
    BY <1>1 DEF Row, Executor!FailureFact
  <2>2. Keeps(r, [r EXCEPT !.d[a] = row])
    <3> HIDE DEF row
    <3> QED
      BY <2>1, RowWritten
  <2> QED
    BY <2>2, KeepsSame DEF Executor!recordObservationFailure
<1>3. Keeps(r, Executor!resumeObservationUncertainty(r, a))
  <2> DEFINE row == [r.d[a] EXCEPT !.state = "running"]
  <2>1. row \in Row /\ row.intent = r.d[a].intent /\ row.state = "running"
    BY <1>1 DEF Row, Executor!DispatchState
  <2>2. Keeps(r, [r EXCEPT !.d[a] = row])
    <3> HIDE DEF row
    <3> QED
      BY <2>1, RowWritten
  <2> QED
    BY <2>2, KeepsSame DEF Executor!resumeObservationUncertainty
<1>4. Keeps(r, Executor!acknowledgeServerTerminal(r, a))
  <2> DEFINE row == [r.d[a] EXCEPT !.acked = TRUE]
  <2>1. /\ row \in Row /\ row.intent = r.d[a].intent
        /\ row.lineage = r.d[a].lineage /\ row.state = r.d[a].state
    BY <1>1 DEF Row
  <2>2. Keeps(r, [r EXCEPT !.d[a] = row])
    <3> HIDE DEF row
    <3> QED
      BY <2>1, RowWritten
  <2> QED
    BY <2>2, KeepsSame DEF Executor!acknowledgeServerTerminal
<1> QED
  BY <1>2, <1>3, <1>4

(* Terminal facts: whatever they write, the intent to prompt stays.         *)
LEMMA OutcomeWritten ==
    ASSUME NEW r \in Executor!RegistryType, NEW a \in Action,
           NEW state \in Executor!DispatchState, state # "absent",
           NEW failure \in Executor!FailureFact
    PROVE  /\ Keeps(r, [r EXCEPT !.d[a] = [@ EXCEPT !.state = state, !.failure = failure]])
           /\ Keeps(r, [r EXCEPT !.d[a] = [@ EXCEPT !.state = state, !.failure = failure,
                                                    !.settled = TRUE]])
           /\ Keeps(r, [r EXCEPT !.d[a] = [@ EXCEPT !.state = state, !.failure = failure,
                                                    !.acked = FALSE]])
<1> DEFINE row1 == [r.d[a] EXCEPT !.state = state, !.failure = failure]
           row2 == [r.d[a] EXCEPT !.state = state, !.failure = failure, !.settled = TRUE]
           row3 == [r.d[a] EXCEPT !.state = state, !.failure = failure, !.acked = FALSE]
<1>1. r.d[a] \in Row
  BY Typed
<1>2. /\ row1 \in Row /\ row1.intent = r.d[a].intent /\ row1.state = state
      /\ row2 \in Row /\ row2.intent = r.d[a].intent /\ row2.state = state
      /\ row3 \in Row /\ row3.intent = r.d[a].intent /\ row3.state = state
  BY <1>1 DEF Row
<1>3. /\ Keeps(r, [r EXCEPT !.d[a] = row1])
      /\ Keeps(r, [r EXCEPT !.d[a] = row2])
      /\ Keeps(r, [r EXCEPT !.d[a] = row3])
  <2> HIDE DEF row1, row2, row3
  <2> QED
    BY <1>2, RowWritten
<1> QED
  BY <1>3

(* complete, fail and cancel.                                                *)
LEMMA TerminalWritten ==
    ASSUME NEW r \in Executor!RegistryType, NEW a \in Action,
           NEW failure \in Executor!FailureFact, NEW uncertain \in BOOLEAN
    PROVE  /\ Keeps(r, Executor!complete(r, a))
           /\ Keeps(r, Executor!fail(r, a, failure, uncertain))
           /\ Keeps(r, Executor!cancel(r, a))
<1> USE DEF Executor!DispatchState, Executor!FailureFact
<1>0. r.d[a] \in Row
  BY Typed
<1>1. ASSUME NEW s, Keeps(r, s) PROVE Keeps(r, Executor!ReleaseLineage(s, a))
  <2>1. Keeps(s, Executor!ReleaseLineage(s, a))
    BY <1>1, Released DEF Keeps
  <2> QED
    BY <1>1, <2>1, KeepsChain
<1>2. Keeps(r, Executor!complete(r, a))
  BY <1>1, OutcomeWritten, Zenon DEF Executor!complete
<1>3. Keeps(r, Executor!fail(r, a, failure, uncertain))
  <2>1. CASE r.d[a].state = "completed"
    BY <1>1, <2>1, KeepsSame, Zenon DEF Executor!fail
  <2>2. CASE r.d[a].state # "completed" /\ uncertain
    <3> DEFINE row == [r.d[a] EXCEPT !.state = "uncertain", !.failure = failure]
    <3>1. row \in Row /\ row.intent = r.d[a].intent /\ row.state # "absent"
      BY <1>0 DEF Row
    <3>2. Keeps(r, [r EXCEPT !.d[a] = row])
      <4> HIDE DEF row
      <4> QED
        BY <3>1, RowWritten
    <3> QED
      BY <2>2, <3>2 DEF Executor!fail
  <2>3. CASE r.d[a].state # "completed" /\ ~uncertain
    <3> DEFINE row == [r.d[a] EXCEPT !.state = "failed", !.failure = failure]
               s == [r EXCEPT !.d[a] = row]
    <3>1. row \in Row /\ row.intent = r.d[a].intent /\ row.state # "absent"
      BY <1>0 DEF Row
    <3>2. Keeps(r, s)
      <4> HIDE DEF row
      <4> QED
        BY <3>1, RowWritten
    <3>3. Keeps(r, Executor!ReleaseLineage(s, a))
      <4> HIDE DEF s
      <4> QED
        BY <1>1, <3>2
    <3> QED
      BY <2>3, <3>3 DEF Executor!fail
  <2> QED
    BY <2>1, <2>2, <2>3
<1>4. Keeps(r, Executor!cancel(r, a))
  BY <1>1, OutcomeWritten, KeepsSame, Zenon DEF Executor!cancel
<1> QED
  BY <1>2, <1>3, <1>4

(* What the executor does in one transaction after another.                  *)
LEMMA Composed ==
    ASSUME NEW r \in Executor!RegistryType, NEW a \in Action, NEW error \in Executor!Fault,
           NEW state \in Executor!SessionState
    PROVE  /\ Keeps(r, Executor!WithSession(r, a, state))
           /\ Keeps(r, Executor!Failed(r, a, error))
           /\ Keeps(r, Executor!Authorized(r, a))
           /\ Keeps(r, Executor!acknowledgeTerminal(r, a))
<1>0. /\ error \in Executor!FailureFact
      /\ {"unavailable", "starting", "retained"} \subseteq Executor!SessionState
  BY DEF Executor!Fault, Executor!FailureFact, Executor!SessionState
<1>1. ASSUME NEW t \in Executor!RegistryType, NEW s \in Executor!SessionState
      PROVE  Keeps(t, Executor!WithSession(t, a, s))
  BY SessionUpdated, KeepsSame DEF Executor!WithSession
<1>2. Keeps(r, Executor!Failed(r, a, error))
  <2> DEFINE uncertain == Executor!isUncertain(r.d[a], error)
             s == Executor!fail(r, a, error, uncertain)
  <2>1. uncertain \in BOOLEAN
    BY DEF Executor!isUncertain
  <2>2. Keeps(r, s)
    <3> HIDE DEF uncertain
    <3> QED
      BY <1>0, <2>1, TerminalWritten
  <2>3. Keeps(s, Executor!updateSession(s, r.d[a].lineage, "unavailable"))
    <3> HIDE DEF s
    <3> QED
      BY <1>0, <2>2, SessionUpdated DEF Keeps
  <2>4. Keeps(r, Executor!updateSession(s, r.d[a].lineage, "unavailable"))
    <3> HIDE DEF s
    <3> QED
      BY <2>2, <2>3, KeepsChain
  <2> QED
    BY <2>2, <2>4, KeepsSame DEF Executor!Failed
<1>3. Keeps(r, Executor!Authorized(r, a))
  <2> DEFINE s == Executor!authorizePrompt(r, a)
  <2>1. Keeps(r, s)
    BY PromptFactsWritten
  <2>2. Keeps(s, Executor!WithSession(s, a, "starting"))
    <3> HIDE DEF s
    <3> QED
      BY <1>0, <1>1, <2>1 DEF Keeps
  <2> QED
    BY <2>1, <2>2, KeepsChain DEF Executor!Authorized
<1>4. Keeps(r, Executor!acknowledgeTerminal(r, a))
  <2> DEFINE s == Executor!acknowledgeServerTerminal(r, a)
  <2>1. Keeps(r, s)
    BY ObservationFailureRecorded
  <2>2. Keeps(s, Executor!WithSession(s, a, "retained"))
    <3> HIDE DEF s
    <3> QED
      BY <1>0, <1>1, <2>1 DEF Keeps
  <2> QED
    BY <2>1, <2>2, KeepsSame, KeepsChain DEF Executor!acknowledgeTerminal
<1> QED
  BY <1>1, <1>2, <1>3, <1>4

(* Acceptance.                                                              *)
LEMMA FreshIsUnused ==
    ASSUME Executor!RegistryAssumption, NEW r, Executor!Used(r) # Lineage
    PROVE  Executor!FreshLineage(r) \in Lineage \ Executor!Used(r)
<1> DEFINE R == OpToRel(<, Nat)
           S == Lineage \ Executor!Used(r)
<1>1. S # {} /\ \A x \in S : x \in Nat
  BY DEF Executor!RegistryAssumption, Executor!Used
<1>2. IsWellFoundedOn(R, Nat)
  BY NatLessThanWellFounded
<1>3. \A x, y \in Nat : <<y, x>> \in R <=> y < x
  BY DEF OpToRel
<1> HIDE DEF R, S
<1>4. PICK o \in S : \A x \in S : ~ (<<x, o>> \in R)
  <2>1. S \subseteq Nat /\ S # {}
    BY <1>1
  <2> QED
    BY <1>2, <2>1, WFMin
<1>5. ASSUME NEW x \in S PROVE o <= x
  <2>1. x \in Nat /\ o \in Nat /\ ~ (x < o)
    BY <1>1, <1>3, <1>4
  <2> QED
    BY <2>1
<1>6. (CHOOSE o2 \in S : \A x \in S : o2 <= x) \in S
  BY <1>5
<1> QED
  BY <1>6 DEF Executor!FreshLineage, S

(* The row of a new lineage is inserted.                                     *)
LEMMA LineageInserted ==
    ASSUME NEW r \in Executor!RegistryType, NEW x \in Lineage, NEW a \in Action,
           NEW holder \in Action \cup {NoAction}
    PROVE  Keeps(r, Executor!InsertLineage(r, x, Logical[a], holder))
<1> DEFINE line == [logical |-> Logical[a], session |-> "starting", active |-> holder,
                    handle |-> FALSE, native |-> FALSE]
<1>1. line \in Line
  BY DEF Line, Executor!SessionState
<1>2. Keeps(r, [r EXCEPT !.l[x] = line])
  <2> HIDE DEF line
  <2> QED
    BY <1>1, LineWritten
<1> QED
  BY <1>2 DEF Executor!InsertLineage

(* retireResolvedFreshLineage frees the logical lineage for a new attempt.   *)
LEMMA FreshRetired ==
    ASSUME NEW r \in Executor!RegistryType, NEW a \in Action
    PROVE  Keeps(r, Executor!retireResolvedFreshLineage(r, a))
<1> DEFINE frees(x) ==
             /\ Executor!retainedWorkRecovery(r, a, Executor!Previous(r, a))
             /\ r.l[x].active = Executor!Previous(r, a)
           l == [x \in Lineage |->
                  IF x \notin Executor!ByLogical(r, Logical[a]) THEN r.l[x]
                  ELSE IF frees(x)
                       THEN [r.l[x] EXCEPT !.logical = Executor!Retired, !.active = NoAction,
                                           !.session = "retained"]
                       ELSE [r.l[x] EXCEPT !.logical = Executor!Retired]]
<1>1. l \in [Lineage -> Line]
  <2>1. ASSUME NEW x \in Lineage
        PROVE  /\ r.l[x] \in Line
               /\ [r.l[x] EXCEPT !.logical = Executor!Retired, !.active = NoAction,
                                 !.session = "retained"] \in Line
               /\ [r.l[x] EXCEPT !.logical = Executor!Retired] \in Line
    <3>1. r.l[x] \in Line
      BY Typed
    <3> QED
      BY <3>1 DEF Line, Executor!SessionState
  <2> HIDE DEF frees
  <2> QED
    BY <2>1
<1>2. Keeps(r, [r EXCEPT !.l = l])
  <2> HIDE DEF l
  <2> QED
    BY <1>1, LinesWritten
<1>3. Executor!retireResolvedFreshLineage(r, a) = [r EXCEPT !.l = l]
  BY DEF Executor!retireResolvedFreshLineage
<1> QED
  BY <1>2, <1>3

(* The row of a newly accepted action is inserted.                           *)
LEMMA RowInserted ==
    ASSUME NEW r \in Executor!RegistryType, NEW a \in Action, ~r.d[a].intent,
           NEW x \in Lineage \cup {Executor!NoLineage}
    PROVE  /\ Keeps(r, Executor!AcceptRow(r, a, x))
           /\ Executor!AcceptRow(r, a, x).d[a].state = "accepted"
<1> DEFINE row == [Executor!NoDispatch EXCEPT !.state = "accepted", !.lineage = x]
           s == [r EXCEPT !.d[a] = row, !.rows = Append(r.rows, a)]
<1>1. row \in Row /\ row.intent = FALSE /\ row.state = "accepted"
  BY DEF Row, Executor!NoDispatch, Executor!DispatchState, Executor!FailureFact
<1>2. r.d \in [Action -> Row] /\ r.d[a].intent = FALSE
  BY Typed DEF Row
<1>3. Append(r.rows, a) \in Seq(Action)
  BY DEF Executor!RegistryType
<1> HIDE DEF row
<1>4. /\ s.d = [r.d EXCEPT ![a] = row]
      /\ s \in Executor!RegistryType
  BY <1>1, <1>3 DEF Executor!RegistryType, Row
<1>5. Keeps(r, s) /\ s.d[a].state = "accepted"
  BY <1>1, <1>2, <1>4 DEF Keeps
<1> QED
  BY <1>5 DEF Executor!AcceptRow, row

(* accept: afterwards the action is in the registry, with the intents that   *)
(* were there.                                                               *)
LEMMA Accepted ==
    ASSUME Executor!RegistryAssumption, NEW r \in Executor!RegistryType, NEW a \in Action,
           r.d[a].state = "absent" => ~r.d[a].intent, Executor!can_accept(r, a)
    PROVE  Keeps(r, Executor!accept(r, a)) /\ Executor!accept(r, a).d[a].state # "absent"
<1>1. CASE r.d[a].state # "absent"
  BY <1>1, KeepsSame DEF Executor!accept
<1> SUFFICES ASSUME r.d[a].state = "absent"
             PROVE  Keeps(r, Executor!accept(r, a)) /\ Executor!accept(r, a).d[a].state # "absent"
  BY <1>1
<1>2. CASE Mode[a] = "continue"
  BY <1>2, RowInserted DEF Executor!accept
<1>3. CASE Mode[a] = "fresh"
  <2> DEFINE s == Executor!retireResolvedFreshLineage(r, a)
             x == Executor!FreshLineage(r)
             t == Executor!InsertLineage(s, x, Logical[a], NoAction)
  <2>1. Keeps(r, s)
    BY FreshRetired
  <2>2. x \in Lineage
    BY <1>3, FreshIsUnused DEF Executor!can_accept
  <2>3. Keeps(r, t)
    <3> HIDE DEF s, x
    <3>0. s \in Executor!RegistryType /\ NoAction \in Action \cup {NoAction}
      BY <2>1 DEF Keeps
    <3>1. Keeps(s, t)
      BY <2>2, <3>0, LineageInserted
    <3> HIDE DEF t
    <3> QED
      BY <2>1, <3>1, KeepsChain
  <2>4. Keeps(r, Executor!AcceptRow(t, a, x)) /\ Executor!AcceptRow(t, a, x).d[a].state = "accepted"
    <3> HIDE DEF t, x
    <3>1. t \in Executor!RegistryType /\ ~t.d[a].intent
      BY <2>3 DEF Keeps
    <3>2. /\ Keeps(t, Executor!AcceptRow(t, a, x))
          /\ Executor!AcceptRow(t, a, x).d[a].state = "accepted"
      BY <2>2, <3>1, RowInserted
    <3> QED
      BY <2>3, <3>2, KeepsChain
  <2> QED
    BY <1>3, <2>4 DEF Executor!accept
<1>4. CASE Mode[a] = "retained"
  <2>1. Executor!RetainedLineage(r, a) \in Lineage
    BY <1>4 DEF Executor!can_accept, Executor!can_claimLineage
  <2> QED
    BY <1>4, <2>1, RowInserted DEF Executor!accept
<1>5. CASE Mode[a] = "setup"
  <2> DEFINE x == CHOOSE y \in Executor!ByLogical(r, Logical[a]) :
                    Executor!can_claimLineage(r, a, y)
  <2>1. x \in Lineage
    BY <1>5 DEF Executor!can_accept, Executor!can_claimLineage
  <2> QED
    BY <1>5, <2>1, RowInserted DEF Executor!accept
<1> QED
  BY <1>2, <1>3, <1>4, <1>5 DEF Executor!can_accept

-----------------------------------------------------------------------------
(* The executor over it (DispatchExecutor).                                 *)

Places == {"idle", "loop", "recovering", "proving", "starting", "gate", "observing", "fencing",
           "quiet", "staged", "continuing", "sending", "accepting", "collecting", "report",
           "acking", "stopping", "interrupting", "retiring", "watch"}

(* Where an execution is that has not written its intent to prompt.         *)
Before == {"proving", "starting", "gate", "observing", "fencing", "quiet", "staged",
           "continuing"}

Fact == [state : Executor!DispatchState, failure : Executor!FailureFact]

ServerRow == [state : Executor!DispatchState \cup {"scheduled", "acknowledged"},
              failure : Executor!FailureFact, cancel : BOOLEAN, authorized : BOOLEAN,
              told : BOOLEAN, retire : BOOLEAN]

ExecutorType ==
    /\ reg \in Executor!RegistryType
    /\ pc \in [Action -> [Executor!Thread -> Places]]
    /\ sent \in [Action -> [Executor!Thread -> Fact]]
    /\ server \in [Action -> ServerRow]
    /\ prompts \in [Action -> Nat]

(* Nothing runs for an action the registry has not accepted.                *)
NothingBeforeAcceptance ==
    \A a \in Action : reg.d[a].state = "absent" =>
        /\ reg.d[a].lineage = Executor!NoLineage /\ ~reg.d[a].intent
        /\ \A t \in Executor!Thread : pc[a][t] = "idle"
        /\ ~server[a].authorized /\ ~server[a].told

(* The intent is written before the prompt, by an execution that has none:  *)
(* whoever finds it only observes.                                          *)
IntentPrecedesPrompt ==
    \A a \in Action :
        /\ prompts[a] <= 1
        /\ prompts[a] # 0 => reg.d[a].intent
        /\ pc[a]["execution"] = "sending" => reg.d[a].intent /\ prompts[a] = 0
        /\ pc[a]["execution"] \in Before => ~reg.d[a].intent

ExecutorInv == ExecutorType /\ NothingBeforeAcceptance /\ IntentPrecedesPrompt

(* The registry starts empty, and no operation runs.                         *)
LEMMA ExecutorInit == ASSUME Executor!RegistryAssumption, Executor!Init PROVE ExecutorInv
<1>1. Executor!EmptyRegistry \in Executor!RegistryType
  <2>1. /\ Executor!NoDispatch \in Row
        /\ Executor!NoLineageRow \in Line
    BY DEF Executor!NoDispatch, Executor!NoLineageRow, Row, Line, Executor!DispatchState,
           Executor!FailureFact, Executor!SessionState
  <2>2. <<>> \in Seq(Action)
    OBVIOUS
  <2> QED
    BY <2>1, <2>2 DEF Executor!EmptyRegistry, Executor!RegistryType, Row, Line
<1>2. Executor!NoFact \in Fact /\ Executor!NoServerRow \in ServerRow
  BY DEF Fact, ServerRow, Executor!NoFact, Executor!NoServerRow, Executor!DispatchState,
         Executor!FailureFact
<1>3. ExecutorType
  BY <1>1, <1>2 DEF Executor!Init, ExecutorType, Places
<1>4. \A a \in Action : reg.d[a] = Executor!NoDispatch /\ server[a] = Executor!NoServerRow
  BY DEF Executor!Init, Executor!EmptyRegistry
<1>5. NothingBeforeAcceptance
  BY <1>4 DEF NothingBeforeAcceptance, Executor!Init, Executor!NoDispatch, Executor!NoServerRow
<1>6. IntentPrecedesPrompt
  BY DEF IntentPrecedesPrompt, Executor!Init, Before, Executor!Thread
<1> QED
  BY <1>3, <1>5, <1>6 DEF ExecutorInv

(* A step that neither writes an intent nor prompts.                        *)
LEMMA Stepped ==
    ASSUME ExecutorInv, Keeps(reg, reg'), UNCHANGED prompts,
           pc' \in [Action -> [Executor!Thread -> Places]],
           sent' \in [Action -> [Executor!Thread -> Fact]],
           server' \in [Action -> ServerRow],
           \A a \in Action :
              /\ reg'.d[a].state = "absent" =>
                    /\ \A t \in Executor!Thread : pc'[a][t] = "idle"
                    /\ ~server'[a].authorized /\ ~server'[a].told
              /\ \/ pc'[a]["execution"] = pc[a]["execution"]
                 \/ pc'[a]["execution"] \notin Before \cup {"sending"}
                 \/ pc'[a]["execution"] \in Before /\ ~reg.d[a].intent
    PROVE  ExecutorInv'
<1>1. ExecutorType'
  BY DEF ExecutorInv, ExecutorType, Keeps
<1>2. NothingBeforeAcceptance'
  BY DEF ExecutorInv, NothingBeforeAcceptance, Keeps
<1>3. IntentPrecedesPrompt'
  <2>1. "sending" \notin Before
    BY DEF Before
  <2> QED
    BY <2>1 DEF ExecutorInv, IntentPrecedesPrompt, Keeps
<1> QED
  BY <1>1, <1>2, <1>3 DEF ExecutorInv

(* One thread of an accepted action goes on.                                *)
LEMMA ThreadStep ==
    ASSUME ExecutorInv, Keeps(reg, reg'), UNCHANGED prompts,
           NEW a \in Action, NEW t \in Executor!Thread, NEW where \in Places,
           pc[a][t] # "idle" \/ reg'.d[a].state # "absent",
           Executor!Goto(a, t, where),
           sent' \in [Action -> [Executor!Thread -> Fact]],
           server' \in [Action -> ServerRow],
           \A b \in Action : /\ server'[b].authorized => server[b].authorized
                             /\ server'[b].told => server[b].told,
           \/ t # "execution" \/ where \notin Before \cup {"sending"}
           \/ where \in Before /\ ~reg.d[a].intent
    PROVE  ExecutorInv'
<1>1. /\ pc \in [Action -> [Executor!Thread -> Places]]
      /\ pc' = [pc EXCEPT ![a][t] = where]
  BY DEF ExecutorInv, ExecutorType, Executor!Goto
<1>2. /\ pc' \in [Action -> [Executor!Thread -> Places]]
      /\ \A b \in Action : b # a => pc'[b] = pc[b]
      /\ \A u \in Executor!Thread : pc'[a][u] = IF u = t THEN where ELSE pc[a][u]
  BY <1>1
<1>3. reg'.d[a].state # "absent"
  BY DEF ExecutorInv, NothingBeforeAcceptance, Keeps
<1>4. "execution" \in Executor!Thread
  BY DEF Executor!Thread
<1>5. ASSUME NEW b \in Action
      PROVE  /\ reg'.d[b].state = "absent" =>
                    /\ \A u \in Executor!Thread : pc'[b][u] = "idle"
                    /\ ~server'[b].authorized /\ ~server'[b].told
             /\ \/ pc'[b]["execution"] = pc[b]["execution"]
                \/ pc'[b]["execution"] \notin Before \cup {"sending"}
                \/ pc'[b]["execution"] \in Before /\ ~reg.d[b].intent
  <2>1. CASE b = a
    BY <1>2, <1>3, <1>4, <2>1
  <2>2. CASE b # a
    BY <1>2, <2>2 DEF ExecutorInv, NothingBeforeAcceptance, Keeps
  <2> QED
    BY <2>1, <2>2
<1> QED
  BY <1>2, <1>5, Stepped

(* A fact that the server applies changes no authorization.                  *)
LEMMA ServerApplied ==
    ASSUME NEW s \in ServerRow, NEW fact \in Fact
    PROVE  /\ Executor!server_apply(s, fact) \in ServerRow
           /\ Executor!server_apply(s, fact).authorized = s.authorized
           /\ Executor!server_apply(s, fact).told = s.told
  BY DEF ServerRow, Fact, Executor!server_apply, Executor!DispatchState, Executor!Terminal

(* A report that reaches the server, or is lost.                            *)
LEMMA ServerTold ==
    ASSUME ExecutorType, NEW a \in Action, NEW fact \in Fact,
           \/ server' = server
           \/ server' = [server EXCEPT ![a] = Executor!server_apply(server[a], fact)]
    PROVE  /\ server' \in [Action -> ServerRow]
           /\ \A b \in Action : /\ server'[b].authorized => server[b].authorized
                                /\ server'[b].told => server[b].told
<1> DEFINE s == Executor!server_apply(server[a], fact)
<1>1. server \in [Action -> ServerRow] /\ server[a] \in ServerRow
  BY DEF ExecutorType
<1>2. /\ s \in ServerRow /\ s.authorized = server[a].authorized /\ s.told = server[a].told
  BY <1>1, ServerApplied
<1> HIDE DEF s
<1>3. CASE server' = server
  BY <1>1, <1>3
<1>4. CASE server' = [server EXCEPT ![a] = s]
  <2>1. \A b \in Action : server'[b] = IF b = a THEN s ELSE server[b]
    BY <1>1, <1>4
  <2> QED
    BY <1>1, <1>2, <1>4, <2>1
<1> QED
  BY <1>3, <1>4 DEF s

(* What the Worker reports of an action is a fact.                           *)
LEMMA Facts ==
    ASSUME NEW r \in Executor!RegistryType, NEW a \in Action
    PROVE  /\ Executor!FactOf(r, a) \in Fact
           /\ [Executor!FactOf(r, a) EXCEPT !.state = IF @ = "uncertain" THEN @ ELSE "failed"]
                \in Fact
<1>1. r.d[a] \in Row
  BY Typed
<1> QED
  BY <1>1 DEF Row, Fact, Executor!FactOf, Executor!DispatchState

(* A thread ends with a report.                                             *)
LEMMA Reported ==
    ASSUME ExecutorType, NEW r, Keeps(reg, r), NEW a \in Action, NEW t \in Executor!Thread,
           Executor!ThenReport(a, t, r) \/ Executor!ThenReportFailure(a, t, r)
    PROVE  /\ Keeps(reg, reg') /\ Executor!Goto(a, t, "report")
           /\ sent' \in [Action -> [Executor!Thread -> Fact]]
<1>1. PICK fact \in Fact : sent' = [sent EXCEPT ![a][t] = fact]
  <2>1. r \in Executor!RegistryType
    BY DEF Keeps
  <2> QED
    BY <2>1, Facts DEF Executor!ThenReport, Executor!ThenReportFailure
<1> QED
  BY <1>1 DEF Executor!ThenReport, Executor!ThenReportFailure, ExecutorType

(* What an execution throws ends it, or is retried from the top.            *)
LEMMA Thrown ==
    ASSUME ExecutorType, NEW a \in Action, NEW error \in Executor!Fault, Executor!Throw(a, error)
    PROVE  /\ Keeps(reg, reg') /\ sent' \in [Action -> [Executor!Thread -> Fact]]
           /\ \E where \in {"idle", "report", "loop"} : Executor!Goto(a, "execution", where)
<1>0. /\ reg \in Executor!RegistryType /\ sent \in [Action -> [Executor!Thread -> Fact]]
      /\ "execution" \in Executor!Thread /\ "recovering" \in Executor!SessionState
      /\ Keeps(reg, reg)
  BY KeepsSame DEF ExecutorType, Executor!Thread, Executor!SessionState
<1>1. ASSUME NEW r, Keeps(reg, r), Executor!ThenReport(a, "execution", Executor!Failed(r, a, error))
      PROVE  /\ Keeps(reg, reg') /\ sent' \in [Action -> [Executor!Thread -> Fact]]
             /\ Executor!Goto(a, "execution", "report")
  <2>1. Keeps(r, Executor!Failed(r, a, error))
    BY <1>0, <1>1, Composed DEF Keeps
  <2>2. Keeps(reg, Executor!Failed(r, a, error))
    BY <1>1, <2>1, KeepsChain
  <2> QED
    BY <1>0, <1>1, <2>2, Reported
<1>2. CASE error \notin {"backend", "observation"}
  BY <1>0, <1>1, <1>2 DEF Executor!Throw, Executor!failAndReport
<1>3. CASE error \in {"backend", "observation"}
  <2> DEFINE r == IF error = "observation" THEN Executor!recordObservationFailure(reg, a) ELSE reg
  <2>1. Keeps(reg, r)
    BY <1>0, ObservationFailureRecorded
  <2>2. Keeps(reg, Executor!WithSession(r, a, "recovering"))
    <3> HIDE DEF r
    <3>1. Keeps(r, Executor!WithSession(r, a, "recovering"))
      BY <1>0, <2>1, Composed DEF Keeps
    <3> QED
      BY <2>1, <3>1, KeepsChain
  <2>3. \/ reg' = Executor!WithSession(r, a, "recovering") /\ Executor!Goto(a, "execution", "loop")
             /\ UNCHANGED sent
        \/ Executor!Goto(a, "execution", "idle") /\ UNCHANGED <<reg, sent>>
        \/ Executor!ThenReport(a, "execution", Executor!Failed(r, a, error))
    BY <1>3 DEF Executor!Throw
  <2> HIDE DEF r
  <2> QED
    BY <1>0, <1>1, <2>1, <2>2, <2>3
<1> QED
  BY <1>2, <1>3

(* An execution that throws reports its failure or tries again, and neither  *)
(* writes an intent nor prompts.                                             *)
LEMMA ThrowStep ==
    ASSUME ExecutorInv, NEW a \in Action, NEW error \in Executor!Fault, Executor!Throw(a, error),
           pc[a]["execution"] # "idle", UNCHANGED <<prompts, server>>
    PROVE  ExecutorInv'
<1>1. PICK where \in {"idle", "report", "loop"} :
        /\ Keeps(reg, reg') /\ sent' \in [Action -> [Executor!Thread -> Fact]]
        /\ Executor!Goto(a, "execution", where)
  BY Thrown DEF ExecutorInv
<1>2. /\ "execution" \in Executor!Thread /\ where \in Places
      /\ where \notin Before \cup {"sending"}
  BY DEF Executor!Thread, Places, Before
<1>3. server' \in [Action -> ServerRow]
  BY DEF ExecutorInv, ExecutorType
<1> QED
  BY <1>1, <1>2, <1>3, ThreadStep

(* A thread that ends with its report.                                       *)
LEMMA ReportStep ==
    ASSUME ExecutorInv, NEW a \in Action, NEW t \in Executor!Thread, NEW r, Keeps(reg, r),
           Executor!ThenReport(a, t, r) \/ Executor!ThenReportFailure(a, t, r),
           pc[a][t] # "idle" \/ r.d[a].state # "absent", UNCHANGED <<prompts, server>>
    PROVE  ExecutorInv'
<1>1. /\ Keeps(reg, reg') /\ Executor!Goto(a, t, "report")
      /\ sent' \in [Action -> [Executor!Thread -> Fact]]
  BY Reported DEF ExecutorInv
<1>2. "report" \in Places /\ "report" \notin Before \cup {"sending"}
  BY DEF Places, Before
<1>3. server' \in [Action -> ServerRow]
  BY DEF ExecutorInv, ExecutorType
<1>4. pc[a][t] # "idle" \/ reg'.d[a].state # "absent"
  BY DEF Executor!ThenReport, Executor!ThenReportFailure
<1> QED
  BY <1>1, <1>2, <1>3, <1>4, ThreadStep

(* A thread that goes on without a report.                                   *)
LEMMA GotoStep ==
    ASSUME ExecutorInv, NEW a \in Action, NEW t \in Executor!Thread, NEW where \in Places,
           pc[a][t] # "idle" \/ reg'.d[a].state # "absent",
           Keeps(reg, reg'), Executor!Goto(a, t, where), UNCHANGED <<prompts, server, sent>>,
           \/ t # "execution" \/ where \notin Before \cup {"sending"}
           \/ where \in Before /\ ~reg.d[a].intent
    PROVE  ExecutorInv'
<1>1. sent' \in [Action -> [Executor!Thread -> Fact]] /\ server' \in [Action -> ServerRow]
  BY DEF ExecutorInv, ExecutorType
<1> QED
  BY <1>1, ThreadStep

(* A transfer of a prepared process.                                        *)
LEMMA Transferred ==
    ASSUME Executor!RegistryAssumption, NEW r \in Executor!RegistryType, NEW a \in Action,
           r.d[a].state # "absent"
    PROVE  /\ \A x : Keeps(r, Executor!adoptPreparedProcess(r, a, x))
           /\ \A x : Executor!Used(r) # Lineage
                       => Keeps(r, Executor!replacePreparedProcessWithFresh(r, a, x))
           /\ Executor!can_resolveContinuation(r, a) => Keeps(r, Executor!Assigned(r, a))
<1>0. r.d[a] \in Row
  BY Typed
<1>1. ASSUME NEW x PROVE Keeps(r, Executor!adoptPreparedProcess(r, a, x))
  <2> DEFINE line == [r.l[x] EXCEPT !.active = a, !.session = "starting"]
             s == [r EXCEPT !.l[x] = line]
  <2>1. ASSUME x \in Lineage PROVE line \in Line
    <3>1. r.l[x] \in Line /\ "starting" \in Executor!SessionState
      BY <2>1, Typed DEF Executor!SessionState
    <3> QED
      BY <3>1 DEF Line
  <2>2. Keeps(r, s)
    <3> HIDE DEF line
    <3> QED
      BY <2>1, LineWritten
  <2>3. Keeps(s, [s EXCEPT !.moved[a] = "adopted"])
    <3> HIDE DEF s
    <3> QED
      BY <2>2 DEF Keeps, Executor!RegistryType
  <2>4. Keeps(r, [s EXCEPT !.moved[a] = "adopted"])
    <3> HIDE DEF s
    <3> QED
      BY <2>2, <2>3, KeepsChain
  <2> QED
    BY <2>4 DEF Executor!adoptPreparedProcess
<1>2. ASSUME NEW x, Executor!Used(r) # Lineage
      PROVE  Keeps(r, Executor!replacePreparedProcessWithFresh(r, a, x))
  <2> DEFINE y == Executor!FreshLineage(r)
             s == [r EXCEPT !.l[x].logical = Executor!Retired]
             t == Executor!InsertLineage(s, y, Logical[a], a)
             u == [t EXCEPT !.d[a].lineage = y]
             v == [u EXCEPT !.moved[a] = "fallback"]
  <2>1. y \in Lineage
    BY <1>2, FreshIsUnused
  <2>2. Keeps(r, s)
    <3> DEFINE line == [r.l[x] EXCEPT !.logical = Executor!Retired]
    <3>1. ASSUME x \in Lineage PROVE line \in Line
      <4>1. r.l[x] \in Line
        BY <3>1, Typed
      <4> QED
        BY <4>1 DEF Line
    <3>2. Keeps(r, [r EXCEPT !.l[x] = line])
      <4> HIDE DEF line
      <4> QED
        BY <3>1, LineWritten
    <3> QED
      BY <3>2
  <2> HIDE DEF s, y
  <2>3. Keeps(r, t)
    <3>1. s \in Executor!RegistryType /\ a \in Action \cup {NoAction}
      BY <2>2 DEF Keeps
    <3>2. Keeps(s, t)
      BY <2>1, <3>1, LineageInserted, Zenon
    <3> HIDE DEF t
    <3> QED
      BY <2>2, <3>2, KeepsChain
  <2> HIDE DEF t
  <2>4. Keeps(r, u)
    <3>1. t \in Executor!RegistryType /\ t.d[a] \in Row /\ t.d[a].state # "absent"
      BY <2>3, Typed DEF Keeps
    <3> DEFINE row == [t.d[a] EXCEPT !.lineage = y]
    <3>2. row \in Row /\ row.intent = t.d[a].intent /\ row.state = t.d[a].state
      BY <2>1, <3>1 DEF Row
    <3>3. Keeps(t, [t EXCEPT !.d[a] = row])
      <4> HIDE DEF row
      <4> QED
        BY <3>1, <3>2, RowWritten
    <3>4. Keeps(t, u)
      BY <3>3
    <3> HIDE DEF u
    <3> QED
      BY <2>3, <3>4, KeepsChain
  <2> HIDE DEF u
  <2>5. Keeps(u, v)
    BY <2>4 DEF Keeps, Executor!RegistryType
  <2> HIDE DEF v
  <2>6. Keeps(r, v)
    BY <2>4, <2>5, KeepsChain
  <2> QED
    BY <2>6 DEF Executor!replacePreparedProcessWithFresh, s, t, u, v, y
<1>3. ASSUME Executor!can_resolveContinuation(r, a) PROVE Keeps(r, Executor!Assigned(r, a))
  <2> DEFINE x == Executor!resolveContinuation(r, a)
             row == [r.d[a] EXCEPT !.lineage = x]
  <2>1. x \in Lineage
    BY <1>3 DEF Executor!can_resolveContinuation, Executor!resolveContinuation,
                Executor!ByLogical, Executor!Used
  <2> HIDE DEF x
  <2>2. row \in Row /\ row.intent = r.d[a].intent /\ row.state = r.d[a].state
    BY <1>0, <2>1 DEF Row
  <2>3. Keeps(r, [r EXCEPT !.d[a] = row])
    <3> HIDE DEF row
    <3> QED
      BY <2>2, RowWritten
  <2> QED
    BY <2>3, KeepsSame DEF Executor!Assigned, Executor!assignLineage, x
<1> QED
  BY <1>1, <1>2, <1>3

(* The execution up to the prompt gate.                                     *)
LEMMA StartStep ==
    ASSUME Executor!RegistryAssumption, ExecutorInv, NEW a \in Action,
           \/ Executor!ReportSettled(a) \/ Executor!StartRecovery(a) \/ Executor!StartAdoption(a)
           \/ Executor!StartExecution(a) \/ Executor!AdoptPrepared(a)
           \/ Executor!ReplacePrepared(a) \/ Executor!HarnessStarts(a)
    PROVE  ExecutorInv'
<1> USE DEF Executor!harness, Executor!link
<1>0. /\ "execution" \in Executor!Thread /\ "other" \in Executor!Fault
      /\ Before \subseteq Places /\ "recovering" \in Places
      /\ "recovering" \notin Before \cup {"sending"}
      /\ {"proving", "starting", "gate"} \subseteq Before
      /\ Keeps(reg, reg) /\ reg \in Executor!RegistryType
      /\ pc[a]["execution"] \in Before => ~reg.d[a].intent
      /\ pc[a]["execution"] # "idle" => reg.d[a].state # "absent"
      /\ "starting" \in Executor!SessionState
  BY KeepsSame DEF Executor!Thread, Executor!Fault, Places, Before, ExecutorInv, ExecutorType,
                   NothingBeforeAcceptance, IntentPrecedesPrompt, Executor!SessionState
<1>1. CASE Executor!ReportSettled(a)
  BY <1>0, <1>1, ReportStep DEF Executor!ReportSettled, Executor!At
<1>2. CASE Executor!StartRecovery(a)
  BY <1>0, <1>2, GotoStep DEF Executor!StartRecovery, Executor!At
<1>3. CASE Executor!StartAdoption(a)
  BY <1>0, <1>3, GotoStep DEF Executor!StartAdoption, Executor!At, Executor!shouldRecover
<1>4. CASE Executor!StartExecution(a)
  <2>1. /\ pc[a]["execution"] = "loop" /\ ~reg.d[a].intent /\ UNCHANGED <<prompts, server>>
    BY <1>4 DEF Executor!StartExecution, Executor!At, Executor!shouldRecover
  <2>2. CASE Executor!Throw(a, "other")
    BY <1>0, <2>1, <2>2, ThrowStep
  <2>3. CASE ~Executor!Throw(a, "other")
    <3> DEFINE r == Executor!Assigned(reg, a)
    <3>1. Keeps(reg, r)
      <4>1. reg.d[a].lineage = Executor!NoLineage => Executor!can_resolveContinuation(reg, a)
        BY <1>4, <2>3 DEF Executor!StartExecution
      <4>2. CASE Executor!can_resolveContinuation(reg, a)
        BY <1>0, <2>1, <4>2, Transferred
      <4>3. CASE ~Executor!can_resolveContinuation(reg, a)
        BY <1>0, <4>1, <4>3 DEF Executor!Assigned
      <4> QED
        BY <4>2, <4>3
    <3>2. \/ /\ reg' = Executor!occupy(r, r.d[a].lineage, a)
             /\ Executor!Goto(a, "execution", "starting") /\ UNCHANGED sent
          \/ Executor!ThenReport(a, "execution", Executor!Failed(r, a, "other"))
      BY <1>4, <2>3 DEF Executor!StartExecution
    <3> HIDE DEF r
    <3>3. /\ Keeps(r, Executor!occupy(r, r.d[a].lineage, a))
          /\ Keeps(r, Executor!Failed(r, a, "other"))
      <4>1. r \in Executor!RegistryType
        BY <3>1 DEF Keeps
      <4>2. PICK state \in Executor!SessionState : state = "starting"
        BY Zenon DEF Executor!SessionState
      <4>3. Keeps(r, Executor!occupy(r, r.d[a].lineage, a))
        BY <4>1, Occupied
      <4>4. Keeps(r, Executor!Failed(r, a, "other"))
        BY <1>0, <4>1, <4>2, Composed
      <4> QED
        BY <4>3, <4>4
    <3>4. /\ Keeps(reg, Executor!occupy(r, r.d[a].lineage, a))
          /\ Keeps(reg, Executor!Failed(r, a, "other"))
      BY <3>1, <3>3, KeepsChain
    <3>5. CASE /\ reg' = Executor!occupy(r, r.d[a].lineage, a)
               /\ Executor!Goto(a, "execution", "starting") /\ UNCHANGED sent
      BY <1>0, <2>1, <3>4, <3>5, GotoStep
    <3>6. CASE Executor!ThenReport(a, "execution", Executor!Failed(r, a, "other"))
      BY <1>0, <2>1, <3>4, <3>6, ReportStep
    <3> QED
      BY <3>2, <3>5, <3>6
  <2> QED
    BY <2>2, <2>3
<1>5. CASE Executor!AdoptPrepared(a)
  <2>1. pc[a]["execution"] = "proving" /\ UNCHANGED <<prompts, server>>
    BY <1>5 DEF Executor!AdoptPrepared, Executor!At
  <2>2. CASE Executor!Throw(a, "other")
    BY <1>0, <2>1, <2>2, ThrowStep
  <2>3. CASE /\ reg' = Executor!adoptPreparedProcess(reg, a, reg.d[a].lineage)
             /\ Executor!Goto(a, "execution", "starting") /\ UNCHANGED sent
    BY <1>0, <2>1, <2>3, Transferred, GotoStep
  <2> QED
    BY <1>5, <2>2, <2>3 DEF Executor!AdoptPrepared
<1>6. CASE Executor!ReplacePrepared(a)
  <2>1. pc[a]["execution"] = "proving" /\ UNCHANGED <<prompts, server>>
    BY <1>6 DEF Executor!ReplacePrepared, Executor!At
  <2>2. CASE Executor!Throw(a, "other")
    BY <1>0, <2>1, <2>2, ThrowStep
  <2>3. CASE /\ Executor!Used(reg) # Lineage
             /\ reg' = Executor!replacePreparedProcessWithFresh(reg, a, reg.d[a].lineage)
             /\ Executor!Goto(a, "execution", "starting") /\ UNCHANGED sent
    BY <1>0, <2>1, <2>3, Transferred, GotoStep
  <2> QED
    BY <1>6, <2>2, <2>3
       DEF Executor!ReplacePrepared, Executor!can_replacePreparedProcessWithFresh
<1>7. CASE Executor!HarnessStarts(a)
  <2> DEFINE r == Executor!recordExecution(reg, reg.d[a].lineage)
  <2>1. /\ pc[a]["execution"] = "starting" /\ UNCHANGED <<prompts, server, sent>>
        /\ reg' = Executor!updateSession(r, reg.d[a].lineage, "starting")
        /\ Executor!Goto(a, "execution", "gate")
    BY <1>7 DEF Executor!HarnessStarts, Executor!At
  <2>2. Keeps(reg, r)
    BY <1>0, ExecutionRecorded
  <2> HIDE DEF r
  <2>3. Keeps(r, reg')
    BY <1>0, <2>1, <2>2, SessionUpdated DEF Keeps
  <2>4. Keeps(reg, reg')
    BY <2>2, <2>3, KeepsChain
  <2> QED
    BY <1>0, <2>1, <2>4, GotoStep
<1> QED
  BY <1>1, <1>2, <1>3, <1>4, <1>5, <1>6, <1>7

(* The intent to prompt is written; then the execution submits.             *)
LEMMA IntentWritten ==
    ASSUME ExecutorInv, NEW r, Keeps(reg, r), NEW a \in Action,
           pc[a]["execution"] \in Before,
           reg' = Executor!markPromptIntent(r, a), Executor!Goto(a, "execution", "sending"),
           UNCHANGED <<prompts, server, sent>>
    PROVE  ExecutorInv'
<1> DEFINE row == [r.d[a] EXCEPT !.intent = TRUE]
<1>1. /\ r \in Executor!RegistryType /\ r.d[a] \in Row
      /\ ~reg.d[a].intent /\ reg.d[a].state # "absent"
      /\ pc \in [Action -> [Executor!Thread -> Places]]
      /\ "execution" \in Executor!Thread /\ "sending" \in Places /\ "idle" \notin Before
  BY Typed DEF Keeps, ExecutorInv, ExecutorType, IntentPrecedesPrompt, NothingBeforeAcceptance,
               Executor!Thread, Places, Before
<1>2. row \in Row /\ row.intent = TRUE /\ row.state = r.d[a].state
  BY <1>1 DEF Row
<1>3. reg' = [r EXCEPT !.d[a] = row]
  BY DEF Executor!markPromptIntent
<1> HIDE DEF row
<1>4. /\ reg' \in Executor!RegistryType
      /\ reg'.d[a] = row
      /\ \A b \in Action : b # a => reg'.d[b] = r.d[b]
  <2>1. r.d \in [Action -> Row] /\ r = [r EXCEPT !.d = r.d]
    BY <1>1 DEF Executor!RegistryType, Row
  <2>2. reg'.d = [r.d EXCEPT ![a] = row]
    BY <1>1, <1>3 DEF Executor!RegistryType
  <2>3. /\ reg'.d \in [Action -> Row] /\ reg'.d[a] = row
        /\ \A b \in Action : b # a => reg'.d[b] = r.d[b]
    BY <1>2, <2>1, <2>2
  <2>4. reg' = [r EXCEPT !.d = reg'.d]
    BY <1>1, <1>3 DEF Executor!RegistryType
  <2>5. reg' \in Executor!RegistryType
    BY <1>1, <2>3, <2>4 DEF Executor!RegistryType, Row
  <2> QED
    BY <2>3, <2>5
<1>5. /\ pc' \in [Action -> [Executor!Thread -> Places]]
      /\ \A b \in Action : b # a => pc'[b] = pc[b]
      /\ pc'[a]["execution"] = "sending"
  BY <1>1 DEF Executor!Goto
<1>6. ExecutorType'
  BY <1>4, <1>5 DEF ExecutorInv, ExecutorType
<1>7. r.d[a].state # "absent"
  BY <1>1 DEF Keeps
<1>8. NothingBeforeAcceptance'
  BY <1>2, <1>4, <1>5, <1>7 DEF ExecutorInv, NothingBeforeAcceptance, Keeps
<1>9. prompts[a] = 0 /\ "sending" \notin Before
  BY <1>1 DEF ExecutorInv, IntentPrecedesPrompt, Before
<1>10. IntentPrecedesPrompt'
  BY <1>2, <1>4, <1>5, <1>9 DEF ExecutorInv, IntentPrecedesPrompt, Keeps
<1> QED
  BY <1>6, <1>8, <1>10 DEF ExecutorInv

(* sendInputAndCollect submits.                                             *)
LEMMA SubmitStep ==
    ASSUME ExecutorInv, NEW a \in Action, Executor!Submit(a)
    PROVE  ExecutorInv'
<1>1. /\ pc[a]["execution"] = "sending"
      /\ pc' = [pc EXCEPT ![a]["execution"] = "accepting"]
      /\ prompts' = [prompts EXCEPT ![a] = @ + 1]
      /\ UNCHANGED <<reg, sent, server>>
  BY DEF Executor!Submit, Executor!At, Executor!Goto
<1>2. /\ reg.d[a].intent /\ prompts[a] = 0 /\ reg.d[a].state # "absent"
      /\ pc \in [Action -> [Executor!Thread -> Places]] /\ prompts \in [Action -> Nat]
      /\ "execution" \in Executor!Thread /\ "accepting" \in Places
      /\ "accepting" \notin Before
  BY <1>1 DEF ExecutorInv, ExecutorType, IntentPrecedesPrompt, NothingBeforeAcceptance,
              Executor!Thread, Places, Before
<1>3. /\ pc' \in [Action -> [Executor!Thread -> Places]]
      /\ \A b \in Action : b # a => pc'[b] = pc[b] /\ prompts'[b] = prompts[b]
      /\ pc'[a]["execution"] = "accepting" /\ prompts'[a] = 1
      /\ prompts' \in [Action -> Nat]
  BY <1>1, <1>2
<1>4. ExecutorType'
  BY <1>1, <1>3 DEF ExecutorInv, ExecutorType
<1>5. NothingBeforeAcceptance'
  BY <1>1, <1>2, <1>3 DEF ExecutorInv, NothingBeforeAcceptance
<1>6. IntentPrecedesPrompt'
  BY <1>1, <1>2, <1>3 DEF ExecutorInv, IntentPrecedesPrompt
<1> QED
  BY <1>4, <1>5, <1>6 DEF ExecutorInv

(* The execution around its prompt: the gate, the recovery of a native       *)
(* process, and what becomes of the turn.                                    *)
LEMMA PromptStep ==
    ASSUME ExecutorInv, NEW a \in Action,
           \/ Executor!PromptGate(a) \/ Executor!Recovered(a) \/ Executor!NotRecovered(a)
           \/ Executor!Continued(a) \/ Executor!CannotSubmit(a) \/ Executor!PromptAccepted(a)
           \/ Executor!Collected(a)
    PROVE  ExecutorInv'
<1> USE DEF Executor!harness, Executor!link
<1>0. /\ "execution" \in Executor!Thread /\ "other" \in Executor!Fault
      /\ Before \subseteq Places /\ {"collecting", "idle", "report"} \subseteq Places
      /\ "collecting" \notin Before \cup {"sending"} /\ "idle" \notin Before \cup {"sending"}
      /\ {"observing", "quiet", "gate", "continuing"} \subseteq Before
      /\ Keeps(reg, reg) /\ reg \in Executor!RegistryType
      /\ pc[a]["execution"] \in Before => ~reg.d[a].intent
      /\ pc[a]["execution"] # "idle" => reg.d[a].state # "absent"
      /\ "running" \in Executor!SessionState
      /\ Executor!Observing \in {"observing", "quiet"}
      /\ server \in [Action -> ServerRow] /\ Executor!RunningFact \in Fact
  BY KeepsSame DEF Executor!Thread, Executor!Fault, Places, Before, ExecutorInv, ExecutorType,
                   NothingBeforeAcceptance, IntentPrecedesPrompt, Executor!SessionState,
                   Executor!Observing, Executor!RunningFact, Fact, Executor!DispatchState,
                   Executor!FailureFact
<1>1. CASE Executor!PromptGate(a)
  <2>1. pc[a]["execution"] = "gate" /\ UNCHANGED <<prompts, server, sent>>
    BY <1>1 DEF Executor!PromptGate, Executor!At
  <2>2. CASE Executor!Goto(a, "execution", Executor!Observing) /\ UNCHANGED reg
    BY <1>0, <2>1, <2>2, GotoStep
  <2>3. CASE /\ Executor!Goto(a, "execution", "sending")
             /\ reg' = Executor!markPromptIntent(reg, a)
    BY <1>0, <2>1, <2>3, IntentWritten
  <2> QED
    BY <1>1, <2>2, <2>3 DEF Executor!PromptGate
<1>3. CASE Executor!Recovered(a)
  <2> DEFINE x == reg.d[a].lineage
             q == IF native[x] = "idle" THEN Executor!recordExecution(reg, x)
                                        ELSE Executor!recordNativeSession(reg, x)
             r == Executor!resumeObservationUncertainty(q, a)
             where == CASE r.d[a].intent -> "collecting"
                        [] ~r.d[a].intent /\ Executor!AwaitsAuthorization(r.d[a], a)
                              -> Executor!Observing
                        [] ~r.d[a].intent /\ ~Executor!AwaitsAuthorization(r.d[a], a)
                              -> "continuing"
  <2>1. /\ pc[a]["execution"] = "recovering" /\ UNCHANGED <<prompts, sent>>
        /\ reg' = r /\ Executor!Goto(a, "execution", where)
        /\ \/ server' = server
           \/ server' = [server EXCEPT ![a] =
                            Executor!server_apply(server[a], Executor!RunningFact)]
    BY <1>3, Zenon DEF Executor!Recovered, Executor!At
  <2>2. Keeps(reg, q)
    BY <1>0, ExecutionRecorded, NativeRecorded
  <2> HIDE DEF q
  <2>3. q \in Executor!RegistryType
    BY <2>2 DEF Keeps
  <2>4. Keeps(q, r)
    BY <2>3, ObservationFailureRecorded
  <2>5. Keeps(reg, r)
    <3> HIDE DEF r
    <3> QED
      BY <2>2, <2>4, KeepsChain
  <2>6. r.d[a].intent = reg.d[a].intent /\ r.d[a].intent \in BOOLEAN
    <3>1. r \in Executor!RegistryType
      BY <2>5 DEF Keeps
    <3> HIDE DEF r
    <3> QED
      BY <2>5, <3>1 DEF Keeps, Executor!RegistryType
  <2> HIDE DEF r
  <2>7. /\ where \in Places
        /\ where = "collecting" \/ (where \in Before /\ ~reg.d[a].intent)
    <3>1. CASE r.d[a].intent
      BY <1>0, <3>1
    <3>2. CASE ~r.d[a].intent
      BY <1>0, <2>6, <3>2
    <3> QED
      BY <3>1, <3>2
  <2> HIDE DEF where
  <2>8. sent' \in [Action -> [Executor!Thread -> Fact]] /\ ExecutorType
    BY <2>1 DEF ExecutorInv, ExecutorType
  <2>9. /\ server' \in [Action -> ServerRow]
        /\ \A b \in Action : /\ server'[b].authorized => server[b].authorized
                             /\ server'[b].told => server[b].told
    BY <1>0, <2>1, <2>8, ServerTold
  <2> QED
    BY <1>0, <2>1, <2>5, <2>7, <2>8, <2>9, ThreadStep
<1>4. CASE Executor!NotRecovered(a)
  BY <1>0, <1>4, ThrowStep DEF Executor!NotRecovered, Executor!At
<1>5. CASE Executor!Continued(a)
  <2>1. pc[a]["execution"] = "continuing" /\ UNCHANGED <<prompts, server>>
    BY <1>5 DEF Executor!Continued, Executor!At
  <2>2. CASE Executor!Throw(a, "other")
    BY <1>0, <2>1, <2>2, ThrowStep
  <2>3. CASE ~Executor!Throw(a, "other")
    <3> DEFINE s == Executor!occupy(reg, reg.d[a].lineage, a)
               r == Executor!recordExecution(s, reg.d[a].lineage)
    <3>1. /\ reg' = Executor!markPromptIntent(r, a)
          /\ Executor!Goto(a, "execution", "sending") /\ UNCHANGED sent
      BY <1>5, <2>3 DEF Executor!Continued
    <3>2. Keeps(reg, s)
      BY <1>0, Occupied
    <3> HIDE DEF s
    <3>3. Keeps(s, r)
      BY <3>2, ExecutionRecorded DEF Keeps
    <3> HIDE DEF r
    <3>4. Keeps(reg, r)
      BY <3>2, <3>3, KeepsChain
    <3> QED
      BY <1>0, <2>1, <3>1, <3>4, IntentWritten
  <2> QED
    BY <2>2, <2>3
<1>6. CASE Executor!CannotSubmit(a)
  BY <1>0, <1>6, ThrowStep DEF Executor!CannotSubmit, Executor!At
<1>7. CASE Executor!PromptAccepted(a)
  <2> DEFINE x == reg.d[a].lineage
             p == Executor!markPromptAccepted(reg, a)
             q == Executor!markNativeActivity(p, a)
             r == Executor!recordNativeSession(q, x)
  <2>1. /\ pc[a]["execution"] = "accepting" /\ UNCHANGED <<prompts, sent>>
        /\ reg' = Executor!updateSession(r, x, "running")
        /\ Executor!Goto(a, "execution", "collecting")
        /\ \/ server' = server
           \/ server' = [server EXCEPT ![a] =
                            Executor!server_apply(server[a], Executor!RunningFact)]
    BY <1>7, Zenon DEF Executor!PromptAccepted, Executor!At
  <2>2. Keeps(reg, p)
    BY <1>0, <2>1, PromptFactsWritten
  <2> HIDE DEF p
  <2>3. p \in Executor!RegistryType
    BY <2>2 DEF Keeps
  <2>4. Keeps(p, q)
    BY <2>3, PromptFactsWritten
  <2> HIDE DEF q
  <2>5. q \in Executor!RegistryType
    BY <2>4 DEF Keeps
  <2>6. Keeps(q, r)
    BY <2>5, NativeRecorded
  <2> HIDE DEF r
  <2>7. r \in Executor!RegistryType
    BY <2>6 DEF Keeps
  <2>8. Keeps(r, reg')
    BY <1>0, <2>1, <2>7, SessionUpdated
  <2>9. Keeps(reg, reg')
    BY <2>2, <2>4, <2>6, <2>8, KeepsChain
  <2>10. sent' \in [Action -> [Executor!Thread -> Fact]] /\ ExecutorType
    BY <2>1 DEF ExecutorInv, ExecutorType
  <2>11. /\ server' \in [Action -> ServerRow]
         /\ \A b \in Action : /\ server'[b].authorized => server[b].authorized
                              /\ server'[b].told => server[b].told
    BY <1>0, <2>1, <2>10, ServerTold
  <2> QED
    BY <1>0, <2>1, <2>9, <2>10, <2>11, ThreadStep
<1>8. CASE Executor!Collected(a)
  <2>1. pc[a]["execution"] = "collecting" /\ UNCHANGED <<prompts, server>>
    BY <1>8 DEF Executor!Collected, Executor!At
  <2>2. CASE Executor!ThenReport(a, "execution", Executor!complete(reg, a))
    <3>1. Keeps(reg, Executor!complete(reg, a))
      BY <1>0, TerminalWritten DEF Executor!FailureFact
    <3> QED
      BY <1>0, <2>1, <2>2, <3>1, ReportStep
  <2>3. CASE Executor!failAndReport(a, "other")
    <3>1. Executor!Throw(a, "other")
      BY <1>8, <2>3 DEF Executor!Throw, Executor!Collected
    <3> QED
      BY <1>0, <2>1, <3>1, ThrowStep
  <2> QED
    BY <1>8, <2>2, <2>3 DEF Executor!Collected
<1> QED
  BY <1>1, <1>3, <1>4, <1>5, <1>6, <1>7, <1>8

(* A failure without an outcome for the server leaves the session            *)
(* unavailable.                                                             *)
LEMMA FailedUnavailable ==
    ASSUME NEW r \in Executor!RegistryType, NEW a \in Action, NEW failure \in Executor!FailureFact
    PROVE  \A x : Keeps(r, Executor!updateSession(Executor!fail(r, a, failure, FALSE), x,
                                                  "unavailable"))
<1> SUFFICES ASSUME NEW x
             PROVE  Keeps(r, Executor!updateSession(Executor!fail(r, a, failure, FALSE), x,
                                                    "unavailable"))
  OBVIOUS
<1> DEFINE s == Executor!fail(r, a, failure, FALSE)
<1>1. Keeps(r, s)
  BY TerminalWritten
<1> HIDE DEF s
<1>2. s \in Executor!RegistryType /\ "unavailable" \in Executor!SessionState
  BY <1>1 DEF Keeps, Executor!SessionState
<1>3. Keeps(s, Executor!updateSession(s, x, "unavailable"))
  BY <1>2, SessionUpdated
<1>4. Keeps(r, Executor!updateSession(s, x, "unavailable"))
  BY <1>1, <1>3, KeepsChain
<1> QED
  BY <1>4 DEF s

(* The prompt gate: what observes native activity, and the monitor.         *)
LEMMA GateStep ==
    ASSUME ExecutorInv, NEW a \in Action, NEW t \in Executor!Thread,
           \/ \E error \in Executor!Fault : Executor!HarnessFails(a, error)
           \/ Executor!SeesActivity(a, t) \/ Executor!FailContaminated(a, t)
           \/ Executor!SeesNothing(a, t) \/ Executor!stagePromptAuthorization(a)
           \/ Executor!startPromptGateMonitor(a) \/ Executor!MonitorLooks(a)
    PROVE  ExecutorInv'
<1> USE DEF Executor!harness, Executor!link
<1>0. /\ "execution" \in Executor!Thread /\ "monitor" \in Executor!Thread
      /\ Before \subseteq Places /\ {"watch", "idle"} \subseteq Places
      /\ {"observing", "quiet", "fencing", "staged"} \subseteq Before
      /\ "idle" \notin Before \cup {"sending"}
      /\ Keeps(reg, reg) /\ reg \in Executor!RegistryType
      /\ pc[a]["execution"] \in Before => ~reg.d[a].intent
      /\ pc[a][t] # "idle" => reg.d[a].state # "absent"
      /\ "waiting_for_human" \in Executor!SessionState
      /\ pc \in [Action -> [Executor!Thread -> Places]]
  BY KeepsSame DEF Executor!Thread, Places, Before, ExecutorInv, ExecutorType,
                   NothingBeforeAcceptance, IntentPrecedesPrompt, Executor!SessionState
<1>1. CASE \E error \in Executor!Fault : Executor!HarnessFails(a, error)
  <2>1. PICK error \in Executor!Fault : Executor!HarnessFails(a, error)
    BY <1>1
  <2> QED
    BY <2>1, ThrowStep DEF Executor!HarnessFails
<1>2. CASE Executor!SeesActivity(a, t)
  BY <1>0, <1>2, NativeRecorded, GotoStep DEF Executor!SeesActivity, Executor!At
<1>3. CASE Executor!FailContaminated(a, t)
  BY <1>0, <1>3, FailedUnavailable, ReportStep
     DEF Executor!FailContaminated, Executor!At, Executor!FailureFact
<1>4. CASE Executor!SeesNothing(a, t)
  BY <1>0, <1>4, GotoStep DEF Executor!SeesNothing, Executor!At
<1>5. CASE Executor!stagePromptAuthorization(a)
  BY <1>0, <1>5, SessionUpdated, GotoStep DEF Executor!stagePromptAuthorization, Executor!At
<1>6. CASE Executor!startPromptGateMonitor(a)
  <2>1. /\ pc[a]["execution"] = "staged" /\ UNCHANGED <<reg, prompts, sent, server>>
        /\ \/ pc' = [pc EXCEPT ![a]["execution"] = "idle", ![a]["monitor"] = "watch"]
           \/ Executor!Goto(a, "execution", "idle")
    BY <1>6 DEF Executor!startPromptGateMonitor, Executor!At
  <2>2. CASE Executor!Goto(a, "execution", "idle")
    BY <1>0, <2>1, <2>2, GotoStep
  <2>3. CASE pc' = [pc EXCEPT ![a]["execution"] = "idle", ![a]["monitor"] = "watch"]
    <3>1. /\ pc' \in [Action -> [Executor!Thread -> Places]]
          /\ \A b \in Action : b # a => pc'[b] = pc[b]
          /\ pc'[a]["execution"] = "idle"
      BY <1>0, <2>3
    <3>2. reg.d[a].state # "absent"
      BY <1>0, <2>1 DEF ExecutorInv, NothingBeforeAcceptance
    <3>3. ASSUME NEW b \in Action
          PROVE  /\ reg'.d[b].state = "absent" =>
                        /\ \A u \in Executor!Thread : pc'[b][u] = "idle"
                        /\ ~server'[b].authorized /\ ~server'[b].told
                 /\ \/ pc'[b]["execution"] = pc[b]["execution"]
                    \/ pc'[b]["execution"] \notin Before \cup {"sending"}
      BY <1>0, <2>1, <3>1, <3>2 DEF ExecutorInv, NothingBeforeAcceptance
    <3>4. /\ sent' \in [Action -> [Executor!Thread -> Fact]]
          /\ server' \in [Action -> ServerRow] /\ Keeps(reg, reg')
      BY <1>0, <2>1 DEF ExecutorInv, ExecutorType
    <3> QED
      BY <2>1, <3>1, <3>3, <3>4, Stepped
  <2> QED
    BY <2>1, <2>2, <2>3
<1>7. CASE Executor!MonitorLooks(a)
  <2>1. /\ pc[a]["monitor"] = "watch" /\ UNCHANGED <<reg, prompts, sent, server>>
        /\ Executor!Goto(a, "monitor", "idle") \/ Executor!Goto(a, "monitor", "observing")
    BY <1>7 DEF Executor!MonitorLooks, Executor!At
  <2> QED
    BY <1>0, <2>1, GotoStep
<1> QED
  BY <1>1, <1>2, <1>3, <1>4, <1>5, <1>6, <1>7


(* The execution of an accepted action is started, unless it is active.     *)
LEMMA StartedStep ==
    ASSUME ExecutorInv, Keeps(reg, reg'), UNCHANGED <<prompts, sent>>,
           NEW a \in Action, reg'.d[a].state # "absent",
           NEW p \in [Action -> [Executor!Thread -> Places]],
           p[a]["execution"] = pc[a]["execution"], \A b \in Action : b # a => p[b] = pc[b],
           pc' = p \/ pc' = Executor!Started(p, a),
           server' \in [Action -> ServerRow],
           \A b \in Action : /\ server'[b].authorized => server[b].authorized
                             /\ server'[b].told => server[b].told
    PROVE  ExecutorInv'
<1>0. "execution" \in Executor!Thread /\ "loop" \in Places /\ "loop" \notin Before \cup {"sending"}
  BY DEF Executor!Thread, Places, Before
<1>1. /\ pc' \in [Action -> [Executor!Thread -> Places]]
      /\ \A b \in Action : b # a => pc'[b] = pc[b]
      /\ pc'[a]["execution"] \in {pc[a]["execution"], "loop"}
  <2>1. pc' = p \/ pc' = [p EXCEPT ![a]["execution"] = "loop"]
    BY DEF Executor!Started
  <2>2. CASE pc' = p
    BY <2>2
  <2>3. CASE pc' = [p EXCEPT ![a]["execution"] = "loop"]
    BY <1>0, <2>3
  <2> QED
    BY <2>1, <2>2, <2>3
<1>2. sent' \in [Action -> [Executor!Thread -> Fact]]
  BY DEF ExecutorInv, ExecutorType
<1>3. ASSUME NEW b \in Action
      PROVE  /\ reg'.d[b].state = "absent" =>
                    /\ \A u \in Executor!Thread : pc'[b][u] = "idle"
                    /\ ~server'[b].authorized /\ ~server'[b].told
             /\ \/ pc'[b]["execution"] = pc[b]["execution"]
                \/ pc'[b]["execution"] \notin Before \cup {"sending"}
  BY <1>0, <1>1 DEF ExecutorInv, NothingBeforeAcceptance, Keeps
<1> QED
  BY <1>1, <1>2, <1>3, Stepped

(* The handlers of authorize_dispatch_prompt, cancel_dispatch and            *)
(* retire_dispatch_for_recovery.                                            *)
LEMMA CommandStep ==
    ASSUME ExecutorInv, NEW a \in Action, Executor!Handlers(a)
    PROVE  ExecutorInv'
<1> USE DEF Executor!harness, Executor!link
<1>0. /\ {"execution", "monitor", "authorize", "cancel", "retire"} \subseteq Executor!Thread
      /\ {"idle", "stopping", "quiet", "observing", "interrupting", "retiring"} \subseteq Places
      /\ Keeps(reg, reg) /\ reg \in Executor!RegistryType
      /\ \A t \in Executor!Thread : pc[a][t] # "idle" => reg.d[a].state # "absent"
      /\ reg.d[a].state = "absent" => ~server[a].told
      /\ "starting" \in Executor!SessionState
      /\ {"cancelled", "operator"} \subseteq Executor!FailureFact
      /\ Executor!Observing \in {"observing", "quiet"}
      /\ pc \in [Action -> [Executor!Thread -> Places]]
      /\ sent \in [Action -> [Executor!Thread -> Fact]]
      /\ server \in [Action -> ServerRow]
  BY KeepsSame DEF Executor!Thread, Places, ExecutorInv, ExecutorType, NothingBeforeAcceptance,
                   Executor!SessionState, Executor!FailureFact, Executor!Observing
<1>1. CASE Executor!AuthorizeCommand(a)
  <2>1. /\ server[a].told /\ pc[a]["authorize"] = "idle"
        /\ server' = [server EXCEPT ![a].told = FALSE]
        /\ pc' = pc \/ Executor!Goto(a, "authorize", "stopping")
        /\ UNCHANGED <<reg, prompts, sent>>
    BY <1>1 DEF Executor!AuthorizeCommand, Executor!At
  <2> DEFINE s == [server[a] EXCEPT !.told = FALSE]
  <2>2. s \in ServerRow /\ s.authorized = server[a].authorized /\ ~s.told
    BY <1>0 DEF ServerRow
  <2>3. server' = [server EXCEPT ![a] = s]
    BY <2>1
  <2> HIDE DEF s
  <2>4. /\ server' \in [Action -> ServerRow]
        /\ \A b \in Action : /\ server'[b].authorized => server[b].authorized
                             /\ server'[b].told => server[b].told
    <3>1. \A b \in Action : server'[b] = IF b = a THEN s ELSE server[b]
      BY <1>0, <2>3
    <3> QED
      BY <1>0, <2>2, <2>3, <3>1
  <2>5. reg'.d[a].state # "absent"
    BY <1>0, <2>1
  <2>6. /\ sent' \in [Action -> [Executor!Thread -> Fact]] /\ Keeps(reg, reg')
    BY <1>0, <2>1
  <2>7. CASE pc' = pc
    BY <1>0, <2>1, <2>4, <2>5, <2>6, <2>7, StartedStep
  <2>8. CASE Executor!Goto(a, "authorize", "stopping")
    BY <1>0, <2>1, <2>4, <2>5, <2>6, <2>8, ThreadStep
  <2> QED
    BY <2>1, <2>7, <2>8
<1>2. CASE Executor!AuthorizeObserves(a)
  <2>1. /\ pc[a]["authorize"] = "stopping" /\ UNCHANGED <<reg, prompts, sent, server>>
        /\ Executor!Goto(a, "authorize", "quiet") \/ Executor!Goto(a, "authorize", "observing")
    BY <1>0, <1>2 DEF Executor!AuthorizeObserves, Executor!MonitorStopped, Executor!At
  <2> QED
    BY <1>0, <2>1, GotoStep
<1>3. CASE Executor!AuthorizeStarts(a)
  <2> DEFINE p == [pc EXCEPT ![a]["authorize"] = "idle"]
  <2>1. /\ pc[a]["authorize"] = "quiet" /\ UNCHANGED <<prompts, sent, server>>
        /\ reg' = Executor!Authorized(reg, a) /\ pc' = Executor!Started(p, a)
    BY <1>3 DEF Executor!AuthorizeStarts, Executor!At
  <2>2. Keeps(reg, reg')
    <3>1. "other" \in Executor!Fault
      BY DEF Executor!Fault
    <3> QED
      BY <1>0, <2>1, <3>1, Composed
  <2>3. reg'.d[a].state # "absent"
    BY <1>0, <2>1, <2>2 DEF Keeps
  <2>4. /\ p \in [Action -> [Executor!Thread -> Places]]
        /\ p[a]["execution"] = pc[a]["execution"] /\ \A b \in Action : b # a => p[b] = pc[b]
    BY <1>0
  <2> HIDE DEF p
  <2>5. server' \in [Action -> ServerRow]
    BY <1>0, <2>1
  <2> QED
    BY <2>1, <2>2, <2>3, <2>4, <2>5, StartedStep
<1>4. CASE Executor!CancelCommand(a)
  BY <1>0, <1>4, GotoStep DEF Executor!CancelCommand, Executor!At
<1>5. CASE Executor!cancelOnce(a)
  <2>1. pc[a]["cancel"] = "stopping" /\ UNCHANGED <<prompts, server>>
    BY <1>5 DEF Executor!cancelOnce, Executor!MonitorStopped, Executor!At
  <2>2. Keeps(reg, Executor!cancel(reg, a))
    BY <1>0, TerminalWritten
  <2>3. CASE Executor!Goto(a, "cancel", "idle") /\ UNCHANGED <<reg, sent>>
    BY <1>0, <2>1, <2>3, GotoStep
  <2>4. CASE Executor!ThenReport(a, "cancel", Executor!cancel(reg, a))
    BY <1>0, <2>1, <2>2, <2>4, ReportStep
  <2>5. CASE /\ reg' = Executor!cancel(reg, a) /\ Executor!Goto(a, "cancel", "interrupting")
             /\ UNCHANGED sent
    BY <1>0, <2>1, <2>2, <2>5, GotoStep
  <2> QED
    BY <1>5, <2>3, <2>4, <2>5 DEF Executor!cancelOnce
<1>6. CASE Executor!CancelInterrupts(a)
  BY <1>0, <1>6, ReportStep DEF Executor!CancelInterrupts, Executor!At
<1>7. CASE Executor!RetireCommand(a)
  <2>1. reg.d[a].state # "absent" /\ UNCHANGED <<prompts, server>>
    BY <1>7 DEF Executor!RetireCommand
  <2>2. CASE Executor!ThenReport(a, "retire", reg)
    BY <1>0, <2>1, <2>2, ReportStep
  <2>3. CASE Executor!Goto(a, "retire", "retiring") /\ UNCHANGED <<reg, sent>>
    BY <1>0, <2>1, <2>3, GotoStep
  <2> QED
    BY <1>7, <2>2, <2>3 DEF Executor!RetireCommand
<1>8. CASE Executor!retireForRecovery(a)
  BY <1>0, <1>8, FailedUnavailable, ReportStep DEF Executor!retireForRecovery, Executor!At
<1> QED
  BY <1>1, <1>2, <1>3, <1>4, <1>5, <1>6, <1>7, <1>8 DEF Executor!Handlers


(* Reports, their replies, and the loss of the connection.                  *)
LEMMA ReportingStep ==
    ASSUME ExecutorInv, NEW a \in Action, NEW t \in Executor!Thread,
           Executor!Report(a, t) \/ Executor!Acknowledged(a, t)
    PROVE  ExecutorInv'
<1> USE DEF Executor!harness, Executor!link
<1>0. /\ {"idle", "acking"} \subseteq Places
      /\ "idle" \notin Before \cup {"sending"} /\ "acking" \notin Before \cup {"sending"}
      /\ Keeps(reg, reg) /\ reg \in Executor!RegistryType
      /\ sent \in [Action -> [Executor!Thread -> Fact]] /\ Executor!NoFact \in Fact
      /\ "other" \in Executor!Fault /\ "starting" \in Executor!SessionState
  BY KeepsSame DEF Places, Before, ExecutorInv, ExecutorType, Executor!NoFact, Fact,
                   Executor!DispatchState, Executor!FailureFact, Executor!Fault,
                   Executor!SessionState
<1>1. CASE Executor!Report(a, t)
  <2> DEFINE where == IF sent[a][t].state \in Executor!Terminal THEN "acking" ELSE "idle"
  <2>1. /\ pc[a][t] # "idle" /\ UNCHANGED <<reg, prompts>>
        /\ sent' = [sent EXCEPT ![a][t] = Executor!NoFact]
        /\ Executor!Goto(a, t, where) \/ Executor!Goto(a, t, "idle")
        /\ \/ server' = server
           \/ server' = [server EXCEPT ![a] = Executor!server_apply(server[a], sent[a][t])]
    BY <1>1 DEF Executor!Report, Executor!At
  <2>2. sent[a][t] \in Fact /\ sent' \in [Action -> [Executor!Thread -> Fact]]
    BY <1>0, <2>1
  <2>3. /\ server' \in [Action -> ServerRow]
        /\ \A b \in Action : /\ server'[b].authorized => server[b].authorized
                             /\ server'[b].told => server[b].told
    BY <2>1, <2>2, ServerTold DEF ExecutorInv
  <2>4. /\ where \in Places /\ where \notin Before \cup {"sending"}
    BY <1>0
  <2> HIDE DEF where
  <2> QED
    BY <1>0, <2>1, <2>2, <2>3, <2>4, ThreadStep
<1>2. CASE Executor!Acknowledged(a, t)
  <2>1. /\ pc[a][t] # "idle" /\ UNCHANGED <<prompts, sent, server>>
        /\ reg' = Executor!acknowledgeTerminal(reg, a) /\ Executor!Goto(a, t, "idle")
    BY <1>2 DEF Executor!Acknowledged, Executor!At
  <2>2. Keeps(reg, reg')
    BY <1>0, <2>1, Composed
  <2> QED
    BY <1>0, <2>1, <2>2, GotoStep
<1> QED
  BY <1>1, <1>2

(* Disconnect: the replies and commands under way are lost.                  *)
LEMMA DisconnectStep ==
    ASSUME ExecutorInv, Executor!Disconnect
    PROVE  ExecutorInv'
<1> USE DEF Executor!harness
<1>1. /\ Keeps(reg, reg) /\ UNCHANGED <<reg, prompts, sent>>
      /\ pc' = [a \in Action |-> [t \in Executor!Thread |->
                   IF pc[a][t] = "acking" THEN "idle" ELSE pc[a][t]]]
      /\ server' = [a \in Action |-> [server[a] EXCEPT !.told = FALSE]]
  BY KeepsSame DEF Executor!Disconnect, ExecutorInv, ExecutorType
<1>2. /\ pc \in [Action -> [Executor!Thread -> Places]] /\ server \in [Action -> ServerRow]
      /\ sent' \in [Action -> [Executor!Thread -> Fact]]
      /\ "idle" \in Places /\ "idle" \notin Before \cup {"sending"}
      /\ "execution" \in Executor!Thread
  BY <1>1 DEF ExecutorInv, ExecutorType, Places, Before, Executor!Thread
<1>3. /\ pc' \in [Action -> [Executor!Thread -> Places]]
      /\ \A a \in Action : \A t \in Executor!Thread : pc'[a][t] \in {pc[a][t], "idle"}
  BY <1>1, <1>2
<1>4. \A a \in Action : /\ [server[a] EXCEPT !.told = FALSE] \in ServerRow
                        /\ [server[a] EXCEPT !.told = FALSE].authorized = server[a].authorized
                        /\ ~[server[a] EXCEPT !.told = FALSE].told
  BY <1>2 DEF ServerRow
<1>5. /\ server' \in [Action -> ServerRow]
      /\ \A a \in Action : server'[a].authorized = server[a].authorized /\ ~server'[a].told
  BY <1>1, <1>4
<1>6. ASSUME NEW a \in Action
      PROVE  /\ reg'.d[a].state = "absent" =>
                    /\ \A t \in Executor!Thread : pc'[a][t] = "idle"
                    /\ ~server'[a].authorized /\ ~server'[a].told
             /\ \/ pc'[a]["execution"] = pc[a]["execution"]
                \/ pc'[a]["execution"] \notin Before \cup {"sending"}
  BY <1>1, <1>2, <1>3, <1>5 DEF ExecutorInv, NothingBeforeAcceptance
<1> QED
  BY <1>1, <1>2, <1>3, <1>5, <1>6, Stepped

(* recoverAll: the Worker restarts, its registry is what it wrote, and       *)
(* every execution starts again.                                             *)
LEMMA RestartStep ==
    ASSUME ExecutorInv, Executor!recoverAll
    PROVE  ExecutorInv'
<1> USE DEF Executor!harness
<1> DEFINE l == [x \in Lineage |->
             IF \E a \in Executor!Known :
                   /\ reg.d[a].lineage = x /\ Executor!Settled(reg.d[a])
                   /\ ~(reg.d[a].failure = "cancelled" /\ ~reg.d[a].acked)
                   /\ reg.l[x].active \in {NoAction, a}
             THEN [reg.l[x] EXCEPT !.session = IF native[x] = "none" THEN "unavailable"
                                               ELSE "retained"]
             ELSE reg.l[x]]
<1>1. /\ UNCHANGED prompts /\ reg' = [reg EXCEPT !.l = l]
      /\ pc' = [a \in Action |-> [t \in Executor!Thread |->
                   IF t = "execution" /\ a \in Executor!Known /\ ~Executor!Settled(reg.d[a])
                   THEN "loop" ELSE "idle"]]
      /\ server' = [a \in Action |-> [server[a] EXCEPT !.told = FALSE]]
      /\ sent' = [a \in Action |-> [t \in Executor!Thread |-> Executor!NoFact]]
  BY DEF Executor!recoverAll
<1>2. /\ server \in [Action -> ServerRow] /\ reg \in Executor!RegistryType
      /\ Executor!NoFact \in Fact
      /\ "idle" \in Places /\ "idle" \notin Before \cup {"sending"}
      /\ "loop" \in Places /\ "loop" \notin Before \cup {"sending"}
      /\ "execution" \in Executor!Thread
  BY DEF ExecutorInv, ExecutorType, Places, Before, Executor!Thread, Executor!NoFact, Fact,
         Executor!DispatchState, Executor!FailureFact
<1>3. l \in [Lineage -> Line]
  <2>1. ASSUME NEW x \in Lineage
        PROVE  \A state \in {"unavailable", "retained"} :
                  [reg.l[x] EXCEPT !.session = state] \in Line
    <3>1. reg.l[x] \in Line
      BY <1>2, Typed
    <3> QED
      BY <3>1 DEF Line, Executor!SessionState
  <2>2. \A x \in Lineage : reg.l[x] \in Line
    BY <1>2, Typed
  <2> QED
    BY <2>1, <2>2
<1> HIDE DEF l
<1>4. Keeps(reg, reg') /\ reg'.d = reg.d
  BY <1>1, <1>2, <1>3, LinesWritten DEF Executor!RegistryType
<1>5. /\ pc' \in [Action -> [Executor!Thread -> Places]]
      /\ \A a \in Action : \A t \in Executor!Thread :
            pc'[a][t] = "idle" \/ (pc'[a][t] = "loop" /\ reg.d[a].state # "absent")
  BY <1>1, <1>2 DEF Executor!Known
<1>6. \A a \in Action : /\ [server[a] EXCEPT !.told = FALSE] \in ServerRow
                        /\ [server[a] EXCEPT !.told = FALSE].authorized = server[a].authorized
                        /\ ~[server[a] EXCEPT !.told = FALSE].told
  BY <1>2 DEF ServerRow
<1>7. /\ server' \in [Action -> ServerRow]
      /\ \A a \in Action : server'[a].authorized = server[a].authorized /\ ~server'[a].told
  BY <1>1, <1>6
<1>8. ASSUME NEW a \in Action
      PROVE  /\ reg'.d[a].state = "absent" =>
                    /\ \A t \in Executor!Thread : pc'[a][t] = "idle"
                    /\ ~server'[a].authorized /\ ~server'[a].told
             /\ pc'[a]["execution"] \notin Before \cup {"sending"}
  BY <1>2, <1>4, <1>5, <1>7 DEF ExecutorInv, NothingBeforeAcceptance
<1>9. sent' \in [Action -> [Executor!Thread -> Fact]]
  BY <1>1, <1>2
<1> QED
  BY <1>1, <1>4, <1>5, <1>7, <1>8, <1>9, Stepped


(* prompt_authorizations_for_worker names authorized dispatches only.        *)
LEMMA AuthorizationsRead ==
    ASSUME NEW s \in ServerRow
    PROVE  /\ Executor!prompt_authorizations(s) \in ServerRow
           /\ Executor!prompt_authorizations(s).authorized = s.authorized
           /\ Executor!prompt_authorizations(s).told => s.authorized
<1> DEFINE v == s.authorized /\ s.state \in {"acknowledged", "running"}
<1>1. v \in BOOLEAN
  OBVIOUS
<1>2. Executor!prompt_authorizations(s) = [s EXCEPT !.told = v]
  BY DEF Executor!prompt_authorizations
<1>3. v => s.authorized
  OBVIOUS
<1> HIDE DEF v
<1>4. [s EXCEPT !.told = v] \in ServerRow
  BY <1>1 DEF ServerRow
<1>5. /\ [s EXCEPT !.told = v].authorized = s.authorized
      /\ [s EXCEPT !.told = v].told = v
  BY DEF ServerRow
<1> QED
  BY <1>2, <1>3, <1>4, <1>5

(* Reconcile: the facts of the registry are applied and what is final is     *)
(* acknowledged.                                                             *)
LEMMA ReconcileStep ==
    ASSUME ExecutorInv, Executor!Reconcile
    PROVE  ExecutorInv'
<1> USE DEF Executor!harness
<1> DEFINE row(a) == IF Executor!ReconciledTerminal(a)
                     THEN Executor!acknowledgeServerTerminal(reg, a).d[a] ELSE reg.d[a]
           applied(a) ==
               IF a \in Executor!Known
                  /\ ~Executor!reconcile_defers(server[a], Executor!FactOf(reg, a))
               THEN Executor!server_apply(server[a], Executor!FactOf(reg, a)) ELSE server[a]
           told(a) == Executor!prompt_authorizations(applied(a))
<1>1. /\ UNCHANGED <<prompts, pc, sent>>
      /\ reg' = [reg EXCEPT !.d = [a \in Action |-> row(a)]]
      /\ server' = [a \in Action |-> told(a)]
  BY DEF Executor!Reconcile
<1>2. /\ server \in [Action -> ServerRow] /\ reg \in Executor!RegistryType
      /\ pc' \in [Action -> [Executor!Thread -> Places]]
      /\ sent' \in [Action -> [Executor!Thread -> Fact]]
  BY <1>1 DEF ExecutorInv, ExecutorType
<1>3. ASSUME NEW a \in Action
      PROVE  /\ row(a) \in Row /\ row(a).intent = reg.d[a].intent
             /\ row(a).state = "absent" =>
                  reg.d[a].state = "absent" /\ row(a).lineage = reg.d[a].lineage
  <2>1. Keeps(reg, Executor!acknowledgeServerTerminal(reg, a))
    BY <1>2, ObservationFailureRecorded
  <2>2. Executor!acknowledgeServerTerminal(reg, a) \in Executor!RegistryType
    BY <2>1 DEF Keeps
  <2>3. /\ Executor!acknowledgeServerTerminal(reg, a).d[a] \in Row
        /\ reg.d[a] \in Row
    BY <1>2, <2>2, Typed
  <2> QED
    BY <2>1, <2>3 DEF Keeps
<1>4. ASSUME NEW a \in Action
      PROVE  /\ told(a) \in ServerRow
             /\ ~server[a].authorized => ~told(a).authorized /\ ~told(a).told
  <2>1. Executor!FactOf(reg, a) \in Fact /\ server[a] \in ServerRow
    BY <1>2, Facts
  <2>2. applied(a) \in ServerRow /\ applied(a).authorized = server[a].authorized
    BY <2>1, ServerApplied
  <2> HIDE DEF applied
  <2> QED
    BY <2>2, AuthorizationsRead
<1> HIDE DEF row, told
<1>5. Keeps(reg, reg')
  <2>1. /\ reg'.d = [a \in Action |-> row(a)]
        /\ reg' = [reg EXCEPT !.d = reg'.d]
    BY <1>1, <1>2 DEF Executor!RegistryType
  <2>2. reg'.d \in [Action -> Row] /\ \A a \in Action : reg'.d[a] = row(a)
    BY <1>3, <2>1
  <2>3. reg' \in Executor!RegistryType
    BY <1>2, <2>1, <2>2 DEF Executor!RegistryType, Row
  <2> QED
    BY <1>3, <2>2, <2>3 DEF Keeps
<1>6. /\ server' \in [Action -> ServerRow]
      /\ \A a \in Action :
            ~server[a].authorized => ~server'[a].authorized /\ ~server'[a].told
  BY <1>1, <1>4
<1>7. ASSUME NEW a \in Action
      PROVE  /\ reg'.d[a].state = "absent" =>
                    /\ \A t \in Executor!Thread : pc'[a][t] = "idle"
                    /\ ~server'[a].authorized /\ ~server'[a].told
             /\ pc'[a]["execution"] = pc[a]["execution"]
  <2>1. ASSUME reg'.d[a].state = "absent"
        PROVE  ~server[a].authorized /\ \A t \in Executor!Thread : pc[a][t] = "idle"
    <3>1. reg.d[a].state = "absent"
      BY <1>5, <2>1 DEF Keeps
    <3> QED
      BY <3>1 DEF ExecutorInv, NothingBeforeAcceptance
  <2>2. ~server[a].authorized => ~server'[a].authorized /\ ~server'[a].told
    BY <1>6
  <2> QED
    BY <1>1, <2>1, <2>2
<1> QED
  BY <1>1, <1>2, <1>5, <1>6, <1>7, Stepped

(* execute_action, and what operators do to the server's row.               *)
LEMMA OperatorStep ==
    ASSUME Executor!RegistryAssumption, ExecutorInv, online \in BOOLEAN, NEW a \in Action,
           \/ Executor!ExecuteAction(a) \/ Executor!OperatorAuthorizes(a)
           \/ Executor!OperatorCancels(a) \/ Executor!OperatorRecovers(a)
    PROVE  ExecutorInv'
<1> USE DEF Executor!harness, Executor!link
<1>0. /\ Keeps(reg, reg) /\ reg \in Executor!RegistryType
      /\ pc \in [Action -> [Executor!Thread -> Places]]
      /\ sent \in [Action -> [Executor!Thread -> Fact]]
      /\ server \in [Action -> ServerRow] /\ server[a] \in ServerRow
  BY KeepsSame DEF ExecutorInv, ExecutorType
<1>1. ASSUME NEW s, s \in ServerRow, server' = [server EXCEPT ![a] = s]
      PROVE  /\ server' \in [Action -> ServerRow]
             /\ \A b \in Action : server'[b] = IF b = a THEN s ELSE server[b]
  BY <1>0, <1>1
<1>2. ASSUME NEW s, s \in ServerRow, server' = [server EXCEPT ![a] = s],
             UNCHANGED <<reg, pc, sent, prompts>>,
             reg.d[a].state # "absent"
             \/ (s.authorized = server[a].authorized /\ s.told = server[a].told)
      PROVE  ExecutorInv'
  <2>1. /\ server' \in [Action -> ServerRow]
        /\ \A b \in Action : server'[b] = IF b = a THEN s ELSE server[b]
    BY <1>1, <1>2
  <2>2. /\ pc' \in [Action -> [Executor!Thread -> Places]]
        /\ sent' \in [Action -> [Executor!Thread -> Fact]] /\ Keeps(reg, reg')
    BY <1>0, <1>2
  <2>3. ASSUME NEW b \in Action
        PROVE  /\ reg'.d[b].state = "absent" =>
                      /\ \A t \in Executor!Thread : pc'[b][t] = "idle"
                      /\ ~server'[b].authorized /\ ~server'[b].told
               /\ pc'[b]["execution"] = pc[b]["execution"]
    BY <1>2, <2>1 DEF ExecutorInv, NothingBeforeAcceptance
  <2> QED
    BY <1>2, <2>1, <2>2, <2>3, Stepped
<1>3. CASE Executor!ExecuteAction(a)
  <2>1. CASE Executor!can_accept(reg, a)
    <3> DEFINE s == [server[a] EXCEPT !.state = "acknowledged"]
               r == Executor!accept(reg, a)
    <3>1. /\ reg' = r /\ UNCHANGED <<prompts, sent>>
          /\ server' = server \/ server' = [server EXCEPT ![a] = s]
          /\ pc' = pc \/ pc' = Executor!Started(pc, a)
      BY <1>3, <2>1 DEF Executor!ExecuteAction
    <3>2. Keeps(reg, r) /\ r.d[a].state # "absent"
      BY <1>0, <2>1, Accepted DEF ExecutorInv, NothingBeforeAcceptance
    <3>3. s \in ServerRow /\ s.authorized = server[a].authorized /\ s.told = server[a].told
      BY <1>0 DEF ServerRow
    <3> HIDE DEF s, r
    <3>4. /\ server' \in [Action -> ServerRow]
          /\ \A b \in Action : /\ server'[b].authorized => server[b].authorized
                               /\ server'[b].told => server[b].told
      BY <1>0, <1>1, <3>1, <3>3
    <3> QED
      BY <1>0, <3>1, <3>2, <3>4, StartedStep
  <2>2. CASE ~Executor!can_accept(reg, a)
    <3> DEFINE s == [server[a] EXCEPT !.state = "failed", !.failure = "other"]
    <3>1. UNCHANGED <<reg, pc, prompts, sent>> /\ server' = [server EXCEPT ![a] = s]
      BY <1>3, <2>2 DEF Executor!ExecuteAction
    <3>2. s \in ServerRow /\ s.authorized = server[a].authorized /\ s.told = server[a].told
      BY <1>0 DEF ServerRow, Executor!DispatchState, Executor!FailureFact
    <3> HIDE DEF s
    <3> QED
      BY <1>2, <3>1, <3>2
  <2> QED
    BY <2>1, <2>2
<1>4. CASE Executor!OperatorAuthorizes(a)
  <2> DEFINE s == [server[a] EXCEPT !.authorized = TRUE, !.told = online]
  <2>1. UNCHANGED <<reg, pc, prompts, sent>> /\ server' = [server EXCEPT ![a] = s]
    BY <1>4 DEF Executor!OperatorAuthorizes
  <2>2. s \in ServerRow
    BY <1>0 DEF ServerRow
  <2>3. reg.d[a].state # "absent"
    BY <1>4 DEF Executor!OperatorAuthorizes, ExecutorInv, NothingBeforeAcceptance
  <2> HIDE DEF s
  <2> QED
    BY <1>2, <2>1, <2>2, <2>3
<1>5. CASE Executor!OperatorCancels(a)
  <2> DEFINE s == [server[a] EXCEPT !.cancel = TRUE]
  <2>1. UNCHANGED <<reg, pc, prompts, sent>> /\ server' = [server EXCEPT ![a] = s]
    BY <1>5 DEF Executor!OperatorCancels
  <2>2. s \in ServerRow /\ s.authorized = server[a].authorized /\ s.told = server[a].told
    BY <1>0 DEF ServerRow
  <2> HIDE DEF s
  <2> QED
    BY <1>2, <2>1, <2>2
<1>6. CASE Executor!OperatorRecovers(a)
  <2> DEFINE s == [server[a] EXCEPT !.retire = TRUE]
  <2>1. UNCHANGED <<reg, pc, prompts, sent>> /\ server' = [server EXCEPT ![a] = s]
    BY <1>6 DEF Executor!OperatorRecovers
  <2>2. s \in ServerRow /\ s.authorized = server[a].authorized /\ s.told = server[a].told
    BY <1>0 DEF ServerRow
  <2> HIDE DEF s
  <2> QED
    BY <1>2, <2>1, <2>2
<1> QED
  BY <1>3, <1>4, <1>5, <1>6

(* Steps that leave the registry, the threads and the server alone.         *)
LEMMA AsideStep ==
    ASSUME ExecutorInv, UNCHANGED <<reg, pc, sent, prompts, server>>
    PROVE  ExecutorInv'
  BY DEF ExecutorInv, ExecutorType, NothingBeforeAcceptance, IntentPrecedesPrompt

(* Every step of the executor, the server and the operators.                 *)
LEMMA ExecutorStep ==
    ASSUME Executor!RegistryAssumption, ExecutorInv, online \in BOOLEAN,
           [Executor!Next]_Executor!vars
    PROVE  ExecutorInv'
<1>1. CASE UNCHANGED Executor!vars
  BY <1>1, AsideStep DEF Executor!vars
<1>2. CASE \E a \in Action : Executor!ExecuteAction(a) \/ Executor!OperatorAuthorizes(a)
                             \/ Executor!OperatorCancels(a) \/ Executor!OperatorRecovers(a)
  BY <1>2, OperatorStep
<1>3. CASE \E a \in Action : Executor!Execution(a)
  <2>1. PICK a \in Action : Executor!Execution(a)
    BY <1>3
  <2>2. "monitor" \in Executor!Thread
    BY DEF Executor!Thread
  <2> QED
    BY <2>1, <2>2, StartStep, PromptStep, SubmitStep, GateStep DEF Executor!Execution
<1>4. CASE \E a \in Action : Executor!Handlers(a)
  BY <1>4, CommandStep
<1>5. CASE \E a \in Action : \E error \in Executor!Fault : Executor!HarnessFails(a, error)
  <2>1. "monitor" \in Executor!Thread
    BY DEF Executor!Thread
  <2> QED
    BY <1>5, <2>1, GateStep
<1>6. CASE \E a \in Action : \E t \in Executor!Thread :
             \/ Executor!SeesActivity(a, t) \/ Executor!FailContaminated(a, t)
             \/ Executor!SeesNothing(a, t) \/ Executor!Report(a, t) \/ Executor!Acknowledged(a, t)
  BY <1>6, GateStep, ReportingStep
<1>7. CASE \E x \in Lineage : Executor!NativeTurnEnds(x) \/ Executor!HumanTypes(x)
  BY <1>7, AsideStep DEF Executor!NativeTurnEnds, Executor!HumanTypes
<1>8. CASE Executor!Disconnect
  BY <1>8, DisconnectStep
<1>9. CASE Executor!Reconcile
  BY <1>9, ReconcileStep
<1>10. CASE Executor!recoverAll
  BY <1>10, RestartStep
<1> QED
  BY <1>1, <1>2, <1>3, <1>4, <1>5, <1>6, <1>7, <1>8, <1>9, <1>10 DEF Executor!Next


LinkType == online \in BOOLEAN

(* Disconnect, Reconcile and recoverAll say whether the connection is up.   *)
LEMMA LinkStep ==
    ASSUME LinkType, [Executor!Next]_Executor!vars
    PROVE  LinkType'
<1> USE DEF Executor!link, LinkType
<1>1. ASSUME NEW a \in Action,
             \/ Executor!ExecuteAction(a) \/ Executor!OperatorAuthorizes(a)
             \/ Executor!OperatorCancels(a) \/ Executor!OperatorRecovers(a)
             \/ Executor!Execution(a) \/ Executor!Handlers(a)
             \/ \E error \in Executor!Fault : Executor!HarnessFails(a, error)
             \/ \E t \in Executor!Thread :
                   \/ Executor!SeesActivity(a, t) \/ Executor!FailContaminated(a, t)
                   \/ Executor!SeesNothing(a, t) \/ Executor!Report(a, t)
                   \/ Executor!Acknowledged(a, t)
      PROVE  online' = online
  <2>1. CASE Executor!Execution(a)
    BY <2>1 DEF Executor!Execution, Executor!ReportSettled, Executor!StartRecovery,
         Executor!StartAdoption, Executor!StartExecution, Executor!AdoptPrepared,
         Executor!ReplacePrepared, Executor!HarnessStarts, Executor!PromptGate,
         Executor!Recovered, Executor!NotRecovered, Executor!Continued, Executor!Submit,
         Executor!CannotSubmit, Executor!PromptAccepted, Executor!Collected,
         Executor!stagePromptAuthorization, Executor!startPromptGateMonitor,
         Executor!MonitorLooks
  <2>2. CASE Executor!Handlers(a)
    BY <2>2 DEF Executor!Handlers, Executor!AuthorizeCommand, Executor!AuthorizeObserves,
         Executor!AuthorizeStarts, Executor!CancelCommand, Executor!cancelOnce,
         Executor!CancelInterrupts, Executor!RetireCommand, Executor!retireForRecovery
  <2> QED
    BY <1>1, <2>1, <2>2
       DEF Executor!ExecuteAction, Executor!OperatorAuthorizes, Executor!OperatorCancels,
           Executor!OperatorRecovers, Executor!HarnessFails, Executor!SeesActivity,
           Executor!FailContaminated, Executor!SeesNothing, Executor!Report,
           Executor!Acknowledged
<1>2. CASE \E x \in Lineage : Executor!NativeTurnEnds(x) \/ Executor!HumanTypes(x)
  BY <1>2 DEF Executor!NativeTurnEnds, Executor!HumanTypes
<1>3. CASE Executor!Disconnect \/ Executor!Reconcile \/ Executor!recoverAll
           \/ UNCHANGED Executor!vars
  BY <1>3 DEF Executor!Disconnect, Executor!Reconcile, Executor!recoverAll, Executor!vars
<1> QED
  BY <1>1, <1>2, <1>3 DEF Executor!Next

(* The prompt of an Attempt is submitted at most once (markPromptIntent,     *)
(* sendInputAndCollect), however often the Worker crashes, loses its         *)
(* backend or its connection, is cancelled, or is told again: the intent is  *)
(* durable before the prompt, and an execution that finds one only           *)
(* observes.                                                                 *)
THEOREM PromptedAlwaysAtMostOnce ==
    ASSUME Executor!RegistryAssumption
    PROVE  Executor!Spec => []PromptedAtMostOnce
<1>1. Executor!Init => ExecutorInv /\ LinkType
  BY ExecutorInit DEF Executor!Init, LinkType
<1>2. ExecutorInv /\ LinkType /\ [Executor!Next]_Executor!vars => ExecutorInv' /\ LinkType'
  BY ExecutorStep, LinkStep DEF LinkType
<1>3. ExecutorInv => Executor!PromptedAtMostOnce
  BY DEF ExecutorInv, ExecutorType, IntentPrecedesPrompt, Executor!PromptedAtMostOnce
<1> QED
  BY <1>1, <1>2, <1>3, PTL DEF PromptedAtMostOnce, Executor!Spec
-----------------------------------------------------------------------------
(* What the executor reports and what is acknowledged.                      *)

(* A failure that is reported is that of the row, or the withdrawal of a     *)
(* turn that completed meanwhile.                                            *)
FailedAs(row, failure) ==
    \/ row.state = "failed"
    \/ row.state = "completed" /\ failure = "none" /\ Executor!Withdraws

(* An outcome of the server is the row's, and what is acknowledged is an     *)
(* outcome here and there.                                                   *)
OutcomesAgree ==
    \A a \in Action :
        /\ reg.d[a].acked => /\ reg.d[a].state \in Executor!Terminal
                             /\ server[a].state \in Executor!Terminal
        /\ reg.d[a].state = "completed" => reg.d[a].failure = "none"
        /\ server[a].state = "completed" => reg.d[a].state = "completed"
        /\ server[a].state = "failed" =>
              reg.d[a].state = "absent" \/ FailedAs(reg.d[a], server[a].failure)

(* The server records no completion of what it has cancelled, and only what  *)
(* it has cancelled is being cancelled.                                      *)
CancelIsPending ==
    \A a \in Action :
        /\ server[a].cancel =>
              /\ server[a].state \notin {"scheduled", "completed"}
              /\ server[a].state = "failed" => server[a].failure = "cancelled"
        /\ pc[a]["cancel"] \in {"stopping", "interrupting"} => server[a].cancel

(* An outcome on its way to the server is still the row's, unless it was     *)
(* cancelled; one whose reply is on its way is recorded.                     *)
ReportsAreOutcomes ==
    \A a \in Action : \A t \in Executor!Thread :
        /\ sent[a][t].state = "completed" => reg.d[a].state = "completed" \/ server[a].cancel
        /\ sent[a][t].state = "failed" => FailedAs(reg.d[a], sent[a][t].failure)
        /\ pc[a][t] = "acking" => server[a].state \in Executor!Terminal

(* Only a harness that observes is asked for native activity, and only what  *)
(* an operator recovers is retired.                                          *)
WithdrawalsAreAsked ==
    \A a \in Action :
        /\ server[a].retire => "retire" \in Commands
        /\ \A t \in Executor!Thread :
              /\ pc[a][t] \in {"watch", "observing", "fencing"} => Observes
              /\ pc[a][t] = "retiring" => "retire" \in Commands

FactsInv == OutcomesAgree /\ CancelIsPending /\ ReportsAreOutcomes /\ WithdrawalsAreAsked

(* What is acknowledged stays acknowledged, with its outcome; its failure    *)
(* may become that of a withdrawal.                                          *)
AcknowledgedStays ==
    \A a \in Action : reg.d[a].acked =>
        /\ reg'.d[a].acked /\ reg'.d[a].state = reg.d[a].state
        /\ reg'.d[a].failure = reg.d[a].failure \/ Executor!Withdraws

-----------------------------------------------------------------------------
(* The lineages of the executions.                                          *)

(* Where an execution uses its lineage.                                     *)
Placed == {"recovering", "proving", "starting", "gate", "observing", "fencing", "quiet",
           "staged", "continuing", "sending", "accepting", "collecting"}

(* The actions of a lineage ask for one logical lineage.                    *)
LineagesAreLogical ==
    \A a \in Action :
        /\ reg.d[a].lineage # Executor!NoLineage =>
              /\ reg.l[reg.d[a].lineage].session # "absent"
              /\ reg.l[reg.d[a].lineage].logical \in {Logical[a], Executor!Retired}
              /\ \A b \in Action : reg.d[b].lineage = reg.d[a].lineage => Logical[b] = Logical[a]
        /\ \/ reg.d[a].intent \/ pc[a]["execution"] \in Placed
           \/ Mode[a] = "retained" /\ reg.d[a].state # "absent"
           => reg.d[a].lineage # Executor!NoLineage

(* An execution that is at work is not over, unless it is cancelled or       *)
(* withdrawn.                                                                *)
WorkIsOpen ==
    \A a \in Action :
        pc[a]["execution"] \in Placed =>
            reg.d[a].state \notin Executor!Terminal \/ server[a].cancel \/ Executor!Withdraws

Dispatched(a) == server[a].state # "scheduled" \/ reg.d[a].state # "absent"
Over(a) == server[a].state \in Executor!Terminal /\ ~server[a].cancel

(* P orders the actions of a lineage by their sources.                       *)
Chained(P) ==
    /\ \A a, b \in Action :
          <<a, b>> \in P => Source[b] = a \/ (Source[b] \in Action /\ <<a, Source[b]>> \in P)
    /\ \A a, b \in Action :
          a # b /\ Logical[a] = Logical[b] => <<a, b>> \in P \/ <<b, a>> \in P

(* What an action continues is over before the action is dispatched.        *)
SourcesAreOver(P) ==
    \A a, b \in Action : <<a, b>> \in P /\ Dispatched(b) => Over(a)

-----------------------------------------------------------------------------
(* What a step does to the facts and the lineages of the executor.           *)

(* A row after an operation that neither cancels nor acknowledges: an        *)
(* outcome stays.                                                            *)
OutcomeStays(row, next) ==
    /\ next.state = "absent" <=> row.state = "absent"
    /\ row.state \in Executor!Terminal => next.state = row.state
    /\ next.acked = row.acked
    /\ \/ row.state = "completed" /\ row.failure # "none"
       \/ next.state # "completed"
       \/ next.failure = "none"
    /\ row.state \in Executor!Terminal /\ row.acked =>
         next.failure = row.failure \/ Executor!Withdraws

(* ... of a registry, where only the actions of E may come to an end.        *)
Outcomes(r, s, E) ==
    \A b \in Action :
        /\ OutcomeStays(r.d[b], s.d[b])
        /\ s.d[b].state \in Executor!Terminal => r.d[b].state \in Executor!Terminal \/ b \in E

(* A lineage in use stays in use, of its logical lineage until it is retired. *)
LinesStay(r, s) ==
    \A x \in Lineage : r.l[x].session # "absent" =>
        s.l[x].session # "absent" /\ s.l[x].logical \in {r.l[x].logical, Executor!Retired}

Stays(r, s, E) ==
    /\ Outcomes(r, s, E) /\ LinesStay(r, s)
    /\ \A b \in Action : s.d[b].lineage = r.d[b].lineage

(* What a step does to the row of an action: it keeps it, cancels it,         *)
(* acknowledges it or accepts it.                                            *)
RowMoves(b) ==
    \/ OutcomeStays(reg.d[b], reg'.d[b])
    \/ /\ server[b].cancel /\ reg.d[b].state # "absent"
       /\ ~(reg.d[b].state \in Executor!Terminal /\ reg.d[b].acked)
       /\ reg'.d[b].state = "failed" /\ ~reg'.d[b].acked
    \/ /\ reg.d[b].state \in Executor!Terminal /\ server'[b].state \in Executor!Terminal
       /\ reg'.d[b].state = reg.d[b].state /\ reg'.d[b].failure = reg.d[b].failure
       /\ reg'.d[b].acked
    \/ /\ reg.d[b].state = "absent" /\ server[b].state = "scheduled"
       /\ reg'.d[b].state = "accepted" /\ ~reg'.d[b].acked

ServerStill(b) ==
    /\ server'[b].cancel = server[b].cancel
    /\ \/ server'[b].state = server[b].state /\ server'[b].failure = server[b].failure
       \/ /\ server[b].state \notin Executor!Terminal
          /\ reg.d[b].state # "absent" \/ reg'.d[b].state # "absent"
          /\ server'[b].state \notin Executor!Terminal \cup {"scheduled"}

(* ... and to the server's row: nothing that ends it, an outcome recorded, a  *)
(* cancellation asked for.                                                   *)
ServerMoves(b) ==
    /\ server'[b].retire => server[b].retire \/ "retire" \in Commands
    /\ \/ ServerStill(b)
       \/ /\ server'[b].cancel = server[b].cancel /\ server[b].state \notin Executor!Terminal
          /\ \/ /\ server'[b].state = "completed" /\ ~server[b].cancel
                /\ reg'.d[b].state = "completed"
             \/ /\ server'[b].state = "failed"
                /\ server[b].cancel => server'[b].failure = "cancelled"
                /\ reg'.d[b].state = "absent" \/ FailedAs(reg'.d[b], server'[b].failure)
       \/ /\ server[b].state \notin Executor!Terminal \cup {"scheduled"}
          /\ server'[b].cancel /\ server'[b].state = server[b].state

(* ... and to its threads.                                                   *)
ThreadsMove(b) ==
    /\ pc'[b]["cancel"] \in {"stopping", "interrupting"} =>
          pc[b]["cancel"] \in {"stopping", "interrupting"} \/ server'[b].cancel
    /\ \A t \in Executor!Thread :
          /\ \/ sent'[b][t] = sent[b][t] \/ sent'[b][t].state \notin Executor!Terminal
             \/ sent'[b][t].state = reg'.d[b].state
             \/ /\ sent'[b][t].state = "failed" /\ reg'.d[b].state = "completed"
                /\ Executor!Withdraws
                /\ sent'[b][t].failure = reg'.d[b].failure
          /\ pc'[b][t] = "acking" => pc[b][t] = "acking" \/ server'[b].state \in Executor!Terminal
          /\ pc'[b][t] \in {"watch", "observing", "fencing"} => Observes
          /\ pc'[b][t] = "retiring" => "retire" \in Commands

(* ... and to what it works on: an execution that goes to work has a lineage  *)
(* and is not over, and one at work comes to its end when it is cancelled.    *)
WorkMoves(b) ==
    /\ reg'.d[b].intent => reg.d[b].intent \/ pc[b]["execution"] \in Placed
    /\ pc'[b]["execution"] \in Placed =>
          \/ pc[b]["execution"] \in Placed
          \/ /\ reg'.d[b].lineage # Executor!NoLineage
             /\ reg'.d[b].state \notin Executor!Terminal
    /\ pc'[b]["execution"] \in Placed /\ reg'.d[b].state \in Executor!Terminal =>
          reg.d[b].state \in Executor!Terminal \/ server'[b].cancel \/ Executor!Withdraws
    /\ reg'.d[b].state # "absent" /\ Mode[b] = "retained" =>
          reg.d[b].state # "absent" \/ reg'.d[b].lineage # Executor!NoLineage
    /\ Dispatched(b)' => Dispatched(b) \/ Executor!Dispatchable(b)

(* An action keeps its lineage, or has one of its logical lineage.            *)
Placing(r, s, b) ==
    \/ s.d[b].lineage = r.d[b].lineage
    \/ /\ s.d[b].lineage \in Lineage /\ s.l[s.d[b].lineage].session # "absent"
       /\ s.l[s.d[b].lineage].logical \in {Logical[b], Executor!Retired}
       /\ \A c \in Action : s.d[c].lineage = s.d[b].lineage => Logical[c] = Logical[b]

Moves ==
    /\ \A b \in Action : /\ RowMoves(b) /\ ServerMoves(b) /\ ThreadsMove(b)
                         /\ WorkMoves(b) /\ Placing(reg, reg', b)
    /\ LinesStay(reg, reg')

(* The invariant of the facts is kept by what the steps do, and what is       *)
(* acknowledged stays.                                                       *)
LEMMA FactsKept ==
    ASSUME FactsInv, Moves
    PROVE  FactsInv' /\ AcknowledgedStays
<1> USE DEF Executor!Terminal
<1>1. ASSUME NEW a \in Action
      PROVE  /\ RowMoves(a) /\ ServerMoves(a) /\ ThreadsMove(a)
             /\ reg.d[a].acked => /\ reg.d[a].state \in Executor!Terminal
                                  /\ server[a].state \in Executor!Terminal
             /\ reg.d[a].state = "completed" => reg.d[a].failure = "none"
             /\ server[a].state = "completed" => reg.d[a].state = "completed"
             /\ server[a].state = "failed" =>
                   reg.d[a].state = "absent" \/ FailedAs(reg.d[a], server[a].failure)
             /\ server[a].cancel =>
                   /\ server[a].state \notin {"scheduled", "completed"}
                   /\ server[a].state = "failed" => server[a].failure = "cancelled"
             /\ pc[a]["cancel"] \in {"stopping", "interrupting"} => server[a].cancel
  BY DEF Moves, FactsInv, OutcomesAgree, CancelIsPending
<1>2. ASSUME NEW a \in Action
      PROVE  /\ server'[a].cancel =>
                   /\ server'[a].state \notin {"scheduled", "completed"}
                   /\ server'[a].state = "failed" => server'[a].failure = "cancelled"
             /\ pc'[a]["cancel"] \in {"stopping", "interrupting"} => server'[a].cancel
             /\ server[a].cancel => server'[a].cancel
             /\ server[a].state \in Executor!Terminal =>
                   /\ server'[a].state = server[a].state /\ server'[a].failure = server[a].failure
  BY <1>1 DEF ServerMoves, ServerStill, ThreadsMove
<1>3. ASSUME NEW a \in Action
      PROVE  /\ reg'.d[a].state = "completed" => reg'.d[a].failure = "none"
             /\ reg.d[a].state = "failed" => reg'.d[a].state = "failed"
             /\ reg.d[a].state = "completed" =>
                   \/ reg'.d[a].state = "completed"
                   \/ reg'.d[a].state = "failed" /\ server[a].cancel
             /\ reg.d[a].state = "absent" =>
                   reg'.d[a].state = "absent" \/ server[a].state = "scheduled"
  BY <1>1 DEF RowMoves, OutcomeStays
<1>4. ASSUME NEW a \in Action
      PROVE  /\ reg'.d[a].acked => /\ reg'.d[a].state \in Executor!Terminal
                                   /\ server'[a].state \in Executor!Terminal
             /\ reg.d[a].acked => /\ reg'.d[a].acked /\ reg'.d[a].state = reg.d[a].state
                                  /\ reg'.d[a].failure = reg.d[a].failure \/ Executor!Withdraws
  BY <1>1, <1>2 DEF RowMoves, OutcomeStays
<1>5. ASSUME NEW a \in Action, NEW failure, FailedAs(reg.d[a], failure)
      PROVE  FailedAs(reg'.d[a], failure)
  BY <1>3, <1>5 DEF FailedAs
<1>6. ASSUME NEW a \in Action
      PROVE  server'[a].state = "completed" => reg'.d[a].state = "completed"
  <2>1. CASE ServerStill(a)
    BY <1>1, <1>2, <1>3, <2>1 DEF ServerStill
  <2>2. CASE ~ServerStill(a)
    BY <1>1, <2>2 DEF ServerMoves
  <2> QED
    BY <2>1, <2>2
<1>7. ASSUME NEW a \in Action, server'[a].state = "failed"
      PROVE  reg'.d[a].state = "absent" \/ FailedAs(reg'.d[a], server'[a].failure)
  <2>1. CASE ServerStill(a)
    <3>1. server[a].state = "failed" /\ server'[a].failure = server[a].failure
      BY <1>7, <2>1 DEF ServerStill
    <3> QED
      BY <1>1, <1>3, <1>5, <3>1
  <2>2. CASE ~ServerStill(a)
    BY <1>1, <1>7, <2>2 DEF ServerMoves
  <2> QED
    BY <2>1, <2>2
<1>8. OutcomesAgree'
  BY <1>3, <1>4, <1>6, <1>7 DEF OutcomesAgree
<1>9. CancelIsPending'
  BY <1>2 DEF CancelIsPending
<1>10. ASSUME NEW a \in Action, NEW t \in Executor!Thread
       PROVE  /\ sent'[a][t].state = "completed" =>
                    reg'.d[a].state = "completed" \/ server'[a].cancel
              /\ sent'[a][t].state = "failed" => FailedAs(reg'.d[a], sent'[a][t].failure)
  <2>1. CASE sent'[a][t] = sent[a][t]
    BY <1>2, <1>3, <1>5, <2>1 DEF FactsInv, ReportsAreOutcomes
  <2>2. CASE sent'[a][t] # sent[a][t]
    BY <1>1, <1>3, <2>2 DEF ThreadsMove, FailedAs
  <2> QED
    BY <2>1, <2>2
<1>11. ASSUME NEW a \in Action, NEW t \in Executor!Thread, pc'[a][t] = "acking"
       PROVE  server'[a].state \in Executor!Terminal
  BY <1>1, <1>2, <1>11 DEF ThreadsMove, FactsInv, ReportsAreOutcomes
<1>12. ReportsAreOutcomes'
  BY <1>10, <1>11 DEF ReportsAreOutcomes
<1>13. WithdrawalsAreAsked'
  BY <1>1 DEF WithdrawalsAreAsked, FactsInv, ServerMoves, ThreadsMove
<1> QED
  BY <1>4, <1>8, <1>9, <1>12, <1>13 DEF FactsInv, AcknowledgedStays

(* The invariants of the lineages are kept too.                              *)
LEMMA LineagesKept ==
    ASSUME Executor!RegistryAssumption, ExecutorInv, FactsInv, LineagesAreLogical, WorkIsOpen,
           Moves
    PROVE  LineagesAreLogical' /\ WorkIsOpen'
<1>1. ASSUME NEW a \in Action
      PROVE  /\ RowMoves(a) /\ ServerMoves(a) /\ WorkMoves(a) /\ Placing(reg, reg', a)
             /\ reg.d[a].lineage \in Lineage \cup {Executor!NoLineage}
  BY Typed DEF Moves, ExecutorInv, ExecutorType, Row
<1>2. ASSUME NEW a \in Action, reg'.d[a].lineage # Executor!NoLineage
      PROVE  /\ reg'.l[reg'.d[a].lineage].session # "absent"
             /\ reg'.l[reg'.d[a].lineage].logical \in {Logical[a], Executor!Retired}
             /\ \A b \in Action : reg'.d[b].lineage = reg'.d[a].lineage => Logical[b] = Logical[a]
  <2>1. CASE reg'.d[a].lineage = reg.d[a].lineage
    <3>1. PICK x \in Lineage : reg.d[a].lineage = x /\ reg'.d[a].lineage = x
      BY <1>1, <1>2, <2>1
    <3>2. /\ reg.l[x].session # "absent" /\ reg.l[x].logical \in {Logical[a], Executor!Retired}
          /\ \A b \in Action : reg.d[b].lineage = x => Logical[b] = Logical[a]
      BY <1>2, <2>1, <3>1 DEF LineagesAreLogical
    <3>3. reg'.l[x].session # "absent" /\ reg'.l[x].logical \in {Logical[a], Executor!Retired}
      BY <3>2 DEF Moves, LinesStay
    <3>4. ASSUME NEW b \in Action, reg'.d[b].lineage = x PROVE Logical[b] = Logical[a]
      <4>1. CASE reg'.d[b].lineage = reg.d[b].lineage
        BY <3>2, <3>4, <4>1
      <4>2. CASE reg'.d[b].lineage # reg.d[b].lineage
        BY <1>1, <3>1, <3>4, <4>2 DEF Placing
      <4> QED
        BY <4>1, <4>2
    <3> QED
      BY <3>1, <3>3, <3>4
  <2>2. CASE reg'.d[a].lineage # reg.d[a].lineage
    BY <1>1, <2>2 DEF Placing
  <2> QED
    BY <2>1, <2>2
<1>3. ASSUME NEW a \in Action, reg.d[a].lineage # Executor!NoLineage
      PROVE  reg'.d[a].lineage # Executor!NoLineage
  BY <1>1, <1>3 DEF Placing, Executor!RegistryAssumption
<1>4. ASSUME NEW a \in Action,
             \/ reg'.d[a].intent \/ pc'[a]["execution"] \in Placed
             \/ Mode[a] = "retained" /\ reg'.d[a].state # "absent"
      PROVE  reg'.d[a].lineage # Executor!NoLineage
  BY <1>1, <1>3, <1>4 DEF LineagesAreLogical, WorkMoves
<1>5. LineagesAreLogical'
  BY <1>2, <1>4 DEF LineagesAreLogical
<1>6. ASSUME NEW a \in Action, pc'[a]["execution"] \in Placed,
             reg'.d[a].state \in Executor!Terminal, ~Executor!Withdraws
      PROVE  server'[a].cancel
  <2>1. \/ reg.d[a].state \in Executor!Terminal /\ pc[a]["execution"] \in Placed
        \/ server'[a].cancel
    BY <1>1, <1>6 DEF WorkMoves
  <2>2. server[a].cancel => server'[a].cancel
    BY <1>1 DEF ServerMoves, ServerStill
  <2> QED
    BY <1>6, <2>1, <2>2 DEF WorkIsOpen
<1>7. WorkIsOpen'
  BY <1>6 DEF WorkIsOpen
<1> QED
  BY <1>5, <1>7

(* ... and so is the order of the sources.                                   *)
LEMMA SourcesKept ==
    ASSUME Executor!RegistryAssumption, FactsInv, Moves, NEW P, Chained(P), SourcesAreOver(P)
    PROVE  SourcesAreOver(P)'
<1>1. ASSUME NEW a \in Action, Over(a) PROVE Over(a)'
  <2>1. ServerMoves(a)
    BY DEF Moves
  <2> QED
    BY <1>1, <2>1 DEF Over, ServerMoves, ServerStill
<1>2. ASSUME NEW b \in Action, Source[b] \in Action, Executor!Dispatchable(b)
      PROVE  Over(Source[b]) /\ Dispatched(Source[b])
  <2>1. PICK a \in Action : Source[b] = a
    BY <1>2
  <2>2. /\ server[a].state \in Executor!Terminal /\ server[a].failure # "cancelled"
    BY <1>2, <2>1 DEF Executor!Dispatchable, Executor!Terminal, Executor!RegistryAssumption
  <2>3. ~server[a].cancel
    BY <2>2 DEF FactsInv, CancelIsPending, Executor!Terminal
  <2> QED
    BY <2>1, <2>2, <2>3 DEF Over, Dispatched, Executor!Terminal
<1>3. ASSUME NEW a \in Action, NEW b \in Action, <<a, b>> \in P, Dispatched(b)'
      PROVE  Over(a)
  <2>1. CASE Dispatched(b)
    BY <1>3, <2>1 DEF SourcesAreOver
  <2>2. CASE Executor!Dispatchable(b)
    <3>1. Source[b] = a \/ (Source[b] \in Action /\ <<a, Source[b]>> \in P)
      BY <1>3 DEF Chained
    <3>2. Over(Source[b]) /\ Dispatched(Source[b])
      BY <1>2, <2>2, <3>1
    <3> QED
      BY <3>1, <3>2 DEF SourcesAreOver
  <2> QED
    BY <1>3, <2>1, <2>2 DEF Moves, WorkMoves
<1> QED
  BY <1>1, <1>3 DEF SourcesAreOver

-----------------------------------------------------------------------------
(* What the operations of the registry do to rows and lineages.              *)

(* ... and where an action may be given a lineage.                           *)
Leads(r, s, E) ==
    Outcomes(r, s, E) /\ LinesStay(r, s) /\ \A b \in Action : Placing(r, s, b)

(* Two operations, one after the other.                                      *)
LEMMA StaysChain ==
    ASSUME NEW r, NEW s, NEW t, NEW E, Stays(r, s, E), Stays(s, t, E)
    PROVE  Stays(r, t, E)
<1>1. ASSUME NEW b \in Action
      PROVE  /\ OutcomeStays(r.d[b], t.d[b]) /\ t.d[b].lineage = r.d[b].lineage
             /\ t.d[b].state \in Executor!Terminal => r.d[b].state \in Executor!Terminal \/ b \in E
  <2>1. /\ OutcomeStays(r.d[b], s.d[b]) /\ OutcomeStays(s.d[b], t.d[b])
        /\ s.d[b].lineage = r.d[b].lineage /\ t.d[b].lineage = s.d[b].lineage
        /\ s.d[b].state \in Executor!Terminal => r.d[b].state \in Executor!Terminal \/ b \in E
        /\ t.d[b].state \in Executor!Terminal => s.d[b].state \in Executor!Terminal \/ b \in E
    BY DEF Stays, Outcomes
  <2>2. OutcomeStays(r.d[b], t.d[b])
    BY <2>1 DEF OutcomeStays, Executor!Terminal
  <2> QED
    BY <2>1, <2>2
<1>2. LinesStay(r, t)
  BY DEF Stays, LinesStay
<1> QED
  BY <1>1, <1>2 DEF Stays, Outcomes

(* A registry of which the rows of dispatches and of lineages are these.     *)
LEMMA StaysSame ==
    ASSUME NEW r, NEW s, NEW E, s.d = r.d, s.l = r.l
    PROVE  Stays(r, s, E)
  BY DEF Stays, Outcomes, OutcomeStays, LinesStay

(* An operation that leaves the lineages, and one after a lineage was given.  *)
LEMMA LeadsChain ==
    ASSUME NEW r, NEW s, NEW t, NEW E, Stays(s, t, E)
    PROVE  Leads(s, t, E) /\ (Leads(r, s, E) => Leads(r, t, E))
<1>1. Leads(s, t, E)
  BY DEF Leads, Stays, Placing
<1>2. ASSUME Leads(r, s, E) PROVE Leads(r, t, E)
  <2>1. Outcomes(r, t, E)
    <3>1. ASSUME NEW b \in Action PROVE OutcomeStays(r.d[b], t.d[b])
      <4>1. OutcomeStays(r.d[b], s.d[b]) /\ OutcomeStays(s.d[b], t.d[b])
        BY <1>2 DEF Leads, Stays, Outcomes
      <4> QED
        BY <4>1 DEF OutcomeStays, Executor!Terminal
    <3> QED
      BY <1>2, <3>1 DEF Leads, Stays, Outcomes
  <2>2. LinesStay(r, t)
    BY <1>2 DEF Leads, Stays, LinesStay
  <2>3. ASSUME NEW b \in Action PROVE Placing(r, t, b)
    <3>1. Placing(r, s, b) /\ \A c \in Action : t.d[c].lineage = s.d[c].lineage
      BY <1>2 DEF Leads, Stays
    <3> QED
      BY <3>1 DEF Placing, Stays, LinesStay
  <2> QED
    BY <2>1, <2>2, <2>3 DEF Leads
<1> QED
  BY <1>1, <1>2

(* The row of one dispatch is written.                                       *)
LEMMA StaysRow ==
    ASSUME NEW r \in Executor!RegistryType, NEW a \in Action, NEW row, NEW E,
           OutcomeStays(r.d[a], row), row.lineage = r.d[a].lineage,
           row.state \in Executor!Terminal => r.d[a].state \in Executor!Terminal \/ a \in E
    PROVE  Stays(r, [r EXCEPT !.d[a] = row], E)
<1> DEFINE s == [r EXCEPT !.d[a] = row]
<1>1. s.l = r.l /\ \A b \in Action : s.d[b] = IF b = a THEN row ELSE r.d[b]
  BY DEF Executor!RegistryType
<1> HIDE DEF s
<1>2. \A b \in Action : OutcomeStays(r.d[b], r.d[b])
  BY DEF OutcomeStays
<1> QED
  BY <1>1, <1>2 DEF Stays, Outcomes, LinesStay

(* The rows of lineages are written.                                         *)
LEMMA StaysLines ==
    ASSUME NEW r \in Executor!RegistryType, NEW l, NEW E,
           \A x \in Lineage : r.l[x].session # "absent" =>
               l[x].session # "absent" /\ l[x].logical \in {r.l[x].logical, Executor!Retired}
    PROVE  Stays(r, [r EXCEPT !.l = l], E)
<1> DEFINE s == [r EXCEPT !.l = l]
<1>1. s.d = r.d /\ s.l = l
  BY DEF Executor!RegistryType
<1> HIDE DEF s
<1>2. \A b \in Action : OutcomeStays(r.d[b], r.d[b])
  BY DEF OutcomeStays
<1> QED
  BY <1>1, <1>2 DEF Stays, Outcomes, LinesStay

(* The row of one lineage is written.                                        *)
LEMMA StaysLine ==
    ASSUME NEW r \in Executor!RegistryType, NEW x, NEW line, NEW E,
           x \in Lineage => /\ line.session # "absent"
                            /\ line.logical \in {r.l[x].logical, Executor!Retired}
    PROVE  Stays(r, [r EXCEPT !.l[x] = line], E)
<1> DEFINE l == [r.l EXCEPT ![x] = line]
<1>1. [r EXCEPT !.l[x] = line] = [r EXCEPT !.l = l]
  BY DEF Executor!RegistryType
<1>2. \A y \in Lineage : l[y] = IF y = x THEN line ELSE r.l[y]
  BY DEF Executor!RegistryType
<1> HIDE DEF l
<1> QED
  BY <1>1, <1>2, StaysLines

(* Operations on the row of a lineage.                                       *)
LEMMA LineageOperations ==
    ASSUME NEW r \in Executor!RegistryType, NEW a \in Action, NEW E, NEW x,
           NEW state, state # "absent", x \in Lineage => r.l[x].session # "absent"
    PROVE  /\ Stays(r, Executor!updateSession(r, x, state), E)
           /\ Stays(r, Executor!recordExecution(r, x), E)
           /\ Stays(r, Executor!recordNativeSession(r, x), E)
           /\ Stays(r, Executor!occupy(r, x, a), E)
<1>1. ASSUME x \in Lineage
      PROVE  /\ [r.l[x] EXCEPT !.session = state].session = state
             /\ [r.l[x] EXCEPT !.session = state].logical = r.l[x].logical
             /\ [r.l[x] EXCEPT !.handle = TRUE].session = r.l[x].session
             /\ [r.l[x] EXCEPT !.handle = TRUE].logical = r.l[x].logical
             /\ [r.l[x] EXCEPT !.handle = TRUE, !.native = TRUE].session = r.l[x].session
             /\ [r.l[x] EXCEPT !.handle = TRUE, !.native = TRUE].logical = r.l[x].logical
             /\ [r.l[x] EXCEPT !.active = a].session = r.l[x].session
             /\ [r.l[x] EXCEPT !.active = a].logical = r.l[x].logical
  <2>1. r.l[x] \in Line
    BY <1>1, Typed
  <2> QED
    BY <2>1 DEF Line
<1>2. Stays(r, [r EXCEPT !.l[x] = [r.l[x] EXCEPT !.session = state]], E)
  BY <1>1, StaysLine
<1>3. Stays(r, [r EXCEPT !.l[x] = [r.l[x] EXCEPT !.handle = TRUE]], E)
  BY <1>1, StaysLine
<1>4. Stays(r, [r EXCEPT !.l[x] = [r.l[x] EXCEPT !.handle = TRUE, !.native = TRUE]], E)
  BY <1>1, StaysLine
<1>5. Stays(r, [r EXCEPT !.l[x] = [r.l[x] EXCEPT !.active = a]], E)
  BY <1>1, StaysLine
<1> QED
  BY <1>2, <1>3, <1>4, <1>5 DEF Executor!updateSession, Executor!recordExecution,
     Executor!recordNativeSession, Executor!occupy

(* ReleaseLineage.                                                           *)
LEMMA StaysReleased ==
    ASSUME NEW r \in Executor!RegistryType, NEW a \in Action, NEW E
    PROVE  Stays(r, Executor!ReleaseLineage(r, a), E)
<1> DEFINE l == [x \in Lineage |->
             IF x = r.d[a].lineage /\ r.l[x].active = a
             THEN [r.l[x] EXCEPT !.active = NoAction, !.session = "retained"] ELSE r.l[x]]
<1>1. ASSUME NEW x \in Lineage, r.l[x].session # "absent"
      PROVE  l[x].session # "absent" /\ l[x].logical = r.l[x].logical
  <2>1. r.l[x] \in Line
    BY Typed
  <2> QED
    BY <1>1, <2>1 DEF Line
<1>2. Executor!ReleaseLineage(r, a) = [r EXCEPT !.l = l]
  BY DEF Executor!ReleaseLineage
<1> HIDE DEF l
<1>3. Stays(r, [r EXCEPT !.l = l], E)
  BY <1>1, StaysLines
<1> QED
  BY <1>2, <1>3

(* Operations on the row of a dispatch that is not over with them.           *)
LEMMA RowOperations ==
    ASSUME NEW r \in Executor!RegistryType, NEW a \in Action, r.d[a].state # "absent", NEW E
    PROVE  /\ Stays(r, Executor!authorizePrompt(r, a), E)
           /\ Stays(r, Executor!markPromptIntent(r, a), E)
           /\ Stays(r, Executor!markPromptAccepted(r, a), E)
           /\ Stays(r, Executor!markNativeActivity(r, a), E)
           /\ Stays(r, Executor!recordObservationFailure(r, a), E)
           /\ Stays(r, Executor!resumeObservationUncertainty(r, a), E)
<1> DEFINE row1 == [r.d[a] EXCEPT !.authorized = TRUE]
           row2 == [r.d[a] EXCEPT !.intent = TRUE]
           row3 == [r.d[a] EXCEPT !.prompted = TRUE, !.state = Executor!Running(r.d[a].state)]
           row4 == [r.d[a] EXCEPT !.native = TRUE, !.state = Executor!Running(r.d[a].state)]
           row5 == [r.d[a] EXCEPT !.failure = "observation"]
           row6 == [r.d[a] EXCEPT !.state = "running"]
           Good(row) == /\ OutcomeStays(r.d[a], row) /\ row.lineage = r.d[a].lineage
                        /\ row.state \in Executor!Terminal => r.d[a].state \in Executor!Terminal
<1>1. r.d[a] \in Row /\ r.d[a].state # "absent"
  BY Typed
<1>2. /\ Good(row1) /\ Good(row2) /\ Good(row3) /\ Good(row4)
      /\ r.d[a].state \notin Executor!Terminal => Good(row5)
      /\ r.d[a].state = "uncertain" => Good(row6)
  BY <1>1 DEF OutcomeStays, Row, Executor!Terminal, Executor!Running
<1>3. Stays(r, r, E)
  BY StaysSame
<1>4. ASSUME NEW row, Good(row) PROVE Stays(r, [r EXCEPT !.d[a] = row], E)
  BY <1>4, StaysRow
<1> HIDE DEF Good
<1>5. /\ Stays(r, [r EXCEPT !.d[a] = row1], E) /\ Stays(r, [r EXCEPT !.d[a] = row2], E)
      /\ Stays(r, [r EXCEPT !.d[a] = row3], E) /\ Stays(r, [r EXCEPT !.d[a] = row4], E)
      /\ r.d[a].state \notin Executor!Terminal => Stays(r, [r EXCEPT !.d[a] = row5], E)
      /\ r.d[a].state = "uncertain" => Stays(r, [r EXCEPT !.d[a] = row6], E)
  BY <1>2, <1>4
<1> QED
  BY <1>3, <1>5
     DEF Executor!authorizePrompt, Executor!markPromptIntent, Executor!markPromptAccepted,
         Executor!markNativeActivity, Executor!recordObservationFailure,
         Executor!resumeObservationUncertainty, Executor!isRecoverableObservationUncertainty

(* Operations that end a dispatch: complete and fail.                        *)
LEMMA EndOperations ==
    ASSUME NEW r \in Executor!RegistryType, NEW a \in Action, r.d[a].state # "absent", NEW E,
           a \in E, NEW failure \in Executor!FailureFact, NEW uncertain \in BOOLEAN,
           r.d[a].state = "completed" => r.d[a].failure = "none"
    PROVE  /\ r.d[a].state # "failed" => Stays(r, Executor!complete(r, a), E)
           /\ r.d[a].state \notin Executor!Terminal \/ (Executor!Withdraws /\ ~uncertain)
                => Stays(r, Executor!fail(r, a, failure, uncertain), E)
<1> DEFINE row1 == [r.d[a] EXCEPT !.state = "completed", !.failure = "none", !.settled = TRUE]
           row2 == [r.d[a] EXCEPT !.state = "uncertain", !.failure = failure]
           row3 == [r.d[a] EXCEPT !.state = "failed", !.failure = failure]
           s(row) == [r EXCEPT !.d[a] = row]
           Good(row) == OutcomeStays(r.d[a], row) /\ row.lineage = r.d[a].lineage
<1>1. r.d[a] \in Row /\ r.d[a].state # "absent"
  BY Typed
<1>2. /\ row1 \in Row /\ row2 \in Row /\ row3 \in Row
  BY <1>1 DEF Row, Executor!FailureFact, Executor!DispatchState
<1>3. /\ r.d[a].state # "failed" => OutcomeStays(r.d[a], row1)
      /\ row1.lineage = r.d[a].lineage /\ row2.lineage = r.d[a].lineage
      /\ row3.lineage = r.d[a].lineage
      /\ r.d[a].state \notin Executor!Terminal => OutcomeStays(r.d[a], row2)
      /\ r.d[a].state \notin Executor!Terminal \/ (Executor!Withdraws /\ r.d[a].state # "completed")
            => OutcomeStays(r.d[a], row3)
  <2>1. /\ row3.state = "failed" /\ row3.failure = failure /\ row3.acked = r.d[a].acked
        /\ row3.lineage = r.d[a].lineage
    BY <1>1 DEF Row
  <2>2. ASSUME \/ r.d[a].state \notin Executor!Terminal
               \/ Executor!Withdraws /\ r.d[a].state # "completed"
        PROVE  OutcomeStays(r.d[a], row3)
    <3> HIDE DEF row3
    <3> QED
      BY <1>1, <2>1, <2>2 DEF OutcomeStays, Executor!Terminal
  <2>3. /\ r.d[a].state # "failed" => OutcomeStays(r.d[a], row1)
        /\ r.d[a].state \notin Executor!Terminal => OutcomeStays(r.d[a], row2)
        /\ row1.lineage = r.d[a].lineage /\ row2.lineage = r.d[a].lineage
    BY <1>1 DEF OutcomeStays, Row, Executor!Terminal
  <2> QED
    BY <2>1, <2>2, <2>3
<1>4. ASSUME NEW row \in Row, Good(row), row.state # "absent"
      PROVE  Stays(r, s(row), E) /\ Stays(r, Executor!ReleaseLineage(s(row), a), E)
  <2>1. Stays(r, s(row), E)
    BY <1>4, StaysRow
  <2>2. s(row) \in Executor!RegistryType
    BY <1>4 DEF Executor!RegistryType, Row
  <2>3. Stays(s(row), Executor!ReleaseLineage(s(row), a), E)
    <3> HIDE DEF s
    <3> QED
      BY <2>2, StaysReleased
  <2> QED
    BY <2>1, <2>3, StaysChain
<1>5. row1.state # "absent" /\ row2.state # "absent" /\ row3.state # "absent"
  BY <1>1 DEF Row
<1>6. /\ r.d[a].state # "failed" => Stays(r, Executor!ReleaseLineage(s(row1), a), E)
      /\ r.d[a].state \notin Executor!Terminal => Stays(r, s(row2), E)
      /\ r.d[a].state \notin Executor!Terminal \/ (Executor!Withdraws /\ r.d[a].state # "completed")
            => Stays(r, Executor!ReleaseLineage(s(row3), a), E)
  <2> HIDE DEF row1, row2, row3, s
  <2> QED
    BY <1>2, <1>3, <1>4, <1>5
<1>7. Executor!complete(r, a) = Executor!ReleaseLineage(s(row1), a)
  BY DEF Executor!complete
<1>8. Stays(r, Executor!ReleaseLineage(r, a), E)
  BY StaysReleased
<1>9. /\ r.d[a].state = "completed" /\ ~uncertain =>
            Executor!fail(r, a, failure, uncertain) = Executor!ReleaseLineage(r, a)
      /\ r.d[a].state # "completed" /\ uncertain =>
            Executor!fail(r, a, failure, uncertain) = s(row2)
      /\ r.d[a].state # "completed" /\ ~uncertain =>
            Executor!fail(r, a, failure, uncertain) = Executor!ReleaseLineage(s(row3), a)
  BY DEF Executor!fail
<1>10. "completed" \in Executor!Terminal
  BY DEF Executor!Terminal
<1> HIDE DEF s, row1, row2, row3
<1> QED
  BY <1>6, <1>7, <1>8, <1>9, <1>10

(* A row and its lineage, as they are found in a registry.                   *)
Live(r, a) ==
    /\ r \in Executor!RegistryType /\ r.d[a].state # "absent"
    /\ r.d[a].lineage # Executor!NoLineage => r.l[r.d[a].lineage].session # "absent"

(* An operation leaves a live row live.                                      *)
LEMMA StaysLive ==
    ASSUME NEW a \in Action, NEW r, Live(r, a), NEW s \in Executor!RegistryType, NEW E,
           Stays(r, s, E)
    PROVE  Live(s, a)
<1>1. r.d[a].lineage \in Lineage \cup {Executor!NoLineage}
  BY Typed DEF Live, Row
<1> QED
  BY <1>1 DEF Live, Stays, Outcomes, OutcomeStays, LinesStay

(* The session of a dispatch is written, if it has a lineage.                *)
LEMMA StaysSession ==
    ASSUME Executor!RegistryAssumption, NEW a \in Action, NEW r, Live(r, a),
           NEW state, state # "absent", NEW E
    PROVE  /\ Stays(r, Executor!updateSession(r, r.d[a].lineage, state), E)
           /\ Stays(r, Executor!WithSession(r, a, state), E)
           /\ Stays(r, Executor!recordExecution(r, r.d[a].lineage), E)
           /\ Stays(r, Executor!recordNativeSession(r, r.d[a].lineage), E)
           /\ Stays(r, Executor!occupy(r, r.d[a].lineage, a), E)
<1>1. r.d[a].lineage \in Lineage => r.l[r.d[a].lineage].session # "absent"
  BY DEF Live, Executor!RegistryAssumption
<1>2. r \in Executor!RegistryType /\ Stays(r, r, E)
  BY StaysSame DEF Live
<1>3. /\ Stays(r, Executor!updateSession(r, r.d[a].lineage, state), E)
      /\ Stays(r, Executor!recordExecution(r, r.d[a].lineage), E)
      /\ Stays(r, Executor!recordNativeSession(r, r.d[a].lineage), E)
      /\ Stays(r, Executor!occupy(r, r.d[a].lineage, a), E)
  BY <1>1, <1>2, LineageOperations
<1> QED
  BY <1>2, <1>3 DEF Executor!WithSession

(* What is thrown, and an authorization.                                     *)
LEMMA StaysComposed ==
    ASSUME Executor!RegistryAssumption, NEW a \in Action, NEW r, Live(r, a),
           NEW error \in Executor!Fault, NEW E
    PROVE  /\ a \in E => Stays(r, Executor!Failed(r, a, error), E)
           /\ Stays(r, Executor!Authorized(r, a), E)
<1>0. /\ error \in Executor!FailureFact /\ r \in Executor!RegistryType
      /\ r.d[a].state # "absent" /\ Stays(r, r, E)
  BY StaysSame DEF Executor!Fault, Executor!FailureFact, Live
<1>1. ASSUME r.d[a].state \notin Executor!Terminal, a \in E
      PROVE  Stays(r, Executor!Failed(r, a, error), E)
  <2> DEFINE uncertain == Executor!isUncertain(r.d[a], error)
             s == Executor!fail(r, a, error, uncertain)
             t == Executor!updateSession(s, r.d[a].lineage, "unavailable")
  <2>1. uncertain \in BOOLEAN
    BY DEF Executor!isUncertain
  <2>2. r.d[a].state # "completed"
    BY <1>1 DEF Executor!Terminal
  <2>3. Stays(r, s, E) /\ Keeps(r, s)
    <3> HIDE DEF uncertain
    <3> QED
      BY <1>0, <1>1, <2>1, <2>2, EndOperations, TerminalWritten
  <2>4. Live(s, a) /\ s.d[a].lineage = r.d[a].lineage
    <3> HIDE DEF s
    <3> QED
      BY <2>3, StaysLive DEF Keeps, Stays
  <2>5. Stays(s, t, E)
    <3> HIDE DEF s
    <3> QED
      BY <2>4, StaysSession
  <2>6. Stays(r, t, E)
    <3> HIDE DEF s, t
    <3> QED
      BY <2>3, <2>5, StaysChain
  <2> HIDE DEF s, t
  <2> QED
    BY <1>0, <2>3, <2>6 DEF Executor!Failed, s, t
<1>2. ASSUME r.d[a].state \in Executor!Terminal
      PROVE  Stays(r, Executor!Failed(r, a, error), E)
  BY <1>0, <1>2 DEF Executor!Failed
<1>3. Stays(r, Executor!Authorized(r, a), E)
  <2> DEFINE s == Executor!authorizePrompt(r, a)
  <2>1. Stays(r, s, E) /\ Keeps(r, s)
    BY <1>0, RowOperations, PromptFactsWritten
  <2>2. Live(s, a)
    <3> HIDE DEF s
    <3> QED
      BY <2>1, StaysLive DEF Keeps
  <2>3. Stays(s, Executor!WithSession(s, a, "starting"), E)
    <3> HIDE DEF s
    <3> QED
      BY <2>2, StaysSession
  <2>4. Stays(r, Executor!WithSession(s, a, "starting"), E)
    <3> HIDE DEF s
    <3> QED
      BY <2>1, <2>3, StaysChain
  <2> QED
    BY <2>4 DEF Executor!Authorized
<1> QED
  BY <1>1, <1>2, <1>3


-----------------------------------------------------------------------------
(* The steps of the executor.                                                *)

WorkInv == FactsInv /\ LineagesAreLogical /\ WorkIsOpen

(* What a thread may send of a row: its state, or the withdrawal of its      *)
(* completion.                                                               *)
Reportable(row, fact) ==
    \/ fact.state = row.state
    \/ /\ fact.state = "failed" /\ row.state = "completed" /\ Executor!Withdraws
       /\ fact.failure = row.failure

(* Where a thread may go on: an execution at work has a lineage and is open.  *)
MayGo(a, t, where, E) ==
    /\ where \in Places /\ where # "acking" /\ E \subseteq {a}
    /\ where \in {"watch", "observing", "fencing"} => Observes
    /\ where = "retiring" => "retire" \in Commands
    /\ t = "cancel" => where \notin {"stopping", "interrupting"} \/ server[a].cancel
    /\ \/ t = "execution" /\ where \notin Placed
       \/ t = "execution" /\ where \in Placed /\ E = {} /\ pc[a][t] \in Placed
       \/ /\ t = "execution" /\ where \in Placed /\ E = {}
          /\ reg'.d[a].lineage # Executor!NoLineage /\ reg.d[a].state \notin Executor!Terminal
       \/ t # "execution" /\ (E = {} \/ Executor!Withdraws)

(* One thread goes on.                                                       *)
LEMMA ThreadMoves ==
    ASSUME ExecutorInv, WorkInv, NEW a \in Action, NEW t \in Executor!Thread, NEW where, NEW E,
           NEW fact, Leads(reg, reg', E), Executor!Goto(a, t, where), MayGo(a, t, where, E),
           \A b \in Action : ServerStill(b) /\ server'[b].retire = server[b].retire,
           sent' = sent
           \/ (sent' = [sent EXCEPT ![a][t] = fact] /\ Reportable(reg'.d[a], fact)),
           \A b \in Action :
               reg'.d[b].intent => reg.d[b].intent \/ pc[b]["execution"] \in Placed
    PROVE  Moves
<1>1. /\ pc \in [Action -> [Executor!Thread -> Places]]
      /\ sent \in [Action -> [Executor!Thread -> Fact]]
      /\ pc' = [pc EXCEPT ![a][t] = where]
      /\ "execution" \in Executor!Thread /\ "cancel" \in Executor!Thread
  BY DEF ExecutorInv, ExecutorType, Executor!Goto, Executor!Thread
<1>2. /\ \A b \in Action : b # a => pc'[b] = pc[b]
      /\ \A u \in Executor!Thread : pc'[a][u] = IF u = t THEN where ELSE pc[a][u]
  BY <1>1
<1>3. ASSUME NEW b \in Action, NEW u \in Executor!Thread, b # a \/ u # t
      PROVE  pc'[b][u] = pc[b][u] /\ sent'[b][u] = sent[b][u]
  BY <1>1, <1>2, <1>3
<1>4. pc'[a][t] = where /\ (sent'[a][t] = sent[a][t] \/ Reportable(reg'.d[a], sent'[a][t]))
  BY <1>1, <1>2
<1>5. ASSUME NEW b \in Action PROVE ThreadsMove(b)
  <2>1. ASSUME NEW u \in Executor!Thread
        PROVE  /\ \/ sent'[b][u] = sent[b][u] \/ sent'[b][u].state \notin Executor!Terminal
                  \/ sent'[b][u].state = reg'.d[b].state
                  \/ /\ sent'[b][u].state = "failed" /\ reg'.d[b].state = "completed"
                     /\ Executor!Withdraws /\ sent'[b][u].failure = reg'.d[b].failure
               /\ pc'[b][u] = "acking" => pc[b][u] = "acking"
               /\ pc'[b][u] \in {"watch", "observing", "fencing"} => Observes
               /\ pc'[b][u] = "retiring" => "retire" \in Commands
    <3>1. CASE b # a \/ u # t
      BY <1>3, <3>1 DEF WorkInv, FactsInv, WithdrawalsAreAsked
    <3>2. CASE b = a /\ u = t
      BY <1>4, <3>2 DEF MayGo, Reportable
    <3> QED
      BY <3>1, <3>2
  <2>2. ASSUME pc'[b]["cancel"] \in {"stopping", "interrupting"}
        PROVE  pc[b]["cancel"] \in {"stopping", "interrupting"} \/ server'[b].cancel
    <3>1. CASE b # a \/ t # "cancel"
      BY <1>1, <1>3, <2>2, <3>1
    <3>2. CASE b = a /\ t = "cancel"
      BY <1>4, <2>2, <3>2 DEF MayGo, ServerStill
    <3> QED
      BY <3>1, <3>2
  <2> QED
    BY <2>1, <2>2 DEF ThreadsMove
<1>6. ASSUME NEW b \in Action
      PROVE  /\ OutcomeStays(reg.d[b], reg'.d[b])
             /\ reg'.d[b].state \in Executor!Terminal =>
                   reg.d[b].state \in Executor!Terminal \/ b \in E
  BY DEF Leads, Outcomes
<1>7. ASSUME NEW b \in Action, pc'[b]["execution"] \in Placed
      PROVE  /\ \/ pc[b]["execution"] \in Placed
                \/ /\ reg'.d[b].lineage # Executor!NoLineage
                   /\ reg'.d[b].state \notin Executor!Terminal
             /\ reg'.d[b].state \in Executor!Terminal =>
                   reg.d[b].state \in Executor!Terminal \/ Executor!Withdraws
  <2>1. CASE b # a
    BY <1>1, <1>3, <1>6, <1>7, <2>1 DEF MayGo
  <2>2. CASE b = a /\ t # "execution"
    BY <1>1, <1>3, <1>6, <1>7, <2>2 DEF MayGo
  <2>3. CASE b = a /\ t = "execution"
    BY <1>4, <1>6, <1>7, <2>3 DEF MayGo
  <2> QED
    BY <2>1, <2>2, <2>3
<1>8. ASSUME NEW b \in Action PROVE WorkMoves(b)
  <2>1. reg'.d[b].state # "absent" <=> reg.d[b].state # "absent"
    BY <1>6 DEF OutcomeStays
  <2>2. Dispatched(b)' => Dispatched(b)
    BY <2>1 DEF Dispatched, ServerStill
  <2> QED
    BY <1>7, <2>1, <2>2 DEF WorkMoves
<1> QED
  BY <1>5, <1>6, <1>8 DEF Moves, RowMoves, ServerMoves, Leads

(* The server's rows left as they are, and one told that a turn runs.        *)
LEMMA ServerLeft ==
    ASSUME ExecutorType, NEW a \in Action, reg.d[a].state # "absent",
           \/ server' = server
           \/ server' = [server EXCEPT ![a] = Executor!server_apply(@, Executor!RunningFact)]
           \/ \E v \in BOOLEAN : server' = [server EXCEPT ![a].told = v]
    PROVE  \A b \in Action : ServerStill(b) /\ server'[b].retire = server[b].retire
<1> SUFFICES ASSUME NEW b \in Action
             PROVE  ServerStill(b) /\ server'[b].retire = server[b].retire
  OBVIOUS
<1>1. server \in [Action -> ServerRow] /\ server[a] \in ServerRow
  BY DEF ExecutorType
<1>2. CASE server' = server
  BY <1>2 DEF ServerStill
<1>3. CASE server' = [server EXCEPT ![a] = Executor!server_apply(server[a], Executor!RunningFact)]
  <2> DEFINE s == Executor!server_apply(server[a], Executor!RunningFact)
  <2>1. /\ s.cancel = server[a].cancel /\ s.retire = server[a].retire
        /\ \/ s.state = server[a].state /\ s.failure = server[a].failure
           \/ /\ server[a].state \notin Executor!Terminal
              /\ s.state \notin Executor!Terminal \cup {"scheduled"}
    <3>1. s = server[a] \/ (server[a].state \notin Executor!Terminal
                            /\ s = [server[a] EXCEPT !.state = "running"])
      BY DEF Executor!server_apply, Executor!RunningFact, Executor!Terminal
    <3> HIDE DEF s
    <3> QED
      BY <1>1, <3>1 DEF ServerRow, Executor!Terminal
  <2> HIDE DEF s
  <2>2. server'[b] = IF b = a THEN s ELSE server[b]
    BY <1>1, <1>3 DEF s
  <2> QED
    BY <2>1, <2>2 DEF ServerStill
<1>4. CASE \E v \in BOOLEAN : server' = [server EXCEPT ![a].told = v]
  BY <1>1, <1>4 DEF ServerStill, ServerRow
<1> QED
  BY <1>2, <1>3, <1>4

(* A thread goes on, and the intents to prompt are those that were.          *)
LEMMA GotoMoves ==
    ASSUME ExecutorInv, WorkInv, NEW a \in Action, NEW t \in Executor!Thread, NEW where,
           reg.d[a].state # "absent",
           Leads(reg, reg', {}), Keeps(reg, reg'), Executor!Goto(a, t, where),
           MayGo(a, t, where, {}),
           \/ server' = server
           \/ server' = [server EXCEPT ![a] = Executor!server_apply(@, Executor!RunningFact)]
           \/ \E v \in BOOLEAN : server' = [server EXCEPT ![a].told = v],
           UNCHANGED sent
    PROVE  Moves
<1>1. \A b \in Action : ServerStill(b) /\ server'[b].retire = server[b].retire
  BY ServerLeft DEF ExecutorInv
<1> QED
  BY <1>1, ThreadMoves DEF Keeps

(* A thread ends with its report.                                            *)
LEMMA ReportMoves ==
    ASSUME ExecutorInv, WorkInv, NEW a \in Action, NEW t \in Executor!Thread, NEW r, NEW E,
           reg.d[a].state # "absent", Leads(reg, r, E), Keeps(reg, r),
           E \subseteq {a}, t = "execution" \/ E = {} \/ Executor!Withdraws,
           \/ Executor!ThenReport(a, t, r)
           \/ /\ Executor!ThenReportFailure(a, t, r) /\ Executor!Withdraws
              /\ r.d[a].state \in Executor!Terminal,
           server' = server
    PROVE  Moves
<1>1. \A b \in Action : ServerStill(b) /\ server'[b].retire = server[b].retire
  BY ServerLeft DEF ExecutorInv
<1>2. reg' = r /\ Executor!Goto(a, t, "report")
  BY DEF Executor!ThenReport, Executor!ThenReportFailure
<1>3. PICK fact : sent' = [sent EXCEPT ![a][t] = fact] /\ Reportable(r.d[a], fact)
  <2> DEFINE fact1 == Executor!FactOf(r, a)
             fact2 == [Executor!FactOf(r, a)
                         EXCEPT !.state = IF @ = "uncertain" THEN @ ELSE "failed"]
  <2>1. CASE Executor!ThenReport(a, t, r)
    <3>1. sent' = [sent EXCEPT ![a][t] = fact1] /\ Reportable(r.d[a], fact1)
      BY <2>1 DEF Executor!ThenReport, Reportable, Executor!FactOf
    <3> QED
      BY <3>1
  <2>2. CASE /\ Executor!ThenReportFailure(a, t, r) /\ Executor!Withdraws
             /\ r.d[a].state \in Executor!Terminal
    <3>1. sent' = [sent EXCEPT ![a][t] = fact2] /\ Reportable(r.d[a], fact2)
      BY <2>2 DEF Executor!ThenReportFailure, Reportable, Executor!FactOf, Executor!Terminal
    <3> QED
      BY <3>1
  <2> QED
    BY <2>1, <2>2
<1>4. MayGo(a, t, "report", E)
  BY DEF MayGo, Places, Placed
<1> QED
  BY <1>1, <1>2, <1>3, <1>4, ThreadMoves DEF Keeps

(* The row of an operation under way is live.                                *)
LEMMA RowsAreLive ==
    ASSUME ExecutorInv, WorkInv, NEW a \in Action
    PROVE  /\ reg.d[a].state # "absent" => Live(reg, a)
           /\ \A t \in Executor!Thread : pc[a][t] # "idle" => Live(reg, a)
           /\ {"execution", "monitor", "authorize", "cancel", "retire"} \subseteq Executor!Thread
           /\ reg \in Executor!RegistryType
           /\ \A E : Stays(reg, reg, E) /\ Keeps(reg, reg)
<1>1. reg \in Executor!RegistryType /\ \A E : Stays(reg, reg, E) /\ Keeps(reg, reg)
  BY StaysSame, KeepsSame DEF ExecutorInv, ExecutorType
<1>2. reg.d[a].state # "absent" => Live(reg, a)
  BY <1>1 DEF Live, WorkInv, LineagesAreLogical
<1>3. \A t \in Executor!Thread : pc[a][t] # "idle" => reg.d[a].state # "absent"
  BY DEF ExecutorInv, NothingBeforeAcceptance
<1> QED
  BY <1>1, <1>2, <1>3 DEF Executor!Thread

(* What an execution throws.                                                 *)
LEMMA ThrowMoves ==
    ASSUME Executor!RegistryAssumption, ExecutorInv, WorkInv, NEW a \in Action,
           NEW error \in Executor!Fault, Executor!Throw(a, error),
           pc[a]["execution"] # "idle", server' = server
    PROVE  Moves
<1>1. /\ Live(reg, a) /\ "execution" \in Executor!Thread /\ reg.d[a].state # "absent"
      /\ reg \in Executor!RegistryType /\ \A E : Stays(reg, reg, E) /\ Keeps(reg, reg)
  BY RowsAreLive DEF Live
<1>2. MayGo(a, "execution", "idle", {}) /\ MayGo(a, "execution", "loop", {})
  BY DEF MayGo, Places, Placed
<1>3. CASE Executor!Goto(a, "execution", "idle") /\ UNCHANGED <<reg, sent>>
  BY <1>1, <1>2, <1>3, GotoMoves, LeadsChain
<1>4. ASSUME NEW r, Stays(reg, r, {a}), Keeps(reg, r),
             Executor!ThenReport(a, "execution", Executor!Failed(r, a, error))
      PROVE  Moves
  <2>1. r \in Executor!RegistryType /\ Live(r, a) /\ "starting" \in Executor!SessionState
    BY <1>1, <1>4, StaysLive DEF Keeps, Executor!SessionState
  <2>2. /\ Stays(r, Executor!Failed(r, a, error), {a})
        /\ Keeps(r, Executor!Failed(r, a, error))
    BY <2>1, StaysComposed, Composed
  <2>3. /\ Stays(reg, Executor!Failed(r, a, error), {a})
        /\ Keeps(reg, Executor!Failed(r, a, error))
    BY <1>4, <2>2, StaysChain, KeepsChain
  <2> QED
    BY <1>1, <1>4, <2>3, ReportMoves, LeadsChain
<1>5. CASE error \notin {"backend", "observation"}
  BY <1>1, <1>3, <1>4, <1>5 DEF Executor!Throw, Executor!failAndReport
<1>6. CASE error \in {"backend", "observation"}
  <2> DEFINE r == IF error = "observation" THEN Executor!recordObservationFailure(reg, a) ELSE reg
  <2>1. /\ Keeps(reg, r) /\ Stays(reg, r, {}) /\ Stays(reg, r, {a})
    BY <1>1, ObservationFailureRecorded, RowOperations
  <2>2. \/ /\ reg' = Executor!WithSession(r, a, "recovering")
           /\ Executor!Goto(a, "execution", "loop") /\ UNCHANGED sent
        \/ Executor!Goto(a, "execution", "idle") /\ UNCHANGED <<reg, sent>>
        \/ Executor!ThenReport(a, "execution", Executor!Failed(r, a, error))
    BY <1>6 DEF Executor!Throw
  <2> HIDE DEF r
  <2>3. CASE /\ reg' = Executor!WithSession(r, a, "recovering")
             /\ Executor!Goto(a, "execution", "loop") /\ UNCHANGED sent
    <3>1. /\ r \in Executor!RegistryType /\ Live(r, a)
          /\ "recovering" \in Executor!SessionState
      BY <1>1, <2>1, StaysLive DEF Keeps, Executor!SessionState
    <3>2. Stays(r, reg', {}) /\ Keeps(r, reg')
      BY <2>3, <3>1, StaysSession, Composed
    <3>3. Stays(reg, reg', {}) /\ Keeps(reg, reg')
      BY <2>1, <3>2, StaysChain, KeepsChain
    <3> QED
      BY <1>1, <1>2, <2>3, <3>3, GotoMoves, LeadsChain
  <2> QED
    BY <1>3, <1>4, <2>1, <2>2, <2>3
<1> QED
  BY <1>5, <1>6

(* An action is given a lineage in use that its logical lineage owns.        *)
LEMMA LineGiven ==
    ASSUME NEW r \in Executor!RegistryType, NEW a \in Action, NEW x \in Lineage, NEW E,
           r.l[x].session # "absent", r.l[x].logical \in {Logical[a], Executor!Retired},
           \A c \in Action : r.d[c].lineage = x => Logical[c] = Logical[a]
    PROVE  /\ Leads(r, [r EXCEPT !.d[a].lineage = x], E)
           /\ [r EXCEPT !.d[a].lineage = x].d[a].lineage = x
           /\ [r EXCEPT !.d[a].lineage = x].d[a].state = r.d[a].state
<1> DEFINE row == [r.d[a] EXCEPT !.lineage = x]
           s == [r EXCEPT !.d[a].lineage = x]
<1>1. /\ OutcomeStays(r.d[a], row) /\ row.lineage = x /\ row.state = r.d[a].state
      /\ \A b \in Action : OutcomeStays(r.d[b], r.d[b])
  <2>1. r.d[a] \in Row
    BY Typed
  <2> QED
    BY <2>1 DEF OutcomeStays, Row
<1>2. s.l = r.l /\ \A b \in Action : s.d[b] = IF b = a THEN row ELSE r.d[b]
  BY DEF Executor!RegistryType
<1> HIDE DEF row, s
<1>3. Outcomes(r, s, E) /\ LinesStay(r, s)
  BY <1>1, <1>2 DEF Outcomes, LinesStay
<1>4. \A b \in Action : Placing(r, s, b)
  BY <1>1, <1>2 DEF Placing
<1>5. s.d[a].lineage = x /\ s.d[a].state = r.d[a].state
  BY <1>1, <1>2
<1> QED
  BY <1>3, <1>4, <1>5 DEF Leads, s

(* resolveContinuation gives the lineage that its logical lineage owns.      *)
LEMMA AssignedLeads ==
    ASSUME Executor!RegistryAssumption, ExecutorInv, WorkInv, NEW a \in Action, NEW E,
           reg.d[a].state # "absent",
           reg.d[a].lineage # Executor!NoLineage \/ Executor!can_resolveContinuation(reg, a)
    PROVE  LET r == Executor!Assigned(reg, a)
           IN  /\ Leads(reg, r, E) /\ Keeps(reg, r) /\ Live(r, a)
               /\ r.d[a].lineage # Executor!NoLineage
<1> DEFINE r == Executor!Assigned(reg, a)
<1>1. Live(reg, a) /\ reg \in Executor!RegistryType
  BY RowsAreLive
<1>2. CASE reg.d[a].lineage # Executor!NoLineage
  <2>1. r = reg
    BY <1>2 DEF Executor!Assigned
  <2>2. Leads(reg, reg, E) /\ Keeps(reg, reg)
    BY RowsAreLive, LeadsChain
  <2> QED
    BY <1>1, <1>2, <2>1, <2>2
<1>3. CASE reg.d[a].lineage = Executor!NoLineage
  <2>1. PICK x : x = Executor!resolveContinuation(reg, a)
    OBVIOUS
  <2>2. x \in Lineage /\ reg.l[x].session # "absent" /\ reg.l[x].logical = Logical[a]
    BY <1>3, <2>1 DEF Executor!can_resolveContinuation, Executor!resolveContinuation,
                      Executor!ByLogical, Executor!Used
  <2>3. \A c \in Action : reg.d[c].lineage = x => Logical[c] = Logical[a]
    BY <2>2 DEF WorkInv, LineagesAreLogical, Executor!RegistryAssumption
  <2>4. r = [reg EXCEPT !.d[a].lineage = x]
    BY <1>3, <2>1 DEF Executor!Assigned, Executor!assignLineage
  <2> HIDE DEF r
  <2>5. Leads(reg, r, E) /\ r.d[a].lineage = x /\ r.d[a].state = reg.d[a].state
    BY <1>1, <2>2, <2>3, <2>4, LineGiven
  <2>6. Keeps(reg, r)
    BY <1>1, <1>3, Transferred DEF r
  <2>7. Live(r, a)
    BY <2>2, <2>5, <2>6 DEF Live, Keeps, Leads, LinesStay
  <2> QED
    BY <2>2, <2>5, <2>6, <2>7 DEF Executor!RegistryAssumption, r
<1> QED
  BY <1>2, <1>3

(* An execution starts in the lineage it is given.                           *)
LEMMA AssignedMoves ==
    ASSUME Executor!RegistryAssumption, ExecutorInv, WorkInv, NEW a \in Action,
           Executor!StartExecution(a)
    PROVE  Moves
<1>1. /\ pc[a]["execution"] = "loop" /\ server' = server /\ "other" \in Executor!Fault
      /\ reg.d[a].state # "absent" /\ reg.d[a].state \notin Executor!Terminal
      /\ "execution" \in Executor!Thread /\ "starting" \in Executor!SessionState
  BY RowsAreLive DEF Executor!StartExecution, Executor!At, Executor!Settled, Executor!Fault, Live,
                     Executor!SessionState
<1>2. CASE Executor!Throw(a, "other")
  BY <1>1, <1>2, ThrowMoves
<1>3. CASE ~Executor!Throw(a, "other")
  <2>1. PICK r : r = Executor!Assigned(reg, a)
    OBVIOUS
  <2>2. \/ /\ reg' = Executor!occupy(r, r.d[a].lineage, a)
           /\ Executor!Goto(a, "execution", "starting") /\ UNCHANGED sent
        \/ Executor!ThenReport(a, "execution", Executor!Failed(r, a, "other"))
    BY <1>3, <2>1 DEF Executor!StartExecution
  <2>3. /\ \A E : Leads(reg, r, E)
        /\ Keeps(reg, r) /\ Live(r, a) /\ r.d[a].lineage # Executor!NoLineage
    <3>1. reg.d[a].lineage # Executor!NoLineage \/ Executor!can_resolveContinuation(reg, a)
      BY <1>3 DEF Executor!StartExecution
    <3> QED
      BY <1>1, <2>1, <3>1, AssignedLeads
  <2>4. CASE /\ reg' = Executor!occupy(r, r.d[a].lineage, a)
             /\ Executor!Goto(a, "execution", "starting") /\ UNCHANGED sent
    <3>1. Stays(r, reg', {}) /\ Keeps(r, reg')
      BY <1>1, <2>3, <2>4, StaysSession, Occupied DEF Live
    <3>2. /\ Leads(reg, reg', {}) /\ Keeps(reg, reg')
          /\ reg'.d[a].lineage # Executor!NoLineage
      BY <2>3, <3>1, LeadsChain, KeepsChain DEF Stays
    <3>3. MayGo(a, "execution", "starting", {})
      BY <1>1, <3>2 DEF MayGo, Places, Placed
    <3> QED
      BY <1>1, <2>4, <3>2, <3>3, GotoMoves
  <2>5. CASE Executor!ThenReport(a, "execution", Executor!Failed(r, a, "other"))
    <3>1. /\ Stays(r, Executor!Failed(r, a, "other"), {a})
          /\ Keeps(r, Executor!Failed(r, a, "other"))
      BY <1>1, <2>3, StaysComposed, Composed DEF Live
    <3>2. /\ Leads(reg, Executor!Failed(r, a, "other"), {a})
          /\ Keeps(reg, Executor!Failed(r, a, "other"))
      BY <2>3, <3>1, LeadsChain, KeepsChain
    <3> QED
      BY <1>1, <2>5, <3>2, ReportMoves
  <2> QED
    BY <2>2, <2>4, <2>5
<1> QED
  BY <1>2, <1>3

(* A prepared process is adopted, or replaced by one in a new lineage.       *)
LEMMA TransferLeads ==
    ASSUME Executor!RegistryAssumption, ExecutorInv, WorkInv, NEW a \in Action, NEW E,
           reg.d[a].lineage # Executor!NoLineage
    PROVE  /\ Leads(reg, Executor!adoptPreparedProcess(reg, a, reg.d[a].lineage), E)
           /\ Executor!Used(reg) # Lineage =>
                 Leads(reg, Executor!replacePreparedProcessWithFresh(reg, a, reg.d[a].lineage), E)
<1>1. PICK x \in Lineage : x = reg.d[a].lineage
  BY Typed DEF ExecutorInv, ExecutorType, Row
<1>2. reg \in Executor!RegistryType /\ reg.l[x] \in Line /\ reg.l[x].session # "absent"
  BY <1>1, Typed DEF ExecutorInv, ExecutorType, WorkInv, LineagesAreLogical
<1>3. Leads(reg, Executor!adoptPreparedProcess(reg, a, x), E)
  <2> DEFINE line == [reg.l[x] EXCEPT !.active = a, !.session = "starting"]
             s == [reg EXCEPT !.l[x] = line]
             t == [s EXCEPT !.moved[a] = "adopted"]
  <2>1. line.session # "absent" /\ line.logical = reg.l[x].logical
    BY <1>2 DEF Line
  <2>2. Stays(reg, s, E)
    <3> HIDE DEF line
    <3> QED
      BY <1>2, <2>1, StaysLine
  <2>3. t.d = s.d /\ t.l = s.l
    BY <1>2 DEF Executor!RegistryType
  <2>4. t = Executor!adoptPreparedProcess(reg, a, x)
    BY DEF Executor!adoptPreparedProcess
  <2> HIDE DEF s, t
  <2>5. Stays(s, t, E)
    BY <2>3, StaysSame
  <2> QED
    BY <2>2, <2>4, <2>5, StaysChain, LeadsChain
<1>4. ASSUME Executor!Used(reg) # Lineage
      PROVE  Leads(reg, Executor!replacePreparedProcessWithFresh(reg, a, x), E)
  <2>1. PICK y : y = Executor!FreshLineage(reg)
    OBVIOUS
  <2>2. y \in Lineage /\ reg.l[y].session = "absent" /\ y # x
    BY <1>2, <1>4, <2>1, FreshIsUnused DEF Executor!Used
  <2>3. \A c \in Action : reg.d[c].lineage # y
    BY <2>2 DEF WorkInv, LineagesAreLogical, Executor!RegistryAssumption
  <2> DEFINE line == [reg.l[x] EXCEPT !.logical = Executor!Retired]
             new == [logical |-> Logical[a], session |-> "starting", active |-> a,
                     handle |-> FALSE, native |-> FALSE]
             l == [reg.l EXCEPT ![x] = line, ![y] = new]
             s == [reg EXCEPT !.l = l]
             t == [s EXCEPT !.d[a].lineage = y]
             u == [t EXCEPT !.moved[a] = "fallback"]
  <2>4. u = Executor!replacePreparedProcessWithFresh(reg, a, x)
    BY <1>2, <2>1, <2>2 DEF Executor!replacePreparedProcessWithFresh, Executor!InsertLineage,
                            Executor!RegistryType
  <2>5. /\ line \in Line /\ line.session # "absent" /\ line.logical = Executor!Retired
        /\ new \in Line /\ new.session # "absent" /\ new.logical = Logical[a]
    BY <1>2 DEF Line, Executor!SessionState
  <2>6. /\ reg.l \in [Lineage -> Line]
        /\ \A z \in Lineage : l[z] = IF z = y THEN new ELSE IF z = x THEN line ELSE reg.l[z]
    BY <1>2, <2>2, Typed
  <2>7. l \in [Lineage -> Line]
    BY <2>5, <2>6
  <2> HIDE DEF line, new, l
  <2>8. Stays(reg, s, E)
    BY <1>2, <2>2, <2>5, <2>6, StaysLines
  <2>9. s \in Executor!RegistryType /\ s.d = reg.d /\ s.l = l
    BY <1>2, <2>7 DEF Executor!RegistryType, Line
  <2> HIDE DEF s
  <2>10. Leads(s, t, E)
    BY <2>2, <2>3, <2>5, <2>6, <2>9, LineGiven
  <2>11. Leads(reg, t, E)
    <3>1. Outcomes(reg, t, E) /\ LinesStay(reg, t) /\ \A b \in Action : Placing(reg, t, b)
      BY <2>8, <2>9, <2>10 DEF Leads, Stays, Outcomes, LinesStay, Placing
    <3> QED
      BY <3>1 DEF Leads
  <2>12. u.d = t.d /\ u.l = t.l
    BY <2>9 DEF Executor!RegistryType
  <2> HIDE DEF t, u
  <2>13. Stays(t, u, E)
    BY <2>12, StaysSame
  <2> QED
    BY <2>4, <2>11, <2>13, LeadsChain
<1> QED
  BY <1>1, <1>3, <1>4

(* A prepared process is transferred to an execution that awaited its proof. *)
LEMMA TransferMoves ==
    ASSUME Executor!RegistryAssumption, ExecutorInv, WorkInv, NEW a \in Action,
           Executor!AdoptPrepared(a) \/ Executor!ReplacePrepared(a)
    PROVE  Moves
<1>1. /\ pc[a]["execution"] = "proving" /\ server' = server /\ "other" \in Executor!Fault
      /\ reg.d[a].state # "absent" /\ reg.d[a].lineage # Executor!NoLineage
      /\ "execution" \in Executor!Thread /\ reg \in Executor!RegistryType
  BY RowsAreLive DEF Executor!AdoptPrepared, Executor!ReplacePrepared, Executor!At,
     Executor!Fault, Live, WorkInv, LineagesAreLogical, Placed
<1>2. CASE Executor!Throw(a, "other")
  BY <1>1, <1>2, ThrowMoves
<1>3. CASE ~Executor!Throw(a, "other")
  <2>1. /\ Executor!Goto(a, "execution", "starting") /\ UNCHANGED sent
        /\ \/ reg' = Executor!adoptPreparedProcess(reg, a, reg.d[a].lineage)
           \/ /\ Executor!Used(reg) # Lineage
              /\ reg' = Executor!replacePreparedProcessWithFresh(reg, a, reg.d[a].lineage)
    BY <1>3 DEF Executor!AdoptPrepared, Executor!ReplacePrepared,
                Executor!can_replacePreparedProcessWithFresh
  <2>2. Leads(reg, reg', {})
    BY <1>1, <2>1, TransferLeads
  <2>3. Keeps(reg, reg')
    BY <1>1, <2>1, Transferred
  <2>4. MayGo(a, "execution", "starting", {})
    BY <1>1 DEF MayGo, Places, Placed
  <2> QED
    BY <1>1, <2>1, <2>2, <2>3, <2>4, GotoMoves
<1> QED
  BY <1>2, <1>3

(* One operation after another on the live row of an action.                 *)
Goes(r, s, a) ==
    Stays(r, s, {}) /\ Keeps(r, s) /\ Live(s, a) /\ s.d[a].lineage = r.d[a].lineage

(* Two of them.                                                              *)
LEMMA GoesChain ==
    ASSUME NEW r, NEW s, NEW t, NEW a, Goes(r, s, a), Goes(s, t, a)
    PROVE  Goes(r, t, a)
  BY StaysChain, KeepsChain DEF Goes

(* What each operation leaves of it.                                         *)
LEMMA OperationGoes ==
    ASSUME NEW r, NEW s, NEW a \in Action, Live(r, a), Stays(r, s, {}), Keeps(r, s)
    PROVE  Goes(r, s, a)
<1>1. Live(s, a)
  BY StaysLive DEF Keeps
<1> QED
  BY <1>1 DEF Goes, Stays

(* ... the one that writes the state of its session.                         *)
LEMMA SessionGoes ==
    ASSUME Executor!RegistryAssumption, NEW a \in Action, NEW r, Live(r, a),
           NEW state \in Executor!SessionState, state # "absent"
    PROVE  Goes(r, Executor!updateSession(r, r.d[a].lineage, state), a)
<1>1. Stays(r, Executor!updateSession(r, r.d[a].lineage, state), {})
  BY StaysSession
<1>2. Keeps(r, Executor!updateSession(r, r.d[a].lineage, state))
  BY SessionUpdated DEF Live
<1> QED
  BY <1>1, <1>2, OperationGoes

(* ... and the others.                                                       *)
LEMMA Operated ==
    ASSUME Executor!RegistryAssumption, NEW a \in Action, NEW r, Live(r, a)
    PROVE  /\ Goes(r, r, a)
           /\ Goes(r, Executor!recordExecution(r, r.d[a].lineage), a)
           /\ Goes(r, Executor!recordNativeSession(r, r.d[a].lineage), a)
           /\ Goes(r, Executor!occupy(r, r.d[a].lineage, a), a)
           /\ Goes(r, Executor!markPromptAccepted(r, a), a)
           /\ Goes(r, Executor!markNativeActivity(r, a), a)
           /\ Goes(r, Executor!resumeObservationUncertainty(r, a), a)
<1>1. r \in Executor!RegistryType /\ r.d[a].state # "absent"
  BY DEF Live
<1>2. Goes(r, r, a)
  <2>1. Stays(r, r, {}) /\ Keeps(r, r)
    BY <1>1, StaysSame, KeepsSame
  <2> QED
    BY <2>1, OperationGoes
<1>3. /\ Goes(r, Executor!recordExecution(r, r.d[a].lineage), a)
      /\ Goes(r, Executor!recordNativeSession(r, r.d[a].lineage), a)
      /\ Goes(r, Executor!occupy(r, r.d[a].lineage, a), a)
  <2>1. PICK state : state = "running"
    OBVIOUS
  <2>2. /\ Stays(r, Executor!recordExecution(r, r.d[a].lineage), {})
        /\ Stays(r, Executor!recordNativeSession(r, r.d[a].lineage), {})
        /\ Stays(r, Executor!occupy(r, r.d[a].lineage, a), {})
    <3>1. state # "absent"
      BY <2>1
    <3> QED
      BY <3>1, StaysSession
  <2>3. /\ Keeps(r, Executor!recordExecution(r, r.d[a].lineage))
        /\ Keeps(r, Executor!recordNativeSession(r, r.d[a].lineage))
        /\ Keeps(r, Executor!occupy(r, r.d[a].lineage, a))
    BY <1>1, ExecutionRecorded, NativeRecorded, Occupied
  <2> QED
    BY <2>2, <2>3, OperationGoes
<1>4. /\ Goes(r, Executor!markPromptAccepted(r, a), a)
      /\ Goes(r, Executor!markNativeActivity(r, a), a)
      /\ Goes(r, Executor!resumeObservationUncertainty(r, a), a)
  <2>1. /\ Stays(r, Executor!markPromptAccepted(r, a), {})
        /\ Stays(r, Executor!markNativeActivity(r, a), {})
        /\ Stays(r, Executor!resumeObservationUncertainty(r, a), {})
    BY <1>1, RowOperations
  <2>2. /\ Keeps(r, Executor!markPromptAccepted(r, a))
        /\ Keeps(r, Executor!markNativeActivity(r, a))
        /\ Keeps(r, Executor!resumeObservationUncertainty(r, a))
    BY <1>1, PromptFactsWritten, ObservationFailureRecorded
  <2> QED
    BY <2>1, <2>2, OperationGoes
<1> QED
  BY <1>2, <1>3, <1>4

(* The next operation on what one has written.                               *)
LEMMA NextOperation ==
    ASSUME Executor!RegistryAssumption, NEW a \in Action, NEW r, NEW s, Goes(r, s, a)
    PROVE  /\ Goes(r, Executor!recordExecution(s, r.d[a].lineage), a)
           /\ Goes(r, Executor!recordNativeSession(s, r.d[a].lineage), a)
           /\ Goes(r, Executor!markNativeActivity(s, a), a)
           /\ Goes(r, Executor!resumeObservationUncertainty(s, a), a)
           /\ \A state \in Executor!SessionState \ {"absent"} :
                 Goes(r, Executor!updateSession(s, r.d[a].lineage, state), a)
<1>1. PICK x : x = r.d[a].lineage
  OBVIOUS
<1>2. Live(s, a) /\ s.d[a].lineage = x
  BY <1>1 DEF Goes
<1>3. /\ Goes(s, Executor!recordExecution(s, x), a)
      /\ Goes(s, Executor!recordNativeSession(s, x), a)
      /\ Goes(s, Executor!markNativeActivity(s, a), a)
      /\ Goes(s, Executor!resumeObservationUncertainty(s, a), a)
  BY <1>2, Operated
<1>4. ASSUME NEW state \in Executor!SessionState \ {"absent"}
      PROVE  Goes(s, Executor!updateSession(s, x, state), a)
  BY <1>2, SessionGoes
<1>5. ASSUME NEW t, Goes(s, t, a) PROVE Goes(r, t, a)
  BY <1>5, GoesChain
<1> QED
  BY <1>1, <1>3, <1>4, <1>5

(* An execution at work goes on with it.                                     *)
LEMMA WorkGoesOn ==
    ASSUME ExecutorInv, WorkInv, NEW a \in Action, NEW where \in Placed,
           pc[a]["execution"] \in Placed, where \in {"observing", "fencing"} => Observes,
           Goes(reg, reg', a), Executor!Goto(a, "execution", where),
           \/ server' = server
           \/ server' = [server EXCEPT ![a] = Executor!server_apply(@, Executor!RunningFact)],
           UNCHANGED sent
    PROVE  Moves
<1>1. MayGo(a, "execution", where, {})
  BY DEF MayGo, Placed, Places
<1>2. "execution" \in Executor!Thread /\ reg.d[a].state # "absent"
  BY RowsAreLive DEF Placed, Live
<1>3. Leads(reg, reg', {}) /\ Keeps(reg, reg')
  BY LeadsChain DEF Goes
<1> QED
  BY <1>1, <1>2, <1>3, GotoMoves

(* The execution, from its top to the prompt gate.                           *)
LEMMA StartMoves ==
    ASSUME Executor!RegistryAssumption, ExecutorInv, WorkInv, NEW a \in Action,
           \/ Executor!ReportSettled(a) \/ Executor!StartRecovery(a) \/ Executor!StartAdoption(a)
           \/ Executor!HarnessStarts(a)
    PROVE  Moves
<1>0. /\ pc[a]["execution"] # "idle" /\ Live(reg, a) /\ reg.d[a].state # "absent"
      /\ "execution" \in Executor!Thread /\ Leads(reg, reg, {}) /\ Keeps(reg, reg)
      /\ server' = server
  BY RowsAreLive, LeadsChain DEF Live, Executor!ReportSettled, Executor!StartRecovery,
     Executor!StartAdoption, Executor!HarnessStarts, Executor!At
<1>1. CASE Executor!ReportSettled(a)
  BY <1>0, <1>1, ReportMoves DEF Executor!ReportSettled
<1>2. CASE Executor!StartRecovery(a) \/ Executor!StartAdoption(a)
  <2>1. PICK where \in {"recovering", "proving"} :
          Executor!Goto(a, "execution", where) /\ UNCHANGED <<reg, sent>>
    BY <1>2 DEF Executor!StartRecovery, Executor!StartAdoption
  <2>2. reg.d[a].state \notin Executor!Terminal
    BY <1>2 DEF Executor!StartRecovery, Executor!StartAdoption, Executor!Settled
  <2>3. reg.d[a].lineage # Executor!NoLineage
    <3>1. \/ reg.d[a].intent \/ reg.d[a].lineage # Executor!NoLineage
          \/ Mode[a] = "retained"
      BY <1>2 DEF Executor!StartRecovery, Executor!StartAdoption, Executor!shouldRecover,
         Executor!preparedProcessAdoptionSource
    <3> QED
      BY <1>0, <3>1 DEF WorkInv, LineagesAreLogical
  <2>4. MayGo(a, "execution", where, {})
    BY <2>1, <2>2, <2>3 DEF MayGo, Places, Placed
  <2> QED
    BY <1>0, <2>1, <2>4, GotoMoves
<1>3. CASE Executor!HarnessStarts(a)
  <2> DEFINE r == Executor!recordExecution(reg, reg.d[a].lineage)
  <2>1. /\ pc[a]["execution"] = "starting" /\ UNCHANGED <<server, sent>>
        /\ reg' = Executor!updateSession(r, reg.d[a].lineage, "starting")
        /\ Executor!Goto(a, "execution", "gate")
    BY <1>3 DEF Executor!HarnessStarts, Executor!At
  <2>2. "starting" \in Executor!SessionState
    BY DEF Executor!SessionState
  <2>3. Goes(reg, r, a)
    BY <1>0, Operated
  <2> HIDE DEF r
  <2>4. Goes(reg, reg', a)
    BY <2>1, <2>2, <2>3, NextOperation
  <2> QED
    BY <2>1, <2>4, WorkGoesOn DEF Placed
<1> QED
  BY <1>1, <1>2, <1>3

(* The execution writes its intent to prompt and submits.                    *)
LEMMA IntentMoves ==
    ASSUME ExecutorInv, WorkInv, NEW a \in Action, NEW r, Goes(reg, r, a),
           pc[a]["execution"] \in Placed, Executor!Goto(a, "execution", "sending"),
           reg' = Executor!markPromptIntent(r, a), server' = server, UNCHANGED sent
    PROVE  Moves
<1>1. /\ "execution" \in Executor!Thread /\ reg.d[a].state # "absent"
      /\ r \in Executor!RegistryType /\ r.d[a].state # "absent"
  BY RowsAreLive DEF Placed, Live, Goes
<1>2. Stays(r, reg', {})
  BY <1>1, RowOperations
<1>3. Leads(reg, reg', {})
  BY <1>2, StaysChain, LeadsChain DEF Goes
<1>4. MayGo(a, "execution", "sending", {})
  BY DEF MayGo, Placed, Places
<1>5. \A b \in Action : ServerStill(b) /\ server'[b].retire = server[b].retire
  BY <1>1, ServerLeft DEF ExecutorInv
<1>6. ASSUME NEW b \in Action, b # a PROVE reg'.d[b].intent = reg.d[b].intent
  <2>1. reg'.d[b] = r.d[b]
    BY <1>1, <1>6 DEF Executor!markPromptIntent, Executor!RegistryType
  <2> QED
    BY <2>1 DEF Goes, Keeps
<1> QED
  BY <1>1, <1>3, <1>4, <1>5, <1>6, ThreadMoves

(* The execution from the prompt gate to the end of the turn.                *)
LEMMA WorkMovesOn ==
    ASSUME Executor!RegistryAssumption, ExecutorInv, WorkInv, NEW a \in Action,
           \/ Executor!PromptGate(a) \/ Executor!Recovered(a) \/ Executor!NotRecovered(a)
           \/ Executor!Continued(a) \/ Executor!Submit(a) \/ Executor!CannotSubmit(a)
           \/ Executor!PromptAccepted(a) \/ Executor!Collected(a)
           \/ Executor!stagePromptAuthorization(a)
           \/ \E error \in Executor!Fault : Executor!HarnessFails(a, error)
    PROVE  Moves
<1>0. /\ pc[a]["execution"] \in Placed /\ pc[a]["execution"] # "idle"
      /\ Live(reg, a) /\ reg.d[a].state # "absent" /\ reg \in Executor!RegistryType
      /\ "execution" \in Executor!Thread /\ Goes(reg, reg, a)
      /\ {"other", "backend", "observation", "prepare", "contract"} \subseteq Executor!Fault
      /\ {"running", "waiting_for_human", "starting"} \subseteq Executor!SessionState
      /\ Executor!Observing \in Placed
      /\ Executor!Observing \in {"observing", "fencing"} => Observes
  <2>1. {"running", "waiting_for_human", "starting"} \subseteq Executor!SessionState
    BY Zenon DEF Executor!SessionState
  <2>2. pc[a]["execution"] \in Placed /\ "idle" \notin Placed
    BY DEF Executor!PromptGate, Executor!Recovered, Executor!NotRecovered, Executor!Continued,
       Executor!Submit, Executor!CannotSubmit, Executor!PromptAccepted, Executor!Collected,
       Executor!stagePromptAuthorization, Executor!HarnessFails, Executor!At, Placed
  <2>3. Live(reg, a) /\ reg \in Executor!RegistryType /\ "execution" \in Executor!Thread
    BY <2>2, RowsAreLive
  <2>4. Goes(reg, reg, a)
    BY <2>3, Operated
  <2> QED
    BY <2>1, <2>2, <2>3, <2>4 DEF Live, Executor!Fault, Executor!Observing, Placed
<1>1. CASE Executor!PromptGate(a)
  <2>1. server' = server /\ UNCHANGED sent
    BY <1>1 DEF Executor!PromptGate
  <2>2. CASE Executor!Goto(a, "execution", Executor!Observing) /\ UNCHANGED reg
    BY <1>0, <2>1, <2>2, WorkGoesOn DEF Goes
  <2>3. CASE /\ Executor!Goto(a, "execution", "sending")
             /\ reg' = Executor!markPromptIntent(reg, a)
    BY <1>0, <2>1, <2>3, IntentMoves
  <2> QED
    BY <1>1, <2>2, <2>3 DEF Executor!PromptGate
<1>2. CASE Executor!Recovered(a)
  <2>1. PICK s : /\ s = Executor!recordExecution(reg, reg.d[a].lineage)
                       \/ s = Executor!recordNativeSession(reg, reg.d[a].lineage)
                 /\ reg' = Executor!resumeObservationUncertainty(s, a)
    BY <1>2, Zenon DEF Executor!Recovered
  <2>2. PICK where \in {"collecting", "continuing", Executor!Observing} :
           Executor!Goto(a, "execution", where)
    BY <1>2, Zenon DEF Executor!Recovered
  <2>3. /\ \/ server' = server
           \/ server' = [server EXCEPT ![a] = Executor!server_apply(@, Executor!RunningFact)]
        /\ UNCHANGED sent
    BY <1>2, Zenon DEF Executor!Recovered
  <2>4. Goes(reg, s, a)
    BY <1>0, <2>1, Operated
  <2>6. Goes(reg, reg', a)
    BY <2>1, <2>4, NextOperation
  <2>7. where \in Placed /\ (where \in {"observing", "fencing"} => Observes)
    BY <1>0, <2>2 DEF Placed
  <2> QED
    BY <1>0, <2>2, <2>3, <2>6, <2>7, WorkGoesOn
<1>3. CASE Executor!NotRecovered(a) \/ Executor!CannotSubmit(a)
  BY <1>0, <1>3, ThrowMoves DEF Executor!NotRecovered, Executor!CannotSubmit
<1>4. CASE Executor!Continued(a)
  <2>1. server' = server
    BY <1>4 DEF Executor!Continued
  <2>2. CASE Executor!Throw(a, "other")
    BY <1>0, <2>1, <2>2, ThrowMoves
  <2>3. CASE ~Executor!Throw(a, "other")
    <3>1. PICK s : s = Executor!occupy(reg, reg.d[a].lineage, a)
      OBVIOUS
    <3>2. PICK r : r = Executor!recordExecution(s, reg.d[a].lineage)
      OBVIOUS
    <3>3. /\ reg' = Executor!markPromptIntent(r, a)
          /\ Executor!Goto(a, "execution", "sending") /\ UNCHANGED sent
      BY <1>4, <2>3, <3>1, <3>2 DEF Executor!Continued
    <3>4. Goes(reg, s, a)
      BY <1>0, <3>1, Operated
    <3>6. Goes(reg, r, a)
      BY <3>2, <3>4, NextOperation
    <3> QED
      BY <1>0, <2>1, <3>3, <3>6, IntentMoves
  <2> QED
    BY <2>2, <2>3
<1>5. CASE Executor!Submit(a)
  <2>1. Executor!Goto(a, "execution", "accepting") /\ UNCHANGED <<reg, sent, server>>
    BY <1>5 DEF Executor!Submit
  <2> QED
    BY <1>0, <2>1, WorkGoesOn DEF Goes, Placed
<1>6. CASE Executor!PromptAccepted(a)
  <2>1. PICK r1 : r1 = Executor!markPromptAccepted(reg, a)
    OBVIOUS
  <2>2. PICK r2 : r2 = Executor!markNativeActivity(r1, a)
    OBVIOUS
  <2>3. PICK r3 : r3 = Executor!recordNativeSession(r2, reg.d[a].lineage)
    OBVIOUS
  <2>4. /\ reg' = Executor!updateSession(r3, reg.d[a].lineage, "running")
        /\ Executor!Goto(a, "execution", "collecting") /\ UNCHANGED sent
        /\ \/ server' = server
           \/ server' = [server EXCEPT ![a] = Executor!server_apply(@, Executor!RunningFact)]
    BY <1>6, <2>1, <2>2, <2>3 DEF Executor!PromptAccepted
  <2>5. Goes(reg, r1, a)
    BY <1>0, <2>1, Operated
  <2>6. Goes(reg, r2, a)
    BY <2>2, <2>5, NextOperation
  <2>7. Goes(reg, r3, a)
    BY <2>3, <2>6, NextOperation
  <2>8. Goes(reg, reg', a)
    BY <1>0, <2>4, <2>7, NextOperation
  <2> QED
    BY <1>0, <2>4, <2>8, WorkGoesOn DEF Placed
<1>7. CASE Executor!Collected(a)
  <2>1. server' = server /\ UNCHANGED recovery
    BY <1>7 DEF Executor!Collected
  <2>2. CASE Executor!Throw(a, "other")
    BY <1>0, <2>1, <2>2, ThrowMoves
  <2>3. CASE ~Executor!Throw(a, "other")
    <3>1. /\ reg.d[a].state # "failed"
          /\ Executor!ThenReport(a, "execution", Executor!complete(reg, a))
      BY <1>7, <2>1, <2>3 DEF Executor!Collected, Executor!Throw, Executor!can_complete
    <3>2. reg.d[a].state = "completed" => reg.d[a].failure = "none"
      BY DEF WorkInv, FactsInv, OutcomesAgree
    <3>3. "other" \in Executor!FailureFact
      BY DEF Executor!FailureFact
    <3>4. Stays(reg, Executor!complete(reg, a), {a})
      BY <1>0, <3>1, <3>2, <3>3, EndOperations
    <3>5. Keeps(reg, Executor!complete(reg, a))
      BY <1>0, <3>3, TerminalWritten
    <3> QED
      BY <1>0, <2>1, <3>1, <3>4, <3>5, ReportMoves, LeadsChain
  <2> QED
    BY <2>2, <2>3
<1>8. CASE Executor!stagePromptAuthorization(a)
  <2>1. /\ reg' = Executor!updateSession(reg, reg.d[a].lineage, "waiting_for_human")
        /\ Executor!Goto(a, "execution", "staged") /\ UNCHANGED <<sent, server>>
    BY <1>8 DEF Executor!stagePromptAuthorization
  <2>2. Goes(reg, reg', a)
    BY <1>0, <2>1, NextOperation
  <2> QED
    BY <1>0, <2>1, <2>2, WorkGoesOn DEF Placed
<1>9. ASSUME NEW error \in Executor!Fault, Executor!HarnessFails(a, error) PROVE Moves
  BY <1>0, <1>9, ThrowMoves DEF Executor!HarnessFails
<1> QED
  BY <1>1, <1>2, <1>3, <1>4, <1>5, <1>6, <1>7, <1>8, <1>9

(* Threads end, or start from the top, and what they send is dropped or kept. *)
LEMMA QuietMoves ==
    ASSUME ExecutorInv, WorkInv, Stays(reg, reg', {}), Keeps(reg, reg'),
           \A b \in Action :
               /\ ServerStill(b)
               /\ server'[b].retire => server[b].retire \/ "retire" \in Commands
               /\ \A t \in Executor!Thread :
                     /\ sent'[b][t] = sent[b][t] \/ sent'[b][t].state \notin Executor!Terminal
                     /\ \/ pc'[b][t] = pc[b][t] \/ pc'[b][t] \in {"idle", "loop"}
                        \/ pc'[b][t] = "watch" /\ Observes
    PROVE  Moves
<1> SUFFICES ASSUME NEW b \in Action
             PROVE  /\ RowMoves(b) /\ ServerMoves(b) /\ ThreadsMove(b)
                    /\ WorkMoves(b) /\ Placing(reg, reg', b)
  BY DEF Moves, Stays
<1>1. /\ OutcomeStays(reg.d[b], reg'.d[b]) /\ Placing(reg, reg', b)
      /\ reg'.d[b].state \in Executor!Terminal => reg.d[b].state \in Executor!Terminal
      /\ reg'.d[b].intent = reg.d[b].intent
      /\ reg'.d[b].state = "absent" <=> reg.d[b].state = "absent"
  BY DEF Stays, Outcomes, OutcomeStays, Placing, Keeps
<1>2. "execution" \in Executor!Thread /\ "cancel" \in Executor!Thread
  BY DEF Executor!Thread
<1>3. ThreadsMove(b)
  <2>1. pc'[b]["cancel"] \in {"stopping", "interrupting"} =>
            pc[b]["cancel"] \in {"stopping", "interrupting"}
    BY <1>2
  <2>2. ASSUME NEW t \in Executor!Thread
        PROVE  /\ pc'[b][t] = "acking" => pc[b][t] = "acking"
               /\ pc'[b][t] \in {"watch", "observing", "fencing"} => Observes
               /\ pc'[b][t] = "retiring" => "retire" \in Commands
    BY DEF WorkInv, FactsInv, WithdrawalsAreAsked
  <2> QED
    BY <2>1, <2>2 DEF ThreadsMove
<1>4. pc'[b]["execution"] \in Placed => pc[b]["execution"] \in Placed
  BY <1>2 DEF Placed
<1>5. Dispatched(b)' => Dispatched(b)
  BY <1>1 DEF Dispatched, ServerStill
<1>6. WorkMoves(b)
  BY <1>1, <1>4, <1>5 DEF WorkMoves
<1> QED
  BY <1>1, <1>3, <1>6 DEF RowMoves, ServerMoves

(* A withdrawal ends the dispatch as it finds it.                            *)
LEMMA WithdrawnMoves ==
    ASSUME Executor!RegistryAssumption, ExecutorInv, WorkInv, NEW a \in Action,
           NEW t \in Executor!Thread, NEW failure \in Executor!FailureFact, Executor!Withdraws,
           reg.d[a].state # "absent", server' = server,
           Executor!ThenReportFailure(a, t,
               Executor!updateSession(Executor!fail(reg, a, failure, FALSE),
                                      reg.d[a].lineage, "unavailable"))
    PROVE  Moves
<1>1. Live(reg, a) /\ reg \in Executor!RegistryType
  BY RowsAreLive
<1>2. PICK s : s = Executor!fail(reg, a, failure, FALSE)
  OBVIOUS
<1>3. PICK r : r = Executor!updateSession(s, reg.d[a].lineage, "unavailable")
  OBVIOUS
<1>4. reg.d[a].state = "completed" => reg.d[a].failure = "none"
  BY DEF WorkInv, FactsInv, OutcomesAgree
<1>5. Stays(reg, s, {a}) /\ Keeps(reg, s)
  BY <1>1, <1>2, <1>4, EndOperations, TerminalWritten
<1>6. Live(s, a) /\ s.d[a].lineage = reg.d[a].lineage /\ s \in Executor!RegistryType
  BY <1>1, <1>5, StaysLive DEF Keeps, Stays
<1>7. "unavailable" \in Executor!SessionState
  BY DEF Executor!SessionState
<1>8. Stays(s, r, {a}) /\ Keeps(s, r)
  BY <1>3, <1>6, <1>7, StaysSession, SessionUpdated
<1>9. Leads(reg, r, {a}) /\ Keeps(reg, r)
  BY <1>5, <1>8, StaysChain, KeepsChain, LeadsChain
<1>10. r.d[a].state \in Executor!Terminal
  <2>1. s.d[a].state \in Executor!Terminal
    <3> DEFINE row == [reg.d[a] EXCEPT !.state = "failed", !.failure = failure]
               q == [reg EXCEPT !.d[a] = row]
    <3>1. row.state = "failed"
      <4>1. reg.d[a] \in Row
        BY <1>1, Typed
      <4> QED
        BY <4>1 DEF Row
    <3>2. q.d[a] = row
      BY <1>1 DEF Executor!RegistryType
    <3>3. /\ reg.d[a].state = "completed" => s = Executor!ReleaseLineage(reg, a)
          /\ reg.d[a].state # "completed" => s = Executor!ReleaseLineage(q, a)
      BY <1>2 DEF Executor!fail
    <3>4. q \in Executor!RegistryType
      <4>1. row \in Row
        <5>1. reg.d[a] \in Row
          BY <1>1, Typed
        <5> QED
          BY <5>1 DEF Row, Executor!DispatchState
      <4> HIDE DEF row
      <4> QED
        BY <1>1, <4>1 DEF Executor!RegistryType, Row
    <3> HIDE DEF row, q
    <3>5. \A p \in Executor!RegistryType : Executor!ReleaseLineage(p, a).d = p.d
      BY DEF Executor!ReleaseLineage, Executor!RegistryType
    <3> QED
      BY <1>1, <3>1, <3>2, <3>3, <3>4, <3>5 DEF Executor!Terminal
  <2> QED
    BY <1>3, <1>6, <2>1 DEF Executor!updateSession, Executor!RegistryType
<1> QED
  BY <1>2, <1>3, <1>9, <1>10, ReportMoves

(* The prompt gate and the handler of authorize_prompt.                      *)
LEMMA GateMoves ==
    ASSUME Executor!RegistryAssumption, ExecutorInv, WorkInv, NEW a \in Action,
           \/ Executor!startPromptGateMonitor(a) \/ Executor!MonitorLooks(a)
           \/ Executor!AuthorizeCommand(a) \/ Executor!AuthorizeObserves(a)
           \/ Executor!AuthorizeStarts(a)
    PROVE  Moves
<1>0. /\ reg \in Executor!RegistryType /\ Leads(reg, reg, {}) /\ Stays(reg, reg, {})
      /\ Keeps(reg, reg) /\ pc \in [Action -> [Executor!Thread -> Places]]
      /\ {"execution", "monitor", "authorize"} \subseteq Executor!Thread
      /\ server \in [Action -> ServerRow]
      /\ Executor!Observing \in {"quiet", "observing"}
      /\ Executor!Observing = "observing" => Observes
  BY RowsAreLive, LeadsChain DEF ExecutorInv, ExecutorType, Executor!Observing
<1>1. reg.d[a].state # "absent" /\ Live(reg, a)
  <2>1. reg.d[a].state # "absent"
    BY <1>0 DEF ExecutorInv, NothingBeforeAcceptance, Executor!startPromptGateMonitor,
       Executor!MonitorLooks, Executor!AuthorizeCommand, Executor!AuthorizeObserves,
       Executor!MonitorStopped, Executor!AuthorizeStarts, Executor!At
  <2> QED
    BY <2>1, RowsAreLive
<1>2. \A b \in Action : server' = server => ServerStill(b) /\ server'[b].retire = server[b].retire
  BY DEF ServerStill
<1>3. CASE Executor!startPromptGateMonitor(a)
  <2>1. ASSUME NEW b \in Action, NEW t \in Executor!Thread
        PROVE  \/ pc'[b][t] = pc[b][t] \/ pc'[b][t] \in {"idle", "loop"}
               \/ pc'[b][t] = "watch" /\ Observes
    <3>1. CASE Executor!Goto(a, "execution", "idle")
      BY <1>0, <3>1 DEF Executor!Goto
    <3>2. CASE /\ pc' = [pc EXCEPT ![a]["execution"] = "idle", ![a]["monitor"] = "watch"]
               /\ Observes
      BY <1>0, <3>2
    <3> QED
      BY <1>3, <3>1, <3>2 DEF Executor!startPromptGateMonitor
  <2> QED
    BY <1>0, <1>2, <1>3, <2>1, QuietMoves DEF Executor!startPromptGateMonitor
<1>4. CASE Executor!MonitorLooks(a)
  <2>1. PICK where \in {"idle", "observing"} : Executor!Goto(a, "monitor", where)
    BY <1>4 DEF Executor!MonitorLooks
  <2>2. Observes
    BY <1>0, <1>4 DEF Executor!MonitorLooks, Executor!At, WorkInv, FactsInv, WithdrawalsAreAsked
  <2>3. MayGo(a, "monitor", where, {})
    BY <2>1, <2>2 DEF MayGo, Places
  <2> QED
    BY <1>0, <1>1, <1>4, <2>1, <2>3, GotoMoves DEF Executor!MonitorLooks
<1>5. CASE Executor!AuthorizeCommand(a)
  <2>1. /\ \E v \in BOOLEAN : server' = [server EXCEPT ![a].told = v]
        /\ UNCHANGED <<reg, sent>>
    BY <1>5 DEF Executor!AuthorizeCommand
  <2>2. CASE UNCHANGED pc
    <3>1. \A b \in Action : ServerStill(b) /\ server'[b].retire = server[b].retire
      BY <1>1, <2>1, ServerLeft DEF ExecutorInv
    <3> QED
      BY <1>0, <2>1, <2>2, <3>1, QuietMoves
  <2>3. CASE Executor!Goto(a, "authorize", "stopping")
    <3>1. MayGo(a, "authorize", "stopping", {})
      BY DEF MayGo, Places
    <3> QED
      BY <1>0, <1>1, <2>1, <2>3, <3>1, GotoMoves
  <2> QED
    BY <1>5, <2>2, <2>3 DEF Executor!AuthorizeCommand
<1>6. CASE Executor!AuthorizeObserves(a)
  <2>1. PICK where \in {"quiet", Executor!Observing} : Executor!Goto(a, "authorize", where)
    BY <1>6 DEF Executor!AuthorizeObserves
  <2>2. MayGo(a, "authorize", where, {})
    BY <1>0, <2>1 DEF MayGo, Places
  <2> QED
    BY <1>0, <1>1, <1>6, <2>1, <2>2, GotoMoves DEF Executor!AuthorizeObserves
<1>7. CASE Executor!AuthorizeStarts(a)
  <2>1. /\ reg' = Executor!Authorized(reg, a) /\ UNCHANGED <<server, sent>>
        /\ pc' = Executor!Started([pc EXCEPT ![a]["authorize"] = "idle"], a)
    BY <1>7 DEF Executor!AuthorizeStarts
  <2>2. \A b \in Action, t \in Executor!Thread :
           pc'[b][t] = pc[b][t] \/ pc'[b][t] \in {"idle", "loop"}
    BY <1>0, <2>1 DEF Executor!Started
  <2>3. "other" \in Executor!Fault /\ "starting" \in Executor!SessionState
    BY DEF Executor!Fault, Executor!SessionState
  <2>4. Stays(reg, reg', {}) /\ Keeps(reg, reg')
    BY <1>0, <1>1, <2>1, <2>3, StaysComposed, Composed
  <2> QED
    BY <1>2, <2>1, <2>2, <2>4, QuietMoves
<1> QED
  BY <1>3, <1>4, <1>5, <1>6, <1>7

(* Native activity is looked for, and fails the dispatch when it is found.   *)
LEMMA ActivityMoves ==
    ASSUME Executor!RegistryAssumption, ExecutorInv, WorkInv, NEW a \in Action,
           NEW t \in Executor!Thread,
           \/ Executor!SeesActivity(a, t) \/ Executor!FailContaminated(a, t)
           \/ Executor!SeesNothing(a, t)
    PROVE  Moves
<1>0. /\ pc[a][t] \in {"observing", "fencing"} /\ Observes
      /\ Live(reg, a) /\ reg.d[a].state # "absent" /\ reg \in Executor!RegistryType
      /\ Leads(reg, reg, {}) /\ Keeps(reg, reg) /\ server' = server
      /\ "starting" \in Executor!SessionState /\ "preauth" \in Executor!FailureFact
  <2>1. pc[a][t] \in {"observing", "fencing"} /\ server' = server
    BY DEF Executor!SeesActivity, Executor!FailContaminated, Executor!SeesNothing, Executor!At
  <2>2. Observes
    BY <2>1 DEF WorkInv, FactsInv, WithdrawalsAreAsked
  <2>3. Live(reg, a) /\ reg \in Executor!RegistryType
    BY <2>1, RowsAreLive
  <2>4. Leads(reg, reg, {}) /\ Keeps(reg, reg)
    BY RowsAreLive, LeadsChain
  <2> QED
    BY <2>1, <2>2, <2>3, <2>4 DEF Live, Executor!SessionState, Executor!FailureFact
<1>1. ASSUME NEW where \in {"fencing", "watch", "quiet"}, t # "execution" \/ where # "watch"
      PROVE  MayGo(a, t, where, {})
  BY <1>0, <1>1 DEF MayGo, Places, Placed
<1>2. CASE Executor!SeesActivity(a, t)
  <2>1. /\ reg' = Executor!recordNativeSession(reg, reg.d[a].lineage)
        /\ Executor!Goto(a, t, "fencing") /\ UNCHANGED sent
    BY <1>2 DEF Executor!SeesActivity
  <2>2. Goes(reg, reg', a)
    BY <1>0, <2>1, Operated
  <2>3. MayGo(a, t, "fencing", {})
    BY <1>1
  <2>4. Leads(reg, reg', {}) /\ Keeps(reg, reg')
    BY <2>2, LeadsChain DEF Goes
  <2> QED
    BY <1>0, <2>1, <2>3, <2>4, GotoMoves
<1>3. CASE Executor!FailContaminated(a, t)
  BY <1>0, <1>3, WithdrawnMoves DEF Executor!FailContaminated, Executor!Withdraws
<1>4. CASE Executor!SeesNothing(a, t)
  <2>1. PICK where \in {"watch", "quiet"} :
          Executor!Goto(a, t, where) /\ (t # "execution" \/ where # "watch")
    BY <1>4 DEF Executor!SeesNothing
  <2>2. MayGo(a, t, where, {}) /\ UNCHANGED <<reg, sent>>
    BY <1>1, <1>4, <2>1 DEF Executor!SeesNothing
  <2> QED
    BY <1>0, <2>1, <2>2, GotoMoves
<1> QED
  BY <1>2, <1>3, <1>4

(* cancel: the dispatch has failed by its cancellation, and no other changes. *)
LEMMA Cancelled ==
    ASSUME NEW r \in Executor!RegistryType, NEW a \in Action, Executor!can_cancel(r, a)
    PROVE  LET s == Executor!cancel(r, a)
           IN  /\ s.d[a].state = "failed" /\ ~s.d[a].acked
               /\ \A b \in Action : b # a => s.d[b] = r.d[b]
               /\ \A b \in Action : s.d[b].lineage = r.d[b].lineage
               /\ LinesStay(r, s)
<1> DEFINE s == Executor!cancel(r, a)
           row == [r.d[a] EXCEPT !.state = "failed", !.failure = "cancelled", !.acked = FALSE]
           q == [r EXCEPT !.d[a] = row]
<1>1. CASE r.d[a].state = "failed" /\ r.d[a].failure = "cancelled"
  <2>1. s = r
    BY <1>1 DEF Executor!cancel
  <2>2. r.d[a] \in Row
    BY Typed
  <2> QED
    BY <1>1, <2>1, <2>2 DEF Executor!can_cancel, Executor!Terminal, LinesStay, Row
<1>2. CASE ~(r.d[a].state = "failed" /\ r.d[a].failure = "cancelled")
  <2>1. /\ row \in Row /\ row.state = "failed" /\ row.acked = FALSE
        /\ row.lineage = r.d[a].lineage
    <3>1. r.d[a] \in Row
      BY Typed
    <3> QED
      BY <3>1 DEF Row, Executor!DispatchState, Executor!FailureFact
  <2>2. s = Executor!ReleaseLineage(q, a)
    BY <1>2 DEF Executor!cancel
  <2> HIDE DEF row, s
  <2>3. /\ q \in Executor!RegistryType /\ q.l = r.l
        /\ \A b \in Action : q.d[b] = IF b = a THEN row ELSE r.d[b]
    BY <2>1 DEF Executor!RegistryType, Row
  <2> HIDE DEF q
  <2>4. s.d = q.d
    BY <2>2, <2>3 DEF Executor!ReleaseLineage, Executor!RegistryType
  <2>5. LinesStay(q, s)
    BY <2>2, <2>3, StaysReleased DEF Stays
  <2>6. LinesStay(r, s)
    BY <2>3, <2>5 DEF LinesStay
  <2> QED
    BY <2>1, <2>3, <2>4, <2>6 DEF s
<1> QED
  BY <1>1, <1>2

(* cancelOnce: a dispatch that is not over and acknowledged is cancelled.    *)
LEMMA CancelMoves ==
    ASSUME Executor!RegistryAssumption, ExecutorInv, WorkInv, NEW a \in Action,
           pc[a]["cancel"] = "stopping", Executor!can_cancel(reg, a), server' = server,
           reg' = Executor!cancel(reg, a),
           \/ Executor!Goto(a, "cancel", "interrupting") /\ UNCHANGED sent
           \/ Executor!ThenReport(a, "cancel", Executor!cancel(reg, a))
    PROVE  Moves
<1>1. /\ reg \in Executor!RegistryType /\ reg.d[a].state # "absent" /\ server[a].cancel
      /\ pc \in [Action -> [Executor!Thread -> Places]]
      /\ sent \in [Action -> [Executor!Thread -> Fact]]
      /\ "cancel" \in Executor!Thread /\ "execution" \in Executor!Thread
  BY RowsAreLive DEF Live, ExecutorInv, ExecutorType, WorkInv, FactsInv, CancelIsPending
<1>2. /\ reg'.d[a].state = "failed" /\ ~reg'.d[a].acked
      /\ \A b \in Action : b # a => reg'.d[b] = reg.d[b]
      /\ \A b \in Action : reg'.d[b].lineage = reg.d[b].lineage
      /\ LinesStay(reg, reg')
  BY <1>1, Cancelled
<1>3. Keeps(reg, reg')
  BY <1>1, TerminalWritten DEF Executor!FailureFact
<1>4. /\ \A b \in Action, t \in Executor!Thread : b # a \/ t # "cancel" => pc'[b][t] = pc[b][t]
      /\ pc'[a]["cancel"] \in {"interrupting", "report"}
  BY <1>1 DEF Executor!Goto, Executor!ThenReport
<1>5. \A b \in Action, t \in Executor!Thread :
         sent'[b][t] = sent[b][t] \/ sent'[b][t].state = reg'.d[b].state
  <2>1. CASE UNCHANGED sent
    BY <2>1
  <2>2. CASE Executor!ThenReport(a, "cancel", Executor!cancel(reg, a))
    <3>1. PICK fact : /\ fact.state = reg'.d[a].state
                      /\ sent' = [sent EXCEPT ![a]["cancel"] = fact]
      BY <2>2 DEF Executor!ThenReport, Executor!FactOf
    <3> QED
      BY <1>1, <3>1
  <2> QED
    BY <2>1, <2>2
<1> SUFFICES ASSUME NEW b \in Action
             PROVE  /\ RowMoves(b) /\ ServerMoves(b) /\ ThreadsMove(b)
                    /\ WorkMoves(b) /\ Placing(reg, reg', b)
  BY <1>2 DEF Moves
<1>6. RowMoves(b)
  <2>1. CASE b = a
    BY <1>1, <1>2, <2>1 DEF RowMoves, Executor!can_cancel
  <2>2. CASE b # a
    BY <1>2, <2>2 DEF RowMoves, OutcomeStays
  <2> QED
    BY <2>1, <2>2
<1>7. ServerMoves(b) /\ Placing(reg, reg', b)
  BY <1>2 DEF ServerMoves, ServerStill, Placing
<1>8. ThreadsMove(b)
  <2>1. pc'[b]["cancel"] \in {"stopping", "interrupting"} =>
            pc[b]["cancel"] \in {"stopping", "interrupting"}
    BY <1>1, <1>4
  <2>2. ASSUME NEW t \in Executor!Thread
        PROVE  /\ pc'[b][t] = "acking" => pc[b][t] = "acking"
               /\ pc'[b][t] \in {"watch", "observing", "fencing"} => Observes
               /\ pc'[b][t] = "retiring" => "retire" \in Commands
    BY <1>4 DEF WorkInv, FactsInv, WithdrawalsAreAsked
  <2> QED
    BY <1>5, <2>1, <2>2 DEF ThreadsMove
<1>9. WorkMoves(b)
  <2>1. /\ pc'[b]["execution"] = pc[b]["execution"] /\ reg'.d[b].intent = reg.d[b].intent
        /\ reg'.d[b].state \in Executor!Terminal =>
              reg.d[b].state \in Executor!Terminal \/ server'[b].cancel
        /\ reg'.d[b].state # "absent" => reg.d[b].state # "absent"
    BY <1>1, <1>2, <1>3, <1>4 DEF Keeps
  <2>2. Dispatched(b)' => Dispatched(b)
    BY <2>1 DEF Dispatched
  <2> QED
    BY <2>1, <2>2 DEF WorkMoves
<1> QED
  BY <1>6, <1>7, <1>8, <1>9

(* The handlers of cancel_dispatch and of retire_dispatch_for_recovery.      *)
LEMMA CommandMoves ==
    ASSUME Executor!RegistryAssumption, ExecutorInv, WorkInv, NEW a \in Action,
           \/ Executor!CancelCommand(a) \/ Executor!cancelOnce(a) \/ Executor!CancelInterrupts(a)
           \/ Executor!RetireCommand(a) \/ Executor!retireForRecovery(a)
    PROVE  Moves
<1>0. /\ reg \in Executor!RegistryType /\ Leads(reg, reg, {}) /\ Keeps(reg, reg)
      /\ {"cancel", "retire"} \subseteq Executor!Thread /\ server' = server
      /\ "operator" \in Executor!FailureFact
  BY RowsAreLive, LeadsChain DEF Executor!CancelCommand, Executor!cancelOnce,
     Executor!CancelInterrupts, Executor!RetireCommand, Executor!retireForRecovery,
     Executor!FailureFact
<1>1. reg.d[a].state # "absent"
  BY <1>0 DEF ExecutorInv, NothingBeforeAcceptance, Executor!CancelCommand, Executor!cancelOnce,
     Executor!MonitorStopped, Executor!CancelInterrupts, Executor!RetireCommand,
     Executor!retireForRecovery, Executor!At
<1>2. CASE Executor!CancelCommand(a)
  <2>1. MayGo(a, "cancel", "stopping", {})
    BY <1>2 DEF Executor!CancelCommand, MayGo, Places
  <2> QED
    BY <1>0, <1>1, <1>2, <2>1, GotoMoves DEF Executor!CancelCommand
<1>3. CASE Executor!cancelOnce(a)
  <2>1. pc[a]["cancel"] = "stopping"
    BY <1>3 DEF Executor!cancelOnce, Executor!MonitorStopped, Executor!At
  <2>2. CASE Executor!Goto(a, "cancel", "idle") /\ UNCHANGED <<reg, sent>>
    <3>1. MayGo(a, "cancel", "idle", {})
      BY DEF MayGo, Places
    <3> QED
      BY <1>0, <1>1, <2>2, <3>1, GotoMoves
  <2>3. CASE /\ Executor!can_cancel(reg, a) /\ reg' = Executor!cancel(reg, a)
             /\ \/ Executor!Goto(a, "cancel", "interrupting") /\ UNCHANGED sent
                \/ Executor!ThenReport(a, "cancel", Executor!cancel(reg, a))
    BY <1>0, <2>1, <2>3, CancelMoves
  <2> QED
    BY <1>3, <2>2, <2>3 DEF Executor!cancelOnce, Executor!ThenReport
<1>4. CASE Executor!CancelInterrupts(a)
  BY <1>0, <1>1, <1>4, ReportMoves DEF Executor!CancelInterrupts
<1>5. CASE Executor!RetireCommand(a)
  <2>1. CASE Executor!ThenReport(a, "retire", reg)
    BY <1>0, <1>1, <2>1, ReportMoves
  <2>2. CASE Executor!Goto(a, "retire", "retiring") /\ UNCHANGED <<reg, sent>>
    <3>1. "retire" \in Commands
      BY <1>5 DEF Executor!RetireCommand, WorkInv, FactsInv, WithdrawalsAreAsked
    <3>2. MayGo(a, "retire", "retiring", {})
      BY <3>1 DEF MayGo, Places
    <3> QED
      BY <1>0, <1>1, <2>2, <3>2, GotoMoves
  <2> QED
    BY <1>5, <2>1, <2>2 DEF Executor!RetireCommand
<1>6. CASE Executor!retireForRecovery(a)
  <2>1. Executor!Withdraws
    BY <1>0, <1>6 DEF Executor!retireForRecovery, Executor!At, WorkInv, FactsInv,
       WithdrawalsAreAsked, Executor!Withdraws
  <2> QED
    BY <1>0, <1>1, <1>6, <2>1, WithdrawnMoves DEF Executor!retireForRecovery
<1> QED
  BY <1>2, <1>3, <1>4, <1>5, <1>6

(* A fact that the server accepts: its row goes on, or records the outcome.  *)
LEMMA ServerRecords ==
    ASSUME NEW s \in ServerRow, NEW fact \in Fact, Executor!server_accepts(s, fact)
    PROVE  LET n == Executor!server_apply(s, fact)
           IN  /\ n.cancel = s.cancel /\ n.retire = s.retire
               /\ fact.state \in Executor!Terminal => n.state \in Executor!Terminal
               /\ \/ n.state = s.state /\ n.failure = s.failure
                  \/ /\ s.state \notin Executor!Terminal
                     /\ n.state \notin Executor!Terminal \cup {"scheduled"}
                  \/ /\ s.state \notin Executor!Terminal /\ fact.state = "completed"
                     /\ n.state = "completed" /\ ~s.cancel
                  \/ /\ s.state \notin Executor!Terminal /\ fact.state = "failed"
                     /\ n.state = "failed" /\ n.failure = fact.failure
                     /\ s.cancel => n.failure = "cancelled"
<1> USE DEF Executor!server_accepts, Executor!server_apply, Executor!Terminal
<1>1. CASE fact.state = "completed"
  BY <1>1 DEF ServerRow, Fact
<1>2. CASE fact.state = "failed"
  BY <1>2 DEF ServerRow, Fact
<1>3. CASE fact.state = "uncertain"
  BY <1>3 DEF ServerRow, Fact
<1>4. CASE fact.state = "running"
  BY <1>4 DEF ServerRow, Fact
<1>5. CASE fact.state = "accepted"
  BY <1>5 DEF ServerRow, Fact
<1>6. CASE fact.state = "absent"
  BY <1>6
<1>7. fact.state \in Executor!DispatchState
  BY DEF Fact
<1> QED
  BY <1>1, <1>2, <1>3, <1>4, <1>5, <1>6, <1>7 DEF Executor!DispatchState

(* A fact is recorded of a dispatch of which it is the outcome.              *)
LEMMA RecordMoves ==
    ASSUME NEW b \in Action, NEW fact \in Fact, server[b] \in ServerRow,
           Executor!server_accepts(server[b], fact), reg.d[b].state # "absent",
           server'[b].state = Executor!server_apply(server[b], fact).state,
           server'[b].failure = Executor!server_apply(server[b], fact).failure,
           server'[b].cancel = Executor!server_apply(server[b], fact).cancel,
           server'[b].retire = Executor!server_apply(server[b], fact).retire,
           fact.state = "completed" => reg'.d[b].state = "completed" \/ server[b].cancel,
           fact.state = "failed" => FailedAs(reg'.d[b], fact.failure)
    PROVE  /\ ServerMoves(b)
           /\ fact.state \in Executor!Terminal => server'[b].state \in Executor!Terminal
<1> DEFINE n == Executor!server_apply(server[b], fact)
<1>1. /\ n.cancel = server[b].cancel /\ n.retire = server[b].retire
      /\ fact.state \in Executor!Terminal => n.state \in Executor!Terminal
      /\ \/ n.state = server[b].state /\ n.failure = server[b].failure
         \/ /\ server[b].state \notin Executor!Terminal
            /\ n.state \notin Executor!Terminal \cup {"scheduled"}
         \/ /\ server[b].state \notin Executor!Terminal /\ fact.state = "completed"
            /\ n.state = "completed" /\ ~server[b].cancel
         \/ /\ server[b].state \notin Executor!Terminal /\ fact.state = "failed"
            /\ n.state = "failed" /\ n.failure = fact.failure
            /\ server[b].cancel => n.failure = "cancelled"
  BY ServerRecords
<1>2. /\ server'[b].state = n.state /\ server'[b].failure = n.failure
      /\ server'[b].cancel = n.cancel /\ server'[b].retire = n.retire
  OBVIOUS
<1> HIDE DEF n
<1> QED
  BY <1>1, <1>2 DEF ServerMoves, ServerStill

(* A report reaches the server, or is lost.                                  *)
LEMMA ReportedMoves ==
    ASSUME ExecutorInv, WorkInv, NEW a \in Action, NEW t \in Executor!Thread,
           Executor!Report(a, t)
    PROVE  Moves
<1>1. /\ pc[a][t] = "report" /\ reg' = reg /\ sent' = [sent EXCEPT ![a][t] = Executor!NoFact]
      /\ reg.d[a].state # "absent" /\ sent[a][t] \in Fact
      /\ pc \in [Action -> [Executor!Thread -> Places]]
      /\ sent \in [Action -> [Executor!Thread -> Fact]]
      /\ server \in [Action -> ServerRow]
      /\ "execution" \in Executor!Thread /\ "cancel" \in Executor!Thread
  BY DEF Executor!Report, Executor!At, ExecutorInv, ExecutorType, NothingBeforeAcceptance,
         Executor!Thread
<1>2. \A b \in Action, u \in Executor!Thread :
         sent'[b][u] = sent[b][u] \/ sent'[b][u].state \notin Executor!Terminal
  BY <1>1 DEF Executor!NoFact, Executor!Terminal
<1>3. \A b \in Action : OutcomeStays(reg.d[b], reg'.d[b]) /\ Placing(reg, reg', b)
  BY <1>1 DEF OutcomeStays, Placing
<1>4. LinesStay(reg, reg') /\ Stays(reg, reg', {}) /\ Keeps(reg, reg')
  BY <1>1, RowsAreLive DEF Stays
<1>5. CASE Executor!Goto(a, t, "idle") /\ UNCHANGED server
  <2>1. \A b \in Action, u \in Executor!Thread : pc'[b][u] = pc[b][u] \/ pc'[b][u] = "idle"
    BY <1>1, <1>5 DEF Executor!Goto
  <2>2. \A b \in Action : ServerStill(b) /\ (server'[b].retire => server[b].retire)
    BY <1>5 DEF ServerStill
  <2> QED
    BY <1>2, <1>4, <2>1, <2>2, QuietMoves
<1>6. CASE ~(Executor!Goto(a, t, "idle") /\ UNCHANGED server)
  <2>1. PICK fact : fact = sent[a][t]
    OBVIOUS
  <2>2. /\ Executor!server_accepts(server[a], fact) /\ fact \in Fact
        /\ server' = [server EXCEPT ![a] = Executor!server_apply(@, fact)]
        /\ Executor!Goto(a, t, IF fact.state \in Executor!Terminal THEN "acking" ELSE "idle")
    BY <1>1, <1>6, <2>1 DEF Executor!Report
  <2>3. /\ fact.state = "completed" => reg'.d[a].state = "completed" \/ server[a].cancel
        /\ fact.state = "failed" => FailedAs(reg'.d[a], fact.failure)
    BY <1>1, <2>1 DEF WorkInv, FactsInv, ReportsAreOutcomes, FailedAs
  <2>4. /\ server'[a] = Executor!server_apply(server[a], fact)
        /\ \A b \in Action : b # a => server'[b] = server[b]
    BY <1>1, <2>2
  <2>5. /\ ServerMoves(a)
        /\ fact.state \in Executor!Terminal => server'[a].state \in Executor!Terminal
    BY <1>1, <2>2, <2>3, <2>4, RecordMoves
  <2>6. \A b \in Action : ServerMoves(b)
    BY <2>4, <2>5 DEF ServerMoves, ServerStill
  <2>7. ASSUME NEW b \in Action, NEW u \in Executor!Thread
        PROVE  \/ pc'[b][u] = pc[b][u] \/ pc'[b][u] = "idle"
               \/ pc'[b][u] = "acking" /\ server'[b].state \in Executor!Terminal
    BY <1>1, <2>2, <2>5 DEF Executor!Goto
  <2>8. ASSUME NEW b \in Action PROVE ThreadsMove(b) /\ WorkMoves(b)
    <3>1. pc'[b]["cancel"] \in {"stopping", "interrupting"} =>
              pc[b]["cancel"] \in {"stopping", "interrupting"}
      BY <1>1, <2>7
    <3>2. ASSUME NEW u \in Executor!Thread
          PROVE  /\ pc'[b][u] = "acking" =>
                       pc[b][u] = "acking" \/ server'[b].state \in Executor!Terminal
                 /\ pc'[b][u] \in {"watch", "observing", "fencing"} => Observes
                 /\ pc'[b][u] = "retiring" => "retire" \in Commands
      BY <2>7 DEF WorkInv, FactsInv, WithdrawalsAreAsked
    <3>3. ThreadsMove(b)
      BY <1>2, <3>1, <3>2 DEF ThreadsMove
    <3>4. pc'[b]["execution"] \in Placed => pc[b]["execution"] \in Placed
      BY <1>1, <2>7 DEF Placed
    <3>5. Dispatched(b)' => Dispatched(b)
      BY <1>1, <2>4 DEF Dispatched
    <3> QED
      BY <1>1, <3>3, <3>4, <3>5 DEF WorkMoves
  <2> QED
    BY <1>3, <1>4, <2>6, <2>8 DEF Moves, RowMoves
<1> QED
  BY <1>5, <1>6

(* Rows are acknowledged, or stay; threads end, or stay where they are.      *)
LEMMA RestMoves ==
    ASSUME ExecutorInv, WorkInv, LinesStay(reg, reg'), Keeps(reg, reg'), sent' = sent,
           \A b \in Action :
               /\ RowMoves(b) /\ ServerMoves(b)
               /\ reg'.d[b].state = reg.d[b].state /\ reg'.d[b].lineage = reg.d[b].lineage
               /\ server'[b].state # "scheduled" => Dispatched(b)
               /\ \A t \in Executor!Thread : pc'[b][t] = pc[b][t] \/ pc'[b][t] = "idle"
    PROVE  Moves
<1> SUFFICES ASSUME NEW b \in Action
             PROVE  ThreadsMove(b) /\ WorkMoves(b) /\ Placing(reg, reg', b)
  BY DEF Moves
<1>1. "execution" \in Executor!Thread /\ "cancel" \in Executor!Thread
  BY DEF Executor!Thread
<1>2. ThreadsMove(b)
  <2>1. pc'[b]["cancel"] \in {"stopping", "interrupting"} =>
            pc[b]["cancel"] \in {"stopping", "interrupting"}
    BY <1>1
  <2>2. ASSUME NEW t \in Executor!Thread
        PROVE  /\ pc'[b][t] = "acking" => pc[b][t] = "acking"
               /\ pc'[b][t] \in {"watch", "observing", "fencing"} => Observes
               /\ pc'[b][t] = "retiring" => "retire" \in Commands
    BY DEF WorkInv, FactsInv, WithdrawalsAreAsked
  <2> QED
    BY <2>1, <2>2 DEF ThreadsMove
<1>3. /\ pc'[b]["execution"] \in Placed => pc[b]["execution"] \in Placed
      /\ reg'.d[b].intent = reg.d[b].intent
  BY <1>1 DEF Placed, Keeps
<1>4. Dispatched(b)' => Dispatched(b)
  BY DEF Dispatched
<1>5. WorkMoves(b)
  BY <1>3, <1>4 DEF WorkMoves
<1> QED
  BY <1>2, <1>5 DEF Placing

(* The server's acknowledgement is written to a row that is over.            *)
LEMMA RowAcknowledged ==
    ASSUME NEW r \in Executor!RegistryType, NEW a \in Action
    PROVE  LET s == Executor!acknowledgeServerTerminal(r, a)
           IN  /\ s.l = r.l /\ \A b \in Action : b # a => s.d[b] = r.d[b]
               /\ r.d[a].state \notin Executor!Terminal => s.d[a] = r.d[a]
               /\ r.d[a].state \in Executor!Terminal => s.d[a].acked
               /\ s.d[a].state = r.d[a].state /\ s.d[a].failure = r.d[a].failure
               /\ s.d[a].lineage = r.d[a].lineage /\ s.d[a].intent = r.d[a].intent
               /\ s.d[a] \in Row
<1> DEFINE row == [r.d[a] EXCEPT !.acked = TRUE]
           s == Executor!acknowledgeServerTerminal(r, a)
<1>1. r.d[a] \in Row
  BY Typed
<1>2. /\ row \in Row /\ row.acked /\ row.state = r.d[a].state /\ row.failure = r.d[a].failure
      /\ row.lineage = r.d[a].lineage /\ row.intent = r.d[a].intent
  BY <1>1 DEF Row
<1> HIDE DEF row
<1>3. CASE r.d[a].state \in Executor!Terminal
  <2>1. s = [r EXCEPT !.d[a] = row]
    BY <1>3 DEF Executor!acknowledgeServerTerminal, row
  <2>2. s.l = r.l /\ s.d[a] = row /\ \A b \in Action : b # a => s.d[b] = r.d[b]
    BY <2>1 DEF Executor!RegistryType
  <2> HIDE DEF s
  <2> QED
    BY <1>2, <1>3, <2>2 DEF s
<1>4. CASE r.d[a].state \notin Executor!Terminal
  BY <1>1, <1>4 DEF Executor!acknowledgeServerTerminal
<1> QED
  BY <1>3, <1>4

(* The reply to a report arrives.                                            *)
LEMMA AcknowledgedMoves ==
    ASSUME Executor!RegistryAssumption, ExecutorInv, WorkInv, NEW a \in Action,
           NEW t \in Executor!Thread, Executor!Acknowledged(a, t)
    PROVE  Moves
<1>1. /\ pc[a][t] = "acking" /\ reg' = Executor!acknowledgeTerminal(reg, a)
      /\ Executor!Goto(a, t, "idle") /\ UNCHANGED <<sent, server>>
  BY DEF Executor!Acknowledged, Executor!At
<1>2. /\ Live(reg, a) /\ reg \in Executor!RegistryType /\ server[a].state \in Executor!Terminal
      /\ pc \in [Action -> [Executor!Thread -> Places]]
      /\ "retained" \in Executor!SessionState /\ "other" \in Executor!Fault
      /\ Stays(reg, reg, {})
  BY <1>1, RowsAreLive DEF WorkInv, FactsInv, ReportsAreOutcomes, ExecutorInv, ExecutorType,
     Executor!SessionState, Executor!Fault
<1>3. PICK s : s = Executor!acknowledgeServerTerminal(reg, a)
  OBVIOUS
<1>4. /\ s.l = reg.l /\ \A b \in Action : b # a => s.d[b] = reg.d[b]
      /\ reg.d[a].state \notin Executor!Terminal => s.d[a] = reg.d[a]
      /\ reg.d[a].state \in Executor!Terminal => s.d[a].acked
      /\ s.d[a].state = reg.d[a].state /\ s.d[a].failure = reg.d[a].failure
      /\ s.d[a].lineage = reg.d[a].lineage
  BY <1>2, <1>3, RowAcknowledged
<1>5. Keeps(reg, s) /\ Keeps(reg, reg')
  BY <1>1, <1>2, <1>3, ObservationFailureRecorded, Composed
<1>6. Live(s, a)
  BY <1>2, <1>4, <1>5 DEF Live, Keeps
<1>7. /\ \A b \in Action : /\ b # a => reg'.d[b] = reg.d[b]
                           /\ reg'.d[b].lineage = reg.d[b].lineage
      /\ reg.d[a].state \notin Executor!Terminal => reg'.d[a] = reg.d[a]
      /\ reg.d[a].state \in Executor!Terminal => reg'.d[a].acked
      /\ reg'.d[a].state = reg.d[a].state /\ reg'.d[a].failure = reg.d[a].failure
      /\ LinesStay(reg, reg')
  <2>1. CASE reg' = reg /\ reg.d[a].state \notin Executor!Terminal
    BY <1>2, <2>1 DEF Stays
  <2>2. CASE reg' = s
    <3>1. LinesStay(reg, s)
      BY <1>4 DEF LinesStay
    <3> QED
      BY <1>4, <2>2, <3>1
  <2>3. CASE reg' = Executor!WithSession(s, a, "retained")
    <3>1. Stays(s, reg', {})
      BY <1>2, <1>6, <2>3, StaysSession
    <3>2. reg'.d = s.d
      BY <1>5, <2>3 DEF Executor!WithSession, Executor!updateSession, Keeps, Executor!RegistryType
    <3>3. LinesStay(reg, reg')
      BY <1>4, <3>1 DEF LinesStay, Stays
    <3> QED
      BY <1>4, <3>2, <3>3
  <2> QED
    BY <1>1, <1>3, <2>1, <2>2, <2>3 DEF Executor!acknowledgeTerminal
<1>8. ASSUME NEW b \in Action PROVE RowMoves(b)
  <2>1. CASE b = a /\ reg.d[a].state \in Executor!Terminal
    BY <1>1, <1>2, <1>7, <2>1 DEF RowMoves
  <2>2. CASE b # a \/ reg.d[a].state \notin Executor!Terminal
    BY <1>7, <2>2 DEF RowMoves, OutcomeStays
  <2> QED
    BY <2>1, <2>2
<1>9. ASSUME NEW b \in Action
      PROVE  /\ ServerMoves(b) /\ (server'[b].state # "scheduled" => Dispatched(b))
             /\ \A u \in Executor!Thread : pc'[b][u] = pc[b][u] \/ pc'[b][u] = "idle"
             /\ reg'.d[b].state = reg.d[b].state /\ reg'.d[b].lineage = reg.d[b].lineage
  BY <1>1, <1>2, <1>7 DEF ServerMoves, ServerStill, Dispatched, Executor!Goto
<1> QED
  BY <1>1, <1>5, <1>7, <1>8, <1>9, RestMoves

(* The Worker registers again: its outcomes are recorded and acknowledged.   *)
LEMMA ReconcileMoves ==
    ASSUME ExecutorInv, WorkInv, Executor!Reconcile
    PROVE  Moves
<1> DEFINE d == [a \in Action |-> IF Executor!ReconciledTerminal(a)
                                  THEN Executor!acknowledgeServerTerminal(reg, a).d[a]
                                  ELSE reg.d[a]]
<1>1. /\ reg \in Executor!RegistryType /\ server \in [Action -> ServerRow]
      /\ UNCHANGED <<pc, sent>> /\ reg' = [reg EXCEPT !.d = d]
  BY DEF Executor!Reconcile, ExecutorInv, ExecutorType
<1> HIDE DEF d
<1>2. reg'.l = reg.l /\ reg'.d = d
  BY <1>1 DEF Executor!RegistryType
<1>3. ASSUME NEW b \in Action
      PROVE  /\ Executor!ReconciledTerminal(b) => reg'.d[b].acked
             /\ ~Executor!ReconciledTerminal(b) => reg'.d[b] = reg.d[b]
             /\ reg'.d[b].state = reg.d[b].state /\ reg'.d[b].failure = reg.d[b].failure
             /\ reg'.d[b].lineage = reg.d[b].lineage /\ reg'.d[b].intent = reg.d[b].intent
             /\ reg'.d[b] \in Row
  <2>1. reg'.d[b] = IF Executor!ReconciledTerminal(b)
                    THEN Executor!acknowledgeServerTerminal(reg, b).d[b] ELSE reg.d[b]
    BY <1>2 DEF d
  <2>2. reg.d[b] \in Row
    BY <1>1, Typed
  <2>3. CASE Executor!ReconciledTerminal(b)
    <3>1. reg.d[b].state \in Executor!Terminal
      BY <2>3 DEF Executor!ReconciledTerminal
    <3> QED
      BY <1>1, <2>1, <2>3, <3>1, RowAcknowledged
  <2>4. CASE ~Executor!ReconciledTerminal(b)
    BY <2>1, <2>2, <2>4
  <2> QED
    BY <2>3, <2>4
<1>4. Keeps(reg, reg')
  <2>1. d \in [Action -> Row]
    <3>1. \A b \in Action : d[b] \in Row
      BY <1>2, <1>3
    <3>2. d = [b \in Action |-> d[b]]
      BY DEF d
    <3> QED
      BY <3>1, <3>2
  <2>2. reg' \in Executor!RegistryType
    BY <1>1, <2>1 DEF Executor!RegistryType, Row
  <2> QED
    BY <1>3, <2>2 DEF Keeps
<1>5. ASSUME NEW b \in Action
      PROVE  /\ ServerMoves(b)
             /\ Executor!ReconciledTerminal(b) => server'[b].state \in Executor!Terminal
             /\ server'[b].state # "scheduled" => Dispatched(b)
  <2>1. PICK n : n = Executor!server_apply(server[b], Executor!FactOf(reg, b))
    OBVIOUS
  <2>2. CASE b \in Executor!Known /\ ~Executor!reconcile_defers(server[b], Executor!FactOf(reg, b))
    <3>1. Executor!server_accepts(server[b], Executor!FactOf(reg, b)) /\ reg.d[b].state # "absent"
      BY <2>2 DEF Executor!Reconcile, Executor!Reconcilable, Executor!Known
    <3>2. Executor!FactOf(reg, b) \in Fact /\ server[b] \in ServerRow
      BY <1>1, Facts
    <3>3. n \in ServerRow
      BY <2>1, <3>2, ServerApplied
    <3>4. server'[b] = Executor!prompt_authorizations(n)
      BY <2>1, <2>2 DEF Executor!Reconcile
    <3>5. /\ server'[b].state = n.state /\ server'[b].failure = n.failure
          /\ server'[b].cancel = n.cancel /\ server'[b].retire = n.retire
      BY <3>3, <3>4 DEF Executor!prompt_authorizations, ServerRow
    <3>6. PICK fact \in Fact : /\ fact = Executor!FactOf(reg, b)
                               /\ fact.state = reg.d[b].state /\ fact.failure = reg.d[b].failure
      BY <3>2 DEF Executor!FactOf
    <3>7. /\ ServerMoves(b)
          /\ fact.state \in Executor!Terminal => server'[b].state \in Executor!Terminal
      BY <1>3, <2>1, <3>1, <3>2, <3>5, <3>6, RecordMoves DEF FailedAs
    <3> QED
      BY <3>1, <3>6, <3>7 DEF Executor!ReconciledTerminal, Dispatched
  <2>3. CASE ~(b \in Executor!Known
               /\ ~Executor!reconcile_defers(server[b], Executor!FactOf(reg, b)))
    <3>1. server'[b] = Executor!prompt_authorizations(server[b]) /\ server[b] \in ServerRow
      BY <1>1, <2>3 DEF Executor!Reconcile
    <3>2. /\ server'[b].state = server[b].state /\ server'[b].failure = server[b].failure
          /\ server'[b].cancel = server[b].cancel /\ server'[b].retire = server[b].retire
      BY <3>1 DEF Executor!prompt_authorizations, ServerRow
    <3>3. ~Executor!ReconciledTerminal(b)
      BY <2>3 DEF Executor!ReconciledTerminal, Executor!Known, Executor!Terminal
    <3> QED
      BY <3>2, <3>3 DEF ServerMoves, ServerStill, Dispatched
  <2> QED
    BY <2>2, <2>3
<1>6. ASSUME NEW b \in Action PROVE RowMoves(b)
  <2>1. CASE Executor!ReconciledTerminal(b)
    <3>1. reg.d[b].state \in Executor!Terminal
      BY <2>1 DEF Executor!ReconciledTerminal
    <3> QED
      BY <1>3, <1>5, <2>1, <3>1 DEF RowMoves
  <2>2. CASE ~Executor!ReconciledTerminal(b)
    BY <1>3, <2>2 DEF RowMoves, OutcomeStays
  <2> QED
    BY <2>1, <2>2
<1>7. LinesStay(reg, reg')
  BY <1>2 DEF LinesStay
<1> QED
  BY <1>1, <1>3, <1>4, <1>5, <1>6, <1>7, RestMoves

(* The row of a newly accepted action, and no other.                         *)
LEMMA RowAccepted ==
    ASSUME NEW r \in Executor!RegistryType, NEW a \in Action,
           NEW x \in Lineage \cup {Executor!NoLineage}
    PROVE  LET s == Executor!AcceptRow(r, a, x)
           IN  /\ s.l = r.l /\ \A b \in Action : b # a => s.d[b] = r.d[b]
               /\ s.d[a].state = "accepted" /\ ~s.d[a].acked /\ ~s.d[a].intent
               /\ s.d[a].lineage = x
<1> DEFINE row == [Executor!NoDispatch EXCEPT !.state = "accepted", !.lineage = x]
           s == Executor!AcceptRow(r, a, x)
<1>1. row.state = "accepted" /\ ~row.acked /\ ~row.intent /\ row.lineage = x
  BY DEF Executor!NoDispatch
<1> HIDE DEF row
<1>2. s.l = r.l /\ s.d = [r.d EXCEPT ![a] = row]
  BY DEF Executor!AcceptRow, Executor!RegistryType, row
<1>3. s.d[a] = row /\ \A b \in Action : b # a => s.d[b] = r.d[b]
  BY <1>2 DEF Executor!RegistryType
<1> HIDE DEF s
<1> QED
  BY <1>1, <1>2, <1>3 DEF s

(* The logical lineage is freed, and its lineages stay in use.               *)
LEMMA FreshStays ==
    ASSUME NEW r \in Executor!RegistryType, NEW a \in Action
    PROVE  LET s == Executor!retireResolvedFreshLineage(r, a)
           IN  /\ s.d = r.d /\ LinesStay(r, s)
               /\ \A x \in Lineage : r.l[x].session = "absent" => s.l[x] = r.l[x]
<1> DEFINE frees(x) ==
             /\ Executor!retainedWorkRecovery(r, a, Executor!Previous(r, a))
             /\ r.l[x].active = Executor!Previous(r, a)
           l == [x \in Lineage |->
                  IF x \notin Executor!ByLogical(r, Logical[a]) THEN r.l[x]
                  ELSE IF frees(x)
                       THEN [r.l[x] EXCEPT !.logical = Executor!Retired, !.active = NoAction,
                                           !.session = "retained"]
                       ELSE [r.l[x] EXCEPT !.logical = Executor!Retired]]
           s == Executor!retireResolvedFreshLineage(r, a)
<1>1. s = [r EXCEPT !.l = l]
  BY DEF Executor!retireResolvedFreshLineage
<1>2. ASSUME NEW x \in Lineage
      PROVE  /\ r.l[x].session = "absent" => l[x] = r.l[x]
             /\ r.l[x].session # "absent" =>
                   l[x].session # "absent" /\ l[x].logical \in {r.l[x].logical, Executor!Retired}
  <2>1. r.l[x] \in Line
    BY Typed
  <2> DEFINE line1 == [r.l[x] EXCEPT !.logical = Executor!Retired, !.active = NoAction,
                                     !.session = "retained"]
             line2 == [r.l[x] EXCEPT !.logical = Executor!Retired]
  <2>2. /\ line1.logical = Executor!Retired /\ line1.session = "retained"
        /\ line2.logical = Executor!Retired /\ line2.session = r.l[x].session
    BY <2>1 DEF Line
  <2>3. l[x] \in {r.l[x], line1, line2}
    <3> HIDE DEF frees
    <3> QED
      OBVIOUS
  <2>4. r.l[x].session = "absent" => l[x] = r.l[x]
    <3> HIDE DEF frees
    <3> QED
      BY DEF Executor!ByLogical, Executor!Used
  <2> HIDE DEF l, line1, line2
  <2> QED
    BY <2>2, <2>3, <2>4
<1> HIDE DEF l
<1>3. s.d = r.d /\ s.l = l
  BY <1>1 DEF Executor!RegistryType
<1> HIDE DEF s
<1>4. LinesStay(r, s) /\ \A x \in Lineage : r.l[x].session = "absent" => s.l[x] = r.l[x]
  BY <1>2, <1>3 DEF LinesStay
<1> QED
  BY <1>3, <1>4 DEF s

(* accept: an action is given a lineage of its logical lineage, or none yet.  *)
LEMMA AcceptLeads ==
    ASSUME Executor!RegistryAssumption, ExecutorInv, WorkInv, NEW a \in Action,
           reg.d[a].state = "absent", Executor!can_accept(reg, a)
    PROVE  LET s == Executor!accept(reg, a)
           IN  /\ s.d[a].state = "accepted" /\ ~s.d[a].acked /\ ~s.d[a].intent
               /\ \A b \in Action : b # a => s.d[b] = reg.d[b]
               /\ LinesStay(reg, s) /\ Placing(reg, s, a)
               /\ Mode[a] = "retained" => s.d[a].lineage # Executor!NoLineage
<1> DEFINE s == Executor!accept(reg, a)
<1>1. /\ reg \in Executor!RegistryType /\ reg.d[a].lineage = Executor!NoLineage
      /\ Executor!NoLineage \notin Lineage
      /\ \A b \in Action : reg.d[b].lineage \in Lineage =>
            /\ reg.l[reg.d[b].lineage].session # "absent"
            /\ reg.l[reg.d[b].lineage].logical \in {Logical[b], Executor!Retired}
  BY DEF ExecutorInv, ExecutorType, NothingBeforeAcceptance, Executor!RegistryAssumption,
         WorkInv, LineagesAreLogical
<1>2. CASE Mode[a] = "continue"
  <2>1. s = Executor!AcceptRow(reg, a, Executor!NoLineage)
    BY <1>2 DEF Executor!accept
  <2>2. /\ s.l = reg.l /\ \A b \in Action : b # a => s.d[b] = reg.d[b]
        /\ s.d[a].state = "accepted" /\ ~s.d[a].acked /\ ~s.d[a].intent
        /\ s.d[a].lineage = Executor!NoLineage
    BY <1>1, <2>1, RowAccepted
  <2> HIDE DEF s
  <2> QED
    BY <1>1, <1>2, <2>2 DEF LinesStay, Placing, s
<1>3. ASSUME NEW x \in Lineage, s = Executor!AcceptRow(reg, a, x),
             reg.l[x].session # "absent", reg.l[x].logical = Logical[a]
      PROVE  /\ s.d[a].state = "accepted" /\ ~s.d[a].acked /\ ~s.d[a].intent
             /\ \A b \in Action : b # a => s.d[b] = reg.d[b]
             /\ LinesStay(reg, s) /\ Placing(reg, s, a)
             /\ s.d[a].lineage # Executor!NoLineage
  <2>1. /\ s.l = reg.l /\ \A b \in Action : b # a => s.d[b] = reg.d[b]
        /\ s.d[a].state = "accepted" /\ ~s.d[a].acked /\ ~s.d[a].intent
        /\ s.d[a].lineage = x
    BY <1>1, <1>3, RowAccepted
  <2> HIDE DEF s
  <2>2. ASSUME NEW c \in Action, s.d[c].lineage = x PROVE Logical[c] = Logical[a]
    BY <1>1, <1>3, <2>1, <2>2 DEF Executor!RegistryAssumption
  <2> QED
    BY <1>1, <1>3, <2>1, <2>2 DEF LinesStay, Placing
<1>4. CASE Mode[a] = "fresh"
  <2>1. PICK x : x = Executor!FreshLineage(reg)
    OBVIOUS
  <2>2. PICK q : q = Executor!retireResolvedFreshLineage(reg, a)
    OBVIOUS
  <2>3. PICK t : t = Executor!InsertLineage(q, x, Logical[a], NoAction)
    OBVIOUS
  <2>4. s = Executor!AcceptRow(t, a, x)
    BY <1>4, <2>1, <2>2, <2>3 DEF Executor!accept
  <2>5. x \in Lineage /\ reg.l[x].session = "absent"
    <3>1. Executor!Used(reg) # Lineage
      BY <1>4 DEF Executor!can_accept
    <3> QED
      BY <2>1, <3>1, FreshIsUnused DEF Executor!Used
  <2>6. /\ q.d = reg.d /\ LinesStay(reg, q) /\ q \in Executor!RegistryType
    BY <1>1, <2>2, FreshStays, FreshRetired DEF Keeps
  <2>7. t \in Executor!RegistryType
    <3>1. Keeps(q, t)
      BY <2>3, <2>5, <2>6, LineageInserted
    <3> QED
      BY <3>1 DEF Keeps
  <2>8. /\ t.d = reg.d
        /\ t.l[x].session = "starting" /\ t.l[x].logical = Logical[a]
        /\ \A y \in Lineage : y # x => t.l[y] = q.l[y]
    BY <2>3, <2>5, <2>6 DEF Executor!InsertLineage, Executor!RegistryType
  <2>9. LinesStay(reg, t)
    BY <2>5, <2>6, <2>8 DEF LinesStay
  <2>10. /\ s.l = t.l /\ \A b \in Action : b # a => s.d[b] = t.d[b]
         /\ s.d[a].state = "accepted" /\ ~s.d[a].acked /\ ~s.d[a].intent
         /\ s.d[a].lineage = x
    BY <2>4, <2>5, <2>7, RowAccepted
  <2> HIDE DEF s
  <2>11. ASSUME NEW c \in Action, s.d[c].lineage = x PROVE Logical[c] = Logical[a]
    BY <1>1, <2>5, <2>8, <2>10, <2>11
  <2>12. LinesStay(reg, s)
    BY <2>9, <2>10 DEF LinesStay
  <2>13. Placing(reg, s, a)
    BY <2>5, <2>8, <2>10, <2>11 DEF Placing
  <2> QED
    BY <1>4, <2>8, <2>10, <2>12, <2>13 DEF s
<1>5. CASE Mode[a] = "retained"
  <2>1. PICK x : x = Executor!RetainedLineage(reg, a)
    OBVIOUS
  <2>2. x \in Lineage /\ reg.l[x].session # "absent" /\ reg.l[x].logical = Logical[a]
    BY <1>5, <2>1 DEF Executor!can_accept, Executor!can_claimLineage
  <2>3. s = Executor!AcceptRow(reg, a, x)
    BY <1>5, <2>1 DEF Executor!accept
  <2> QED
    BY <1>3, <2>2, <2>3
<1>6. CASE Mode[a] = "setup"
  <2>1. PICK x : x = CHOOSE y \in Executor!ByLogical(reg, Logical[a]) :
                        Executor!can_claimLineage(reg, a, y)
    OBVIOUS
  <2>2. x \in Lineage /\ reg.l[x].session # "absent" /\ reg.l[x].logical = Logical[a]
    BY <1>6, <2>1 DEF Executor!can_accept, Executor!can_claimLineage
  <2>3. s = Executor!AcceptRow(reg, a, x)
    BY <1>6, <2>1 DEF Executor!accept
  <2> QED
    BY <1>3, <1>6, <2>2, <2>3
<1> QED
  BY <1>2, <1>4, <1>5, <1>6 DEF Executor!can_accept

(* execute_action: an action is accepted and started, or refused.            *)
LEMMA ExecuteMoves ==
    ASSUME Executor!RegistryAssumption, ExecutorInv, WorkInv, NEW a \in Action,
           Executor!ExecuteAction(a)
    PROVE  Moves
<1>0. /\ reg \in Executor!RegistryType /\ Stays(reg, reg, {}) /\ Keeps(reg, reg)
      /\ pc \in [Action -> [Executor!Thread -> Places]]
      /\ server \in [Action -> ServerRow] /\ server[a] \in ServerRow
      /\ server[a].state = "scheduled" /\ ~server[a].cancel /\ Executor!Dispatchable(a)
      /\ sent' = sent /\ "execution" \in Executor!Thread /\ "cancel" \in Executor!Thread
  BY RowsAreLive DEF ExecutorInv, ExecutorType, Executor!ExecuteAction, Executor!Dispatchable,
     WorkInv, FactsInv, CancelIsPending
<1>1. CASE Executor!can_accept(reg, a)
  <2>1. PICK s : s = Executor!accept(reg, a)
    OBVIOUS
  <2>2. /\ reg' = s /\ (pc' = pc \/ pc' = Executor!Started(pc, a))
        /\ server' = server \/ server' = [server EXCEPT ![a].state = "acknowledged"]
    BY <1>1, <2>1 DEF Executor!ExecuteAction
  <2>3. ASSUME NEW b \in Action
        PROVE  /\ server'[b].cancel = server[b].cancel /\ server'[b].retire = server[b].retire
               /\ server'[b].failure = server[b].failure
               /\ server'[b].state = server[b].state \/ (b = a /\ server'[b].state = "acknowledged")
    BY <1>0, <2>2 DEF ServerRow
  <2>4. ASSUME NEW b \in Action, NEW t \in Executor!Thread
        PROVE  pc'[b][t] = pc[b][t] \/ pc'[b][t] = "loop"
    BY <1>0, <2>2 DEF Executor!Started
  <2>5. reg'.d[a].state # "absent"
    BY <1>0, <1>1, <2>1, <2>2, Accepted DEF ExecutorInv, NothingBeforeAcceptance
  <2>6. ASSUME NEW b \in Action PROVE ServerStill(b)
    BY <1>0, <2>3, <2>5 DEF ServerStill, Executor!Terminal
  <2>7. CASE reg.d[a].state # "absent"
    <3>1. reg' = reg
      BY <2>1, <2>2, <2>7 DEF Executor!accept
    <3> QED
      BY <1>0, <2>3, <2>4, <2>6, <3>1, QuietMoves
  <2>8. CASE reg.d[a].state = "absent"
    <3>1. /\ reg'.d[a].state = "accepted" /\ ~reg'.d[a].acked /\ ~reg'.d[a].intent
          /\ \A b \in Action : b # a => reg'.d[b] = reg.d[b]
          /\ LinesStay(reg, reg') /\ Placing(reg, reg', a)
          /\ Mode[a] = "retained" => reg'.d[a].lineage # Executor!NoLineage
      BY <1>1, <2>1, <2>2, <2>8, AcceptLeads
    <3> SUFFICES ASSUME NEW b \in Action
                 PROVE  /\ RowMoves(b) /\ ServerMoves(b) /\ ThreadsMove(b)
                        /\ WorkMoves(b) /\ Placing(reg, reg', b)
      BY <3>1 DEF Moves
    <3>2. RowMoves(b) /\ Placing(reg, reg', b)
      <4>1. CASE b = a
        BY <1>0, <2>8, <3>1, <4>1 DEF RowMoves
      <4>2. CASE b # a
        BY <3>1, <4>2 DEF RowMoves, OutcomeStays, Placing
      <4> QED
        BY <4>1, <4>2
    <3>3. ServerMoves(b)
      BY <2>3, <2>6 DEF ServerMoves
    <3>4. ThreadsMove(b)
      <4>1. pc'[b]["cancel"] \in {"stopping", "interrupting"} =>
                pc[b]["cancel"] \in {"stopping", "interrupting"}
        BY <1>0, <2>4
      <4>2. ASSUME NEW t \in Executor!Thread
            PROVE  /\ pc'[b][t] = "acking" => pc[b][t] = "acking"
                   /\ pc'[b][t] \in {"watch", "observing", "fencing"} => Observes
                   /\ pc'[b][t] = "retiring" => "retire" \in Commands
        BY <2>4 DEF WorkInv, FactsInv, WithdrawalsAreAsked
      <4> QED
        BY <1>0, <4>1, <4>2 DEF ThreadsMove
    <3>5. pc'[b]["execution"] \in Placed => pc[b]["execution"] \in Placed /\ b # a
      <4>1. pc'[b]["execution"] = pc[b]["execution"] \/ pc'[b]["execution"] = "loop"
        BY <1>0, <2>4
      <4>2. pc[a]["execution"] = "idle"
        BY <1>0, <2>8 DEF ExecutorInv, NothingBeforeAcceptance
      <4> QED
        BY <4>1, <4>2 DEF Placed
    <3>6. Dispatched(b)' => Dispatched(b) \/ Executor!Dispatchable(b)
      BY <1>0, <2>3, <3>1 DEF Dispatched
    <3>7. WorkMoves(b)
      <4>1. /\ reg'.d[b].intent => reg.d[b].intent
            /\ b # a => reg'.d[b] = reg.d[b]
            /\ reg'.d[b].state # "absent" /\ Mode[b] = "retained" =>
                  reg.d[b].state # "absent" \/ reg'.d[b].lineage # Executor!NoLineage
        BY <3>1
      <4> QED
        BY <3>5, <3>6, <4>1 DEF WorkMoves
    <3> QED
      BY <3>2, <3>3, <3>4, <3>7
  <2> QED
    BY <2>7, <2>8
<1>2. CASE ~Executor!can_accept(reg, a)
  <2>1. /\ UNCHANGED <<reg, pc>> /\ reg.d[a].state = "absent"
        /\ server' = [server EXCEPT ![a].state = "failed", ![a].failure = "other"]
    BY <1>2 DEF Executor!ExecuteAction, Executor!can_accept
  <2>2. /\ server'[a].state = "failed" /\ server'[a].failure = "other"
        /\ server'[a].cancel = server[a].cancel /\ server'[a].retire = server[a].retire
        /\ \A b \in Action : b # a => server'[b] = server[b]
    BY <1>0, <2>1 DEF ServerRow
  <2> SUFFICES ASSUME NEW b \in Action
               PROVE  /\ RowMoves(b) /\ ServerMoves(b) /\ ThreadsMove(b)
                      /\ WorkMoves(b) /\ Placing(reg, reg', b)
    BY <1>0, <2>1 DEF Moves, Stays
  <2>3. RowMoves(b) /\ Placing(reg, reg', b)
    BY <2>1 DEF RowMoves, OutcomeStays, Placing
  <2>4. ServerMoves(b)
    BY <1>0, <2>1, <2>2 DEF ServerMoves, ServerStill, Executor!Terminal
  <2>5. ThreadsMove(b)
    BY <1>0, <2>1 DEF ThreadsMove, WorkInv, FactsInv, WithdrawalsAreAsked
  <2>6. Dispatched(b)' => Dispatched(b) \/ Executor!Dispatchable(b)
    BY <1>0, <2>1, <2>2 DEF Dispatched
  <2>7. WorkMoves(b)
    BY <2>1, <2>6 DEF WorkMoves
  <2> QED
    BY <2>3, <2>4, <2>5, <2>7
<1> QED
  BY <1>1, <1>2

(* What operators ask of the server.                                         *)
LEMMA OperatorMoves ==
    ASSUME ExecutorInv, WorkInv, NEW a \in Action,
           \/ Executor!OperatorAuthorizes(a) \/ Executor!OperatorCancels(a)
           \/ Executor!OperatorRecovers(a)
    PROVE  Moves
<1>0. /\ Stays(reg, reg, {}) /\ Keeps(reg, reg) /\ server \in [Action -> ServerRow]
      /\ UNCHANGED <<reg, pc, sent>>
  BY RowsAreLive DEF ExecutorInv, ExecutorType, Executor!OperatorAuthorizes,
     Executor!OperatorCancels, Executor!OperatorRecovers
<1>1. CASE Executor!OperatorAuthorizes(a)
  <2>1. \A b \in Action :
          /\ server'[b].state = server[b].state /\ server'[b].failure = server[b].failure
          /\ server'[b].cancel = server[b].cancel /\ server'[b].retire = server[b].retire
    BY <1>0, <1>1 DEF Executor!OperatorAuthorizes, ServerRow
  <2>2. \A b \in Action : ServerStill(b) /\ (server'[b].retire => server[b].retire)
    BY <2>1 DEF ServerStill
  <2> QED
    BY <1>0, <2>2, QuietMoves
<1>2. CASE Executor!OperatorRecovers(a)
  <2>1. \A b \in Action :
          /\ server'[b].state = server[b].state /\ server'[b].failure = server[b].failure
          /\ server'[b].cancel = server[b].cancel
          /\ server'[b].retire => server[b].retire \/ "retire" \in Commands
    BY <1>0, <1>2 DEF Executor!OperatorRecovers, ServerRow
  <2>2. \A b \in Action : ServerStill(b)
    BY <2>1 DEF ServerStill
  <2> QED
    BY <1>0, <2>1, <2>2, QuietMoves
<1>3. CASE Executor!OperatorCancels(a)
  <2>1. /\ server[a].state \in {"acknowledged", "running"}
        /\ \A b \in Action :
              /\ server'[b].state = server[b].state /\ server'[b].failure = server[b].failure
              /\ server'[b].retire = server[b].retire
              /\ server'[b].cancel = IF b = a THEN TRUE ELSE server[b].cancel
    BY <1>0, <1>3 DEF Executor!OperatorCancels, ServerRow
  <2>2. \A b \in Action : ServerMoves(b) /\ (server'[b].state # "scheduled" => Dispatched(b))
    BY <2>1 DEF ServerMoves, ServerStill, Dispatched, Executor!Terminal
  <2>3. \A b \in Action : RowMoves(b)
    BY <1>0 DEF RowMoves, OutcomeStays
  <2>4. LinesStay(reg, reg')
    BY <1>0 DEF Stays
  <2> QED
    BY <1>0, <2>2, <2>3, <2>4, RestMoves
<1> QED
  BY <1>1, <1>2, <1>3

(* The connection is lost, or the Worker restarts and recovers (recoverAll).  *)
LEMMA RestartMoves ==
    ASSUME ExecutorInv, WorkInv, Executor!Disconnect \/ Executor!recoverAll
    PROVE  Moves
<1>0. /\ Stays(reg, reg, {}) /\ reg \in Executor!RegistryType
      /\ server \in [Action -> ServerRow] /\ sent \in [Action -> [Executor!Thread -> Fact]]
      /\ pc \in [Action -> [Executor!Thread -> Places]]
      /\ server' = [a \in Action |-> [server[a] EXCEPT !.told = FALSE]]
  BY StaysSame DEF ExecutorInv, ExecutorType, Executor!Disconnect, Executor!recoverAll
<1>1. ASSUME NEW b \in Action PROVE ServerStill(b) /\ server'[b].retire = server[b].retire
  <2>1. server[b] \in ServerRow /\ server'[b] = [server[b] EXCEPT !.told = FALSE]
    BY <1>0
  <2>2. /\ server'[b].state = server[b].state /\ server'[b].failure = server[b].failure
        /\ server'[b].cancel = server[b].cancel /\ server'[b].retire = server[b].retire
    BY <2>1 DEF ServerRow
  <2> QED
    BY <2>2 DEF ServerStill
<1>2. Stays(reg, reg', {}) /\ Keeps(reg, reg')
  <2>1. CASE Executor!Disconnect
    BY <1>0, <2>1, KeepsSame DEF Executor!Disconnect
  <2>2. CASE Executor!recoverAll
    <3> DEFINE over(x) == \E a \in Executor!Known :
                             /\ reg.d[a].lineage = x /\ Executor!Settled(reg.d[a])
                             /\ ~(reg.d[a].failure = "cancelled" /\ ~reg.d[a].acked)
                             /\ reg.l[x].active \in {NoAction, a}
               state(x) == IF native[x] = "none" THEN "unavailable" ELSE "retained"
               l == [x \in Lineage |-> IF over(x) THEN [reg.l[x] EXCEPT !.session = state(x)]
                                       ELSE reg.l[x]]
    <3>1. reg' = [reg EXCEPT !.l = l]
      BY <2>2 DEF Executor!recoverAll
    <3> HIDE DEF over
    <3>2. ASSUME NEW x \in Lineage
          PROVE  /\ l[x] \in Line
                 /\ reg.l[x].session # "absent" =>
                       l[x].session # "absent" /\ l[x].logical = reg.l[x].logical
      <4>1. /\ reg.l[x] \in Line /\ state(x) \in Executor!SessionState
            /\ state(x) # "absent"
        BY <1>0, Typed DEF Executor!SessionState
      <4> DEFINE line == [reg.l[x] EXCEPT !.session = state(x)]
      <4>2. l[x] \in {reg.l[x], line}
        OBVIOUS
      <4> HIDE DEF state
      <4>3. line \in Line /\ line.session = state(x) /\ line.logical = reg.l[x].logical
        BY <4>1 DEF Line
      <4> HIDE DEF l, line
      <4> QED
        BY <4>1, <4>2, <4>3
    <3>3. l \in [Lineage -> Line]
      <4>1. l = [x \in Lineage |-> l[x]]
        OBVIOUS
      <4> HIDE DEF l
      <4> QED
        BY <3>2, <4>1
    <3> HIDE DEF l
    <3>4. Keeps(reg, reg')
      BY <1>0, <3>1, <3>3, LinesWritten
    <3>5. Stays(reg, reg', {})
      BY <1>0, <3>1, <3>2, StaysLines
    <3> QED
      BY <3>4, <3>5
  <2> QED
    BY <2>1, <2>2
<1>3. ASSUME NEW b \in Action, NEW t \in Executor!Thread
      PROVE  /\ sent'[b][t] = sent[b][t] \/ sent'[b][t].state \notin Executor!Terminal
             /\ pc'[b][t] = pc[b][t] \/ pc'[b][t] \in {"idle", "loop"}
  <2>1. CASE Executor!Disconnect
    BY <2>1 DEF Executor!Disconnect
  <2>2. CASE Executor!recoverAll
    <3>1. sent'[b][t] = Executor!NoFact
      BY <2>2 DEF Executor!recoverAll
    <3>2. pc'[b][t] \in {"idle", "loop"}
      BY <2>2 DEF Executor!recoverAll
    <3> QED
      BY <3>1, <3>2 DEF Executor!NoFact, Executor!Terminal
  <2> QED
    BY <2>1, <2>2
<1> QED
  BY <1>1, <1>2, <1>3, QuietMoves


(* Every step of the executor, the server and the operators.                 *)
LEMMA WorkerMoves ==
    ASSUME Executor!RegistryAssumption, ExecutorInv, WorkInv,
           [Executor!Next]_Executor!vars
    PROVE  Moves
<1>1. CASE \/ UNCHANGED Executor!vars
           \/ \E x \in Lineage : Executor!NativeTurnEnds(x) \/ Executor!HumanTypes(x)
  <2>1. UNCHANGED <<reg, pc, sent, server>>
    BY <1>1 DEF Executor!vars, Executor!NativeTurnEnds, Executor!HumanTypes
  <2>2. Stays(reg, reg', {}) /\ Keeps(reg, reg')
    BY <2>1, StaysSame, KeepsSame DEF ExecutorInv, ExecutorType
  <2>3. \A b \in Action : ServerStill(b)
    BY <2>1 DEF ServerStill
  <2> QED
    BY <2>1, <2>2, <2>3, QuietMoves
<1>2. CASE \E a \in Action : \/ Executor!ExecuteAction(a) \/ Executor!OperatorAuthorizes(a)
                             \/ Executor!OperatorCancels(a) \/ Executor!OperatorRecovers(a)
  BY <1>2, ExecuteMoves, OperatorMoves
<1>3. CASE \E a \in Action : Executor!Execution(a)
  <2>1. PICK a \in Action : Executor!Execution(a)
    BY <1>3
  <2>2. CASE \/ Executor!StartExecution(a) \/ Executor!AdoptPrepared(a)
             \/ Executor!ReplacePrepared(a) \/ Executor!ReportSettled(a)
             \/ Executor!StartRecovery(a) \/ Executor!StartAdoption(a)
             \/ Executor!HarnessStarts(a)
    BY <2>2, AssignedMoves, TransferMoves, StartMoves
  <2>3. CASE \/ Executor!PromptGate(a) \/ Executor!Recovered(a) \/ Executor!NotRecovered(a)
             \/ Executor!Continued(a) \/ Executor!Submit(a) \/ Executor!CannotSubmit(a)
             \/ Executor!PromptAccepted(a) \/ Executor!Collected(a)
             \/ Executor!stagePromptAuthorization(a)
    BY <2>3, WorkMovesOn
  <2>4. CASE Executor!startPromptGateMonitor(a) \/ Executor!MonitorLooks(a)
    BY <2>4, GateMoves
  <2> QED
    BY <2>1, <2>2, <2>3, <2>4 DEF Executor!Execution
<1>4. CASE \E a \in Action : Executor!Handlers(a)
  BY <1>4, CommandMoves, GateMoves DEF Executor!Handlers
<1>5. CASE \E a \in Action : \E error \in Executor!Fault : Executor!HarnessFails(a, error)
  BY <1>5, WorkMovesOn
<1>6. CASE \E a \in Action : \E t \in Executor!Thread :
             \/ Executor!SeesActivity(a, t) \/ Executor!FailContaminated(a, t)
             \/ Executor!SeesNothing(a, t) \/ Executor!Report(a, t) \/ Executor!Acknowledged(a, t)
  BY <1>6, ActivityMoves, ReportedMoves, AcknowledgedMoves
<1>7. CASE Executor!Disconnect \/ Executor!Reconcile \/ Executor!recoverAll
  BY <1>7, RestartMoves, ReconcileMoves
<1> QED
  BY <1>1, <1>2, <1>3, <1>4, <1>5, <1>6, <1>7 DEF Executor!Next

(* Before anything is dispatched.                                            *)
LEMMA WorkInit ==
    ASSUME Executor!Init
    PROVE  WorkInv
<1>1. /\ \A a \in Action : reg.d[a] = Executor!NoDispatch /\ server[a] = Executor!NoServerRow
      /\ \A a \in Action, t \in Executor!Thread :
            pc[a][t] = "idle" /\ sent[a][t] = Executor!NoFact
      /\ {"execution", "cancel"} \subseteq Executor!Thread
  BY DEF Executor!Init, Executor!EmptyRegistry, Executor!Thread
<1> USE DEF Executor!NoDispatch, Executor!NoServerRow, Executor!NoFact, Executor!Terminal
<1>2. FactsInv
  BY <1>1 DEF FactsInv, OutcomesAgree, CancelIsPending, ReportsAreOutcomes, WithdrawalsAreAsked
<1>3. LineagesAreLogical /\ WorkIsOpen
  BY <1>1 DEF LineagesAreLogical, WorkIsOpen, Placed
<1> QED
  BY <1>2, <1>3 DEF WorkInv

(* The invariant of the registry with that of the work, from any step.       *)
LEMMA WorkStep ==
    ASSUME Executor!RegistryAssumption, ExecutorInv, WorkInv, online \in BOOLEAN,
           [Executor!Next]_Executor!vars
    PROVE  ExecutorInv' /\ WorkInv' /\ AcknowledgedStays
  BY ExecutorStep, WorkerMoves, FactsKept, LineagesKept DEF WorkInv


(* The invariants of the registry, the work and the link.                    *)
ExecutorWorks == ExecutorInv /\ WorkInv /\ LinkType

(* Before anything is dispatched.                                            *)
LEMMA ExecutorWorksInit ==
    ASSUME Executor!RegistryAssumption
    PROVE  Executor!Init => ExecutorWorks
  BY ExecutorInit, WorkInit DEF ExecutorWorks, Executor!Init, LinkType

(* ... and in every step.                                                   *)
LEMMA ExecutorWorksStep ==
    ASSUME Executor!RegistryAssumption
    PROVE  ExecutorWorks /\ [Executor!Next]_Executor!vars => ExecutorWorks' /\ AcknowledgedStays
  BY WorkStep, LinkStep DEF ExecutorWorks, LinkType

(* What the Worker believes acknowledged is recorded by the server, as it is  *)
(* (acknowledgeTerminal, acknowledgeServerTerminal), unless the Attempt was   *)
(* withdrawn after it had completed: observed native activity before its      *)
(* prompt was authorized (failContaminated), or retired it for a recovery     *)
(* (retireForRecovery).  The server then has a failure that names no reason.  *)
THEOREM AcknowledgedIsRecorded ==
    ASSUME Executor!RegistryAssumption
    PROVE  Executor!Spec => []AcknowledgedOrWithdrawn
<1>1. ExecutorWorks => Executor!AcknowledgedOrWithdrawn
  <2> SUFFICES ASSUME ExecutorWorks, NEW a \in DOMAIN reg.d, reg.d[a].acked
               PROVE  \/ server[a].state = reg.d[a].state
                      \/ /\ reg.d[a].state = "completed" /\ server[a].state = "failed"
                         /\ server[a].failure = "none" /\ Executor!Withdraws
    BY DEF Executor!AcknowledgedOrWithdrawn
  <2>1. a \in Action
    BY DEF ExecutorWorks, ExecutorInv, ExecutorType, Executor!RegistryType
  <2> QED
    BY <2>1 DEF ExecutorWorks, WorkInv, FactsInv, OutcomesAgree, FailedAs, Executor!Terminal
<1> QED
  BY <1>1, ExecutorWorksInit, ExecutorWorksStep, PTL DEF AcknowledgedOrWithdrawn, Executor!Spec

(* ... so without those two operations the server has exactly the outcome     *)
(* that the Worker was told is acknowledged, however many replies, links and  *)
(* processes are lost in between.                                            *)
THEOREM AcknowledgedIsAlwaysAccepted ==
    ASSUME Executor!RegistryAssumption, ~Observes, "retire" \notin Commands
    PROVE  Executor!Spec => []AcknowledgedIsAccepted
<1>1. ExecutorWorks /\ Executor!AcknowledgedOrWithdrawn => Executor!AcknowledgedIsAccepted
  BY DEF ExecutorWorks, ExecutorInv, ExecutorType, Executor!RegistryType,
         Executor!AcknowledgedOrWithdrawn, Executor!Withdraws, Executor!AcknowledgedIsAccepted
<1> QED
  BY <1>1, ExecutorWorksInit, ExecutorWorksStep, AcknowledgedIsRecorded, PTL
     DEF AcknowledgedOrWithdrawn, AcknowledgedIsAccepted, Executor!Spec

(* An outcome that is acknowledged stays acknowledged, and stays the outcome: *)
(* no operation of the registry reopens it, at most its failure becomes that  *)
(* of a withdrawal.                                                          *)
THEOREM AcknowledgedAlwaysStays ==
    ASSUME Executor!RegistryAssumption
    PROVE  Executor!Spec => [][AcknowledgedStays]_Executor!vars
  BY ExecutorWorksInit, ExecutorWorksStep, PTL DEF Executor!Spec

(* ... and without withdrawals its fact is final                             *)
(* (DispatchExecutor.AcknowledgedIsFinal).                                   *)
THEOREM AcknowledgedIsAlwaysFinal ==
    ASSUME Executor!RegistryAssumption, ~Observes, "retire" \notin Commands
    PROVE  Executor!Spec => Executor!AcknowledgedIsFinal
<1>1. AcknowledgedStays =>
          \A a \in Action : reg.d[a].acked => Executor!FactOf(reg', a) = Executor!FactOf(reg, a)
  BY DEF AcknowledgedStays, Executor!Withdraws, Executor!FactOf
<1> QED
  BY <1>1, AcknowledgedAlwaysStays, PTL DEF Executor!AcknowledgedIsFinal

(* The sources of an action are over before it is dispatched                 *)
(* (Dispatchable), whatever order P they have.                               *)
LEMMA SourcesInit ==
    ASSUME Executor!Init, NEW P
    PROVE  SourcesAreOver(P)
  BY DEF SourcesAreOver, Dispatched, Executor!Init, Executor!EmptyRegistry,
         Executor!NoDispatch, Executor!NoServerRow

(* Two executions at work on one lineage would be those of an action and of  *)
(* one that continues it, and what is continued is over.                      *)
LEMMA DriversAreOne ==
    ASSUME Executor!RegistryAssumption, ~Executor!Withdraws, NEW P, Chained(P),
           ExecutorInv, WorkInv, SourcesAreOver(P)
    PROVE  OneDriverPerLineage
<1>1. ASSUME NEW a \in Action, NEW b \in Action, <<a, b>> \in P,
             Executor!Driving(a), Executor!Driving(b)
      PROVE  FALSE
  <2>1. pc[a]["execution"] \in Placed /\ pc[b]["execution"] # "idle"
    BY <1>1 DEF Executor!Driving, Placed
  <2>2. reg.d[a].state # "absent" /\ reg.d[b].state # "absent"
    BY <1>1, <2>1, RowsAreLive DEF Live, Placed
  <2>3. server[a].state \in Executor!Terminal /\ ~server[a].cancel
    BY <1>1, <2>2 DEF SourcesAreOver, Dispatched, Over
  <2>4. reg.d[a].state \in Executor!Terminal
    BY <2>2, <2>3 DEF WorkInv, FactsInv, OutcomesAgree, FailedAs, Executor!Withdraws,
         Executor!Terminal
  <2> QED
    BY <2>1, <2>3, <2>4 DEF WorkInv, WorkIsOpen
<1>2. ASSUME NEW a \in Action, NEW b \in Action, a # b,
             Executor!Driving(a), Executor!Driving(b), reg.d[a].lineage = reg.d[b].lineage
      PROVE  FALSE
  <2>1. pc[a]["execution"] \in Placed
    BY <1>2 DEF Executor!Driving, Placed
  <2>2. reg.d[a].lineage # Executor!NoLineage
    BY <2>1 DEF WorkInv, LineagesAreLogical
  <2>3. Logical[b] = Logical[a]
    BY <1>2, <2>2 DEF WorkInv, LineagesAreLogical
  <2> QED
    BY <1>1, <1>2, <2>3 DEF Chained
<1>3. DOMAIN pc = Action
  BY DEF ExecutorInv, ExecutorType
<1> QED
  BY <1>2, <1>3 DEF OneDriverPerLineage, Executor!OneDriverPerLineage


(* Two Attempts never drive the process of one lineage at a time              *)
(* (executeWithBackendRecovery, sendInputAndCollect), when those of a logical *)
(* lineage continue one another: the scheduler keeps at most one of them      *)
(* active (available_context), and dispatches a continuation when what it     *)
(* continues is over. A withdrawal ends a turn without waiting for its        *)
(* execution, so neither of the two is in this theorem.                       *)
THEOREM OneDriverOfEveryLineage ==
    ASSUME Executor!RegistryAssumption, ~Observes, "retire" \notin Commands,
           NEW P, Chained(P)
    PROVE  Executor!Spec => []OneDriverPerLineage
<1> DEFINE Inv == ExecutorWorks /\ SourcesAreOver(P)
<1>1. Executor!Init => Inv
  BY ExecutorWorksInit, SourcesInit
<1>2. Inv /\ [Executor!Next]_Executor!vars => Inv'
  <2>1. SUFFICES ASSUME Inv, [Executor!Next]_Executor!vars PROVE Inv'
    OBVIOUS
  <2>2. Moves /\ ExecutorWorks'
    BY <2>1, WorkerMoves, ExecutorWorksStep DEF ExecutorWorks
  <2>3. SourcesAreOver(P)'
    BY <2>1, <2>2, SourcesKept DEF ExecutorWorks, WorkInv
  <2> QED
    BY <2>2, <2>3
<1>3. Inv => OneDriverPerLineage
  BY DriversAreOne DEF Executor!Withdraws, ExecutorWorks
<1> QED
  BY <1>1, <1>2, <1>3, PTL DEF Executor!Spec
=============================================================================
