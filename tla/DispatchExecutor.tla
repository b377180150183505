-------------------------- MODULE DispatchExecutor --------------------------
(***************************************************************************)
(* The Worker's DispatchExecutor over its registry, the native harness it   *)
(* drives and the control plane it reports to.  The Worker is one JavaScript*)
(* thread: a step runs from one await to the next, and everything else may  *)
(* happen in between.  Per action there are five concurrent operations,     *)
(* written here as threads: the execution itself (the promise in `active`), *)
(* the prompt gate monitor, and the handlers of authorize_prompt, of        *)
(* cancel_dispatch and of retire_dispatch_for_recovery.                     *)
(*                                                                          *)
(* The harness (external) is one native process per lineage that a human    *)
(* may type into; the server's row of an action follows DispatchStore.      *)
(***************************************************************************)
EXTENDS DispatchRegistry

CONSTANTS
    Gated,           \* actions whose prompt needs explicit authorization
    Observes,        \* the harness implements observePreAuthorizationActivity
    Commands,        \* what operators do: "cancel", "retire", "replay" (authorize again)
    Faults,          \* what may fail: see Fault
    MaxCrashes,      \* bound: restarts of the Worker
    MaxDisconnects,  \* bound: lost connections
    MaxRecoveries    \* maximumRecoveries for observation failures (3 in the code)

Thread == {"execution", "monitor", "authorize", "cancel", "retire"}

(* errors of a harness call: the backend is unreachable, an observation times *)
(* out, the preparation fails before any prompt, the outcome is unknown, or   *)
(* the turn fails                                                             *)
Fault == {"backend", "observation", "prepare", "contract", "other"}

VARIABLES
    reg,       \* the registry, durable
    pc,        \* pc[a][t]: where the thread is, "idle" when there is none
    recovery,  \* recovery[a]: retries of executeWithBackendRecovery so far
    sent,      \* sent[a][t]: the fact a thread reports, captured before it is sent
    stopped,   \* stopped[a]: monitor.cancelled
    native,    \* native[x]: the process of a lineage: "none", "idle", "human" or the action of its turn
    result,    \* result[a]: the native turn of a has produced its result
    prompts,   \* prompts[a]: prompts submitted for a, ever
    server,    \* server[a]: the dispatch row of the control plane
    online,    \* the connection is registered and reconciled
    crashes, disconnects

vars == <<reg, pc, recovery, sent, stopped, native, result, prompts, server, online,
          crashes, disconnects>>
harness == <<native, result, prompts>>
link == <<online, crashes, disconnects>>

ExecutorAssumption ==
    /\ Gated \subseteq Action /\ Observes \in BOOLEAN
    /\ Commands \subseteq {"cancel", "retire", "replay"} /\ Faults \subseteq Fault
    /\ MaxCrashes \in Nat /\ MaxDisconnects \in Nat /\ MaxRecoveries \in Nat

NoFact == [state |-> "absent", failure |-> "none"]
RunningFact == [state |-> "running", failure |-> "none"]
FactOf(r, a) == [state |-> r.d[a].state, failure |-> r.d[a].failure]

----------------------------------------------------------------------------
(* The control plane's row (DispatchStore, CompletionAdapter,                 *)
(* OperationalFailure, CancellationAdapter), for one Worker generation.       *)

NoServerRow == [state |-> "scheduled", failure |-> "none", cancel |-> FALSE,
                authorized |-> FALSE, told |-> FALSE, retire |-> FALSE]

server_accepts(s, fact) ==
    CASE fact.state = "completed" -> ~s.cancel /\ s.state # "failed"
      [] fact.state = "failed" ->
            /\ (fact.failure = "cancelled") <=> s.cancel
            /\ s.state # "completed"
            /\ s.state = "failed" => s.failure = fact.failure
      [] fact.state = "uncertain" ->
            \/ s.state \in Terminal
            \/ ~s.cancel /\ (s.state = "uncertain" => s.failure = fact.failure)
      [] OTHER -> TRUE

server_apply(s, fact) ==
    CASE fact.state = "accepted" ->
            IF s.state = "scheduled" THEN [s EXCEPT !.state = "acknowledged"] ELSE s
      [] fact.state = "running" ->
            IF s.state \in Terminal \/ (s.state = "uncertain" /\ s.failure # "observation")
            THEN s ELSE [s EXCEPT !.state = "running"]
      [] fact.state = "uncertain" ->
            IF s.state \in Terminal \cup {"uncertain"} THEN s
            ELSE [s EXCEPT !.state = "uncertain", !.failure = fact.failure]
      [] fact.state \in Terminal ->
            IF s.state \in Terminal THEN s
            ELSE [s EXCEPT !.state = fact.state, !.failure = fact.failure]
      [] OTHER -> s

(* Reconciler.apply_observed: with a cancellation pending, what is not the    *)
(* cancellation is neither applied nor refused                                *)
reconcile_defers(s, fact) ==
    s.cancel /\ s.state \notin Terminal /\ ~(fact.state = "failed" /\ fact.failure = "cancelled")

----------------------------------------------------------------------------
Init ==
    /\ reg = EmptyRegistry
    /\ pc = [a \in Action |-> [t \in Thread |-> "idle"]]
    /\ recovery = [a \in Action |-> 0]
    /\ sent = [a \in Action |-> [t \in Thread |-> NoFact]]
    /\ stopped = [a \in Action |-> FALSE]
    /\ native = [x \in Lineage |-> "none"]
    /\ result = [a \in Action |-> FALSE]
    /\ prompts = [a \in Action |-> 0]
    /\ server = [a \in Action |-> NoServerRow]
    /\ online = TRUE
    /\ crashes = 0 /\ disconnects = 0

At(a, t, where) == pc[a][t] = where
Goto(a, t, where) == pc' = [pc EXCEPT ![a][t] = where]

(* a thread ends by reporting the fact of row r                               *)
ThenReport(a, t, r) ==
    /\ reg' = r
    /\ Goto(a, t, "report")
    /\ sent' = [sent EXCEPT ![a][t] = FactOf(r, a)]

(* reportFailure: a row that is not uncertain is reported as failed            *)
ThenReportFailure(a, t, r) ==
    /\ reg' = r
    /\ Goto(a, t, "report")
    /\ sent' = [sent EXCEPT ![a][t] =
                  [FactOf(r, a) EXCEPT !.state = IF @ = "uncertain" THEN @ ELSE "failed"]]

(* DispatchExecutor.start: nothing if the action is already active            *)
Started(p, a) ==
    IF p[a]["execution"] = "idle" THEN [p EXCEPT ![a]["execution"] = "loop"] ELSE p

----------------------------------------------------------------------------
(* Errors of the execution thread.                                            *)

isUncertain(row, error) ==
    \/ error = "contract"
    \/ (row.prompted \/ row.native) /\ error \in {"backend", "observation"}

(* failAndReport, its row: a terminal one is left alone                       *)
Failed(r, a, error) ==
    IF r.d[a].state \in Terminal \/ isRecoverableObservationUncertainty(r.d[a]) THEN r
    ELSE IF error \in {"backend", "observation"} /\ r.d[a].lineage # NoLineage
         THEN updateSession(fail(r, a, error, isUncertain(r.d[a], error)),
                            r.d[a].lineage, "unavailable")
         ELSE fail(r, a, error, isUncertain(r.d[a], error))

(* Mutant: a failure replaces the terminal fact it finds.                    *)
failAndReport_terminal(a, error) ==
    ThenReport(a, "execution", fail(reg, a, error, isUncertain(reg.d[a], error)))

(* ... and what it reports: nothing of a row that was already terminal        *)
failAndReport(a, error) ==
    IF reg.d[a].state \in Terminal
    THEN Goto(a, "execution", "idle") /\ UNCHANGED <<reg, sent>>
    ELSE ThenReport(a, "execution", Failed(reg, a, error))

MaximumRecoveries(error) == IF error = "observation" THEN MaxRecoveries ELSE 1

WithSession(r, a, state) ==
    IF r.d[a].lineage = NoLineage THEN r ELSE updateSession(r, r.d[a].lineage, state)

(* what execute or recoverOne throws: an unavailable backend is retried       *)
Throw(a, error) ==
    IF error \notin {"backend", "observation"}
    THEN failAndReport(a, error) /\ UNCHANGED recovery
    ELSE \E r \in {IF error = "observation" THEN recordObservationFailure(reg, a) ELSE reg} :
            IF recovery[a] < MaximumRecoveries(error)
            THEN /\ reg' = WithSession(r, a, "recovering")
                 /\ recovery' = [recovery EXCEPT ![a] = @ + 1]
                 /\ Goto(a, "execution", "loop")
                 /\ UNCHANGED sent
            ELSE /\ UNCHANGED recovery
                 /\ IF r.d[a].state \in Terminal
                    THEN Goto(a, "execution", "idle") /\ UNCHANGED <<reg, sent>>
                    ELSE ThenReport(a, "execution", Failed(r, a, error))

----------------------------------------------------------------------------
(* The execution thread.                                                      *)

(* a prepared process of the failed source that was never prompted             *)
preparedProcessAdoptionSource(r, a) ==
    /\ Mode[a] = "retained"
    /\ r.d[Source[a]].state = "failed" /\ r.d[Source[a]].failure = "prepare"
    /\ sourceLifecycleAbsent(r.d[Source[a]])
    /\ ~LineageOf(r, Source[a]).native

shouldRecover(r, a) ==
    \/ r.d[a].intent
    \/ /\ ~(preparedProcessAdoptionSource(r, a) /\ r.moved[a] = "none")
       /\ r.d[a].lineage # NoLineage
       /\ LineageOf(r, a).handle

Settled(row) ==
    \/ row.state \in Terminal
    \/ row.state = "uncertain" /\ ~isRecoverableObservationUncertainty(row)

(* executeWithBackendRecovery at the top of its loop, a settled dispatch       *)
ReportSettled(a) ==
    /\ At(a, "execution", "loop") /\ Settled(reg.d[a])
    /\ ThenReport(a, "execution", reg)
    /\ UNCHANGED <<recovery, stopped, harness, server, link>>

(* recoverOne up to its first await                                            *)
StartRecovery(a) ==
    /\ At(a, "execution", "loop") /\ ~Settled(reg.d[a]) /\ shouldRecover(reg, a)
    /\ Goto(a, "execution", "recovering")
    /\ UNCHANGED <<reg, recovery, sent, stopped, harness, server, link>>

(* execute with the prepared process of the source to be adopted               *)
StartAdoption(a) ==
    /\ At(a, "execution", "loop") /\ ~Settled(reg.d[a]) /\ ~shouldRecover(reg, a)
    /\ preparedProcessAdoptionSource(reg, a) /\ reg.moved[a] = "none"
    /\ Goto(a, "execution", "proving")
    /\ UNCHANGED <<reg, recovery, sent, stopped, harness, server, link>>

(* the row with the lineage it is to run in                                    *)
Assigned(r, a) ==
    IF r.d[a].lineage = NoLineage THEN assignLineage(r, a, resolveContinuation(r, a)) ELSE r

(* execute: the lineage is occupied before anything is awaited                 *)
StartExecution(a) ==
    /\ At(a, "execution", "loop") /\ ~Settled(reg.d[a]) /\ ~shouldRecover(reg, a)
    /\ ~(preparedProcessAdoptionSource(reg, a) /\ reg.moved[a] = "none")
    /\ IF reg.d[a].lineage = NoLineage /\ ~can_resolveContinuation(reg, a)
       THEN Throw(a, "other")
       ELSE \E r \in {Assigned(reg, a)} :
              IF can_occupy(r, r.d[a].lineage, a)
              THEN /\ reg' = occupy(r, r.d[a].lineage, a)
                   /\ Goto(a, "execution", "starting")
                   /\ UNCHANGED <<recovery, sent>>
              ELSE /\ ThenReport(a, "execution", Failed(r, a, "other"))
                   /\ UNCHANGED recovery
    /\ UNCHANGED <<stopped, harness, server, link>>

(* provePreparedProcessAdoption succeeds                                       *)
AdoptPrepared(a) ==
    /\ At(a, "execution", "proving")
    /\ IF assertPreparedTransfer(reg, Source[a], a, reg.d[a].lineage)
       THEN /\ reg' = adoptPreparedProcess(reg, a, reg.d[a].lineage)
            /\ Goto(a, "execution", "starting")
            /\ UNCHANGED <<recovery, sent>>
       ELSE Throw(a, "other")
    /\ UNCHANGED <<stopped, harness, server, link>>

(* ... or is rejected: the process is retired and replaced                     *)
ReplacePrepared(a) ==
    /\ At(a, "execution", "proving")
    /\ native' = [native EXCEPT ![reg.d[a].lineage] = "none"]
    /\ IF can_replacePreparedProcessWithFresh(reg, Source[a], a, reg.d[a].lineage)
       THEN /\ reg' = replacePreparedProcessWithFresh(reg, a, reg.d[a].lineage)
            /\ Goto(a, "execution", "starting")
            /\ UNCHANGED <<recovery, sent>>
       ELSE Throw(a, "other")
    /\ UNCHANGED <<stopped, result, prompts, server, link>>

(* harness.start or continueExecution, and ready                               *)
HarnessStarts(a) ==
    /\ At(a, "execution", "starting")
    /\ native' = [native EXCEPT ![reg.d[a].lineage] = IF @ = "none" THEN "idle" ELSE @]
    /\ reg' = updateSession(recordExecution(reg, reg.d[a].lineage), reg.d[a].lineage, "starting")
    /\ Goto(a, "execution", "gate")
    /\ UNCHANGED <<recovery, sent, stopped, result, prompts, server, link>>

(* Mutant: a session that was staged before the restart counts as released.   *)
AwaitsAuthorization_staged(row, a) ==
    a \in Gated /\ ~row.authorized /\ LineageOf(reg, a).session # "waiting_for_human"

AwaitsAuthorization(row, a) == a \in Gated /\ ~row.authorized

(* failIfPreAuthorizationActivity asks the harness, where it can observe        *)
Observing == IF Observes THEN "observing" ELSE "quiet"

(* execute after the session is reported: the gate is read again               *)
PromptGate(a) ==
    /\ At(a, "execution", "gate")
    /\ IF AwaitsAuthorization(reg.d[a], a)
       THEN Goto(a, "execution", Observing) /\ UNCHANGED reg
       ELSE Goto(a, "execution", "sending") /\ reg' = markPromptIntent(reg, a)
    /\ UNCHANGED <<recovery, sent, stopped, harness, server, link>>

(* recoverOne once the native process is found again                            *)
Recovered(a) ==
    /\ At(a, "execution", "recovering")
    /\ native[reg.d[a].lineage] # "none"
    /\ \E r \in {resumeObservationUncertainty(
                    IF native[reg.d[a].lineage] = "idle" THEN recordExecution(reg, reg.d[a].lineage)
                    ELSE recordNativeSession(reg, reg.d[a].lineage), a)} :
          /\ reg' = r
          /\ Goto(a, "execution",
                  CASE r.d[a].intent -> "collecting"
                    [] ~r.d[a].intent /\ AwaitsAuthorization(r.d[a], a) -> Observing
                    [] ~r.d[a].intent /\ ~AwaitsAuthorization(r.d[a], a) -> "continuing")
          /\ server' = IF online /\ r.d[a].intent /\ (r.d[a].prompted \/ r.d[a].native)
                       THEN [server EXCEPT ![a] = server_apply(@, RunningFact)] ELSE server
    /\ UNCHANGED <<recovery, sent, stopped, harness, link>>

NotRecovered(a) ==
    /\ At(a, "execution", "recovering")
    /\ native[reg.d[a].lineage] = "none"
    /\ Throw(a, "other")
    /\ UNCHANGED <<stopped, harness, server, link>>

(* recoverOne after continueExecution: the lineage is occupied only now         *)
Continued(a) ==
    /\ At(a, "execution", "continuing")
    /\ IF can_occupy(reg, reg.d[a].lineage, a)
       THEN /\ reg' = markPromptIntent(recordExecution(occupy(reg, reg.d[a].lineage, a),
                                                       reg.d[a].lineage), a)
            /\ Goto(a, "execution", "sending")
            /\ UNCHANGED <<recovery, sent>>
       ELSE Throw(a, "other")
    /\ UNCHANGED <<stopped, harness, server, link>>

(* sendInputAndCollect submits the prompt to an idle process                    *)
Submit(a) ==
    /\ At(a, "execution", "sending")
    /\ native[reg.d[a].lineage] = "idle"
    /\ native' = [native EXCEPT ![reg.d[a].lineage] = a]
    /\ prompts' = [prompts EXCEPT ![a] = @ + 1]
    /\ Goto(a, "execution", "accepting")
    /\ UNCHANGED <<reg, recovery, sent, stopped, result, server, link>>

CannotSubmit(a) ==
    /\ At(a, "execution", "sending")
    /\ native[reg.d[a].lineage] # "idle"
    /\ Throw(a, "other")
    /\ UNCHANGED <<stopped, harness, server, link>>

(* the events prompt_accepted and native_activity, and the report of them       *)
PromptAccepted(a) ==
    /\ At(a, "execution", "accepting")
    /\ reg' = updateSession(recordNativeSession(markNativeActivity(markPromptAccepted(reg, a), a),
                                                reg.d[a].lineage), reg.d[a].lineage, "running")
    /\ server' = IF online THEN [server EXCEPT ![a] = server_apply(@, RunningFact)] ELSE server
    /\ Goto(a, "execution", "collecting")
    /\ UNCHANGED <<recovery, sent, stopped, harness, link>>

(* sendInputAndCollect or waitAndCollect returns the outputs                     *)
Collected(a) ==
    /\ At(a, "execution", "collecting") /\ result[a]
    /\ IF can_complete(reg, a) THEN ThenReport(a, "execution", complete(reg, a)) ELSE failAndReport(a, "other")
    /\ UNCHANGED <<recovery, stopped, harness, server, link>>

(* an awaited harness call fails                                                 *)
HarnessFails(a, error) ==
    /\ error \in Faults
    /\ \/ pc[a]["execution"] \in {"proving", "starting", "recovering", "continuing"} /\ error # "contract"
       \/ pc[a]["execution"] \in {"sending", "accepting", "collecting"} /\ error # "prepare"
       \/ pc[a]["execution"] = "observing" /\ error \in {"backend", "observation"}
    /\ Throw(a, error)
    /\ UNCHANGED <<stopped, harness, server, link>>

----------------------------------------------------------------------------
(* The prompt gate: failIfPreAuthorizationActivity in the execution, the        *)
(* monitor and the handler of authorize_prompt.                                  *)

Activity(a) == native[reg.d[a].lineage] \notin {"none", "idle"}

(* native activity: its session is recorded and the process retired             *)
SeesActivity(a, t) ==
    /\ At(a, t, "observing") /\ Activity(a)
    /\ reg' = recordNativeSession(reg, reg.d[a].lineage)
    /\ Goto(a, t, "fencing")
    /\ UNCHANGED <<recovery, sent, stopped, harness, server, link>>

(* ... and the dispatch fails as it is then found                                *)
FailContaminated(a, t) ==
    /\ At(a, t, "fencing")
    /\ native' = [native EXCEPT ![reg.d[a].lineage] = "none"]
    /\ ThenReportFailure(a, t, updateSession(fail(reg, a, "preauth", FALSE),
                                             reg.d[a].lineage, "unavailable"))
    /\ UNCHANGED <<recovery, stopped, result, prompts, server, link>>

SeesNothing(a, t) ==
    /\ At(a, t, "observing") /\ ~Activity(a)
    /\ Goto(a, t, IF t = "monitor" THEN "watch" ELSE "quiet")
    /\ UNCHANGED <<reg, recovery, sent, stopped, harness, server, link>>

(* stagePromptAuthorization                                                      *)
stagePromptAuthorization(a) ==
    /\ At(a, "execution", "quiet")
    /\ reg' = updateSession(reg, reg.d[a].lineage, "waiting_for_human")
    /\ Goto(a, "execution", "staged")
    /\ UNCHANGED <<recovery, sent, stopped, harness, server, link>>

(* startPromptGateMonitor, and the execution ends                                *)
startPromptGateMonitor(a) ==
    /\ At(a, "execution", "staged")
    /\ IF Observes /\ At(a, "monitor", "idle")
       THEN /\ pc' = [pc EXCEPT ![a]["execution"] = "idle", ![a]["monitor"] = "watch"]
            /\ stopped' = [stopped EXCEPT ![a] = FALSE]
       ELSE Goto(a, "execution", "idle") /\ UNCHANGED stopped
    /\ UNCHANGED <<reg, recovery, sent, harness, server, link>>

MonitorLooks(a) ==
    /\ At(a, "monitor", "watch")
    /\ Goto(a, "monitor",
            IF stopped[a] \/ reg.d[a].authorized \/ reg.d[a].state \in Terminal THEN "idle" ELSE "observing")
    /\ UNCHANGED <<reg, recovery, sent, stopped, harness, server, link>>

(* authorize_dispatch_prompt, live or redelivered by a reconciliation            *)
AuthorizeCommand(a) ==
    /\ online /\ server[a].told
    /\ At(a, "authorize", "idle")
    /\ server' = [server EXCEPT ![a].told = FALSE]
    /\ IF reg.d[a].state \in Terminal THEN UNCHANGED pc ELSE Goto(a, "authorize", "stopping")
    /\ stopped' = [stopped EXCEPT ![a] = TRUE]
    /\ UNCHANGED <<reg, recovery, sent, harness, link>>

MonitorStopped(a, t) == At(a, t, "stopping") /\ At(a, "monitor", "idle")

AuthorizeObserves(a) ==
    /\ MonitorStopped(a, "authorize")
    /\ Goto(a, "authorize", IF reg.d[a].lineage = NoLineage THEN "quiet" ELSE Observing)
    /\ UNCHANGED <<reg, recovery, sent, stopped, harness, server, link>>

Authorized(r, a) == WithSession(authorizePrompt(r, a), a, "starting")

AuthorizeStarts(a) ==
    /\ At(a, "authorize", "quiet")
    /\ reg' = Authorized(reg, a)
    /\ pc' = Started([pc EXCEPT ![a]["authorize"] = "idle"], a)
    /\ recovery' = IF At(a, "execution", "idle") THEN [recovery EXCEPT ![a] = 0] ELSE recovery
    /\ UNCHANGED <<sent, stopped, harness, server, link>>

----------------------------------------------------------------------------
(* cancel_dispatch.                                                              *)

CancelCommand(a) ==
    /\ online /\ server[a].cancel /\ server[a].state \notin Terminal
    /\ At(a, "cancel", "idle") /\ reg.d[a].state # "absent"
    /\ stopped' = [stopped EXCEPT ![a] = TRUE]
    /\ Goto(a, "cancel", "stopping")
    /\ UNCHANGED <<reg, recovery, sent, harness, server, link>>

(* cancelOnce: the cancellation is durable before the native runtime is asked    *)
cancelOnce(a) ==
    /\ MonitorStopped(a, "cancel")
    /\ IF ~can_cancel(reg, a) \/ reg.d[a].lineage = NoLineage
       THEN Goto(a, "cancel", "idle") /\ UNCHANGED <<reg, sent>>
       ELSE IF reg.d[a].state \in Terminal THEN ThenReport(a, "cancel", cancel(reg, a))
       ELSE /\ reg' = cancel(reg, a)
            /\ Goto(a, "cancel", "interrupting")
            /\ UNCHANGED sent
    /\ UNCHANGED <<recovery, stopped, harness, server, link>>

(* harness.interrupt succeeds or fails, and the cancellation is reported          *)
CancelInterrupts(a) ==
    /\ At(a, "cancel", "interrupting")
    /\ \/ native' = [native EXCEPT ![reg.d[a].lineage] = IF @ = a THEN "idle" ELSE @]
       \/ "backend" \in Faults /\ UNCHANGED native
    /\ ThenReport(a, "cancel", reg)
    /\ UNCHANGED <<recovery, stopped, result, prompts, server, link>>

----------------------------------------------------------------------------
(* retire_dispatch_for_recovery.                                                 *)

RetireCommand(a) ==
    /\ online /\ server[a].retire
    /\ At(a, "retire", "idle") /\ reg.d[a].state \notin {"absent", "completed"}
    /\ \/ reg.d[a].state = "failed" /\ ThenReport(a, "retire", reg)
       \/ /\ reg.d[a].state # "failed" /\ reg.d[a].lineage # NoLineage
          /\ Goto(a, "retire", "retiring")
          /\ UNCHANGED <<reg, sent>>
    /\ UNCHANGED <<recovery, stopped, harness, server, link>>

(* retireForRecovery after harness.retire: fails and reports the row as it finds *)
(* it then                                                                       *)
retireForRecovery(a) ==
    /\ At(a, "retire", "retiring")
    /\ native' = [native EXCEPT ![reg.d[a].lineage] = "none"]
    /\ ThenReportFailure(a, "retire", updateSession(fail(reg, a, "operator", FALSE),
                                                    reg.d[a].lineage, "unavailable"))
    /\ UNCHANGED <<recovery, stopped, result, prompts, server, link>>

----------------------------------------------------------------------------
(* Reports and acknowledgements.                                                  *)

(* acknowledgeTerminal, its durable part                                          *)
acknowledgeTerminal(r, a) ==
    IF r.d[a].state \in Terminal
    THEN IF ~r.d[a].acked /\ r.d[a].failure = "cancelled"
         THEN WithSession(acknowledgeServerTerminal(r, a), a, "retained")
         ELSE acknowledgeServerTerminal(r, a)
    ELSE r

(* report while not ready is left to the next reconciliation; an error reply      *)
(* leaves the fact unacknowledged                                                 *)
Report(a, t) ==
    /\ At(a, t, "report")
    /\ IF online /\ server_accepts(server[a], sent[a][t])
       THEN /\ server' = [server EXCEPT ![a] = server_apply(@, sent[a][t])]
            /\ Goto(a, t, IF sent[a][t].state \in Terminal THEN "acking" ELSE "idle")
       ELSE Goto(a, t, "idle") /\ UNCHANGED server
    /\ sent' = [sent EXCEPT ![a][t] = NoFact]
    /\ UNCHANGED <<reg, recovery, stopped, harness, link>>

(* the reply arrives                                                               *)
Acknowledged(a, t) ==
    /\ At(a, t, "acking")
    /\ reg' = acknowledgeTerminal(reg, a)
    /\ stopped' = [stopped EXCEPT ![a] = TRUE]
    /\ Goto(a, t, "idle")
    /\ UNCHANGED <<recovery, sent, harness, server, link>>

(* the connection is lost; a reply under way is lost with it                       *)
Disconnect ==
    /\ online /\ disconnects < MaxDisconnects
    /\ online' = FALSE
    /\ disconnects' = disconnects + 1
    /\ pc' = [a \in Action |-> [t \in Thread |-> IF pc[a][t] = "acking" THEN "idle" ELSE pc[a][t]]]
    /\ server' = [a \in Action |-> [server[a] EXCEPT !.told = FALSE]]
    /\ UNCHANGED <<reg, recovery, sent, stopped, harness, crashes>>

Known == {a \in Action : reg.d[a].state # "absent"}

Reconcilable(a) ==
    reconcile_defers(server[a], FactOf(reg, a)) \/ server_accepts(server[a], FactOf(reg, a))

(* Mutant: terminal facts that were deferred are acknowledged with the others.     *)
ReconciledTerminal_deferred(a) == reg.d[a].state \in Terminal

(* Mutant: the reply names completions only.                                       *)
ReconciledTerminal_completed(a) ==
    reg.d[a].state = "completed" /\ ~reconcile_defers(server[a], FactOf(reg, a))

(* terminal_action_ids and completion_action_ids of the reply                       *)
ReconciledTerminal(a) ==
    reg.d[a].state \in Terminal /\ ~reconcile_defers(server[a], FactOf(reg, a))

(* prompt_authorizations_for_worker: every authorized dispatch that is not over     *)
prompt_authorizations(s) ==
    [s EXCEPT !.told = s.authorized /\ s.state \in {"acknowledged", "running"}]

(* the Worker registers again and reconciles: every fact, or none                  *)
Reconcile ==
    /\ ~online
    /\ \A a \in Known : Reconcilable(a)
    /\ online' = TRUE
    /\ server' = [a \in Action |-> prompt_authorizations(
          IF a \in Known /\ ~reconcile_defers(server[a], FactOf(reg, a))
          THEN server_apply(server[a], FactOf(reg, a)) ELSE server[a])]
    /\ reg' = [reg EXCEPT !.d = [a \in Action |->
          IF ReconciledTerminal(a) THEN acknowledgeServerTerminal(reg, a).d[a] ELSE reg.d[a]]]
    /\ stopped' = [a \in Action |-> stopped[a] \/ ReconciledTerminal(a)]
    /\ UNCHANGED <<pc, recovery, sent, harness, crashes, disconnects>>

(* the Worker restarts; recoverAll starts what is not settled                      *)
recoverAll ==
    /\ crashes < MaxCrashes
    /\ crashes' = crashes + 1
    /\ online' = FALSE
    /\ pc' = [a \in Action |-> [t \in Thread |->
                IF t = "execution" /\ a \in Known /\ ~Settled(reg.d[a]) THEN "loop" ELSE "idle"]]
    /\ recovery' = [a \in Action |-> 0]
    /\ sent' = [a \in Action |-> [t \in Thread |-> NoFact]]
    /\ stopped' = [a \in Action |-> FALSE]
    /\ reg' = [reg EXCEPT !.l = [x \in Lineage |->
          IF \E a \in Known :
                /\ reg.d[a].lineage = x /\ Settled(reg.d[a])
                /\ ~(reg.d[a].failure = "cancelled" /\ ~reg.d[a].acked)
                /\ reg.l[x].active \in {NoAction, a}
          THEN [reg.l[x] EXCEPT !.session = IF native[x] = "none" THEN "unavailable" ELSE "retained"]
          ELSE reg.l[x]]]
    /\ server' = [a \in Action |-> [server[a] EXCEPT !.told = FALSE]]
    /\ UNCHANGED <<harness, disconnects>>

----------------------------------------------------------------------------
(* The control plane and the outside world.                                        *)

(* Mutant: a cancelled Attempt is recovered like a failed one.                     *)
Dispatchable_cancelled(a) ==
    /\ server[a].state = "scheduled"
    /\ Source[a] # NoAction =>
          server[Source[a]].state = (IF Mode[a] = "continue" THEN "completed" ELSE "failed")

(* what the scheduler needs before it dispatches a: a cancelled Attempt is never    *)
(* recovered, and one that was retired only afresh                                  *)
Dispatchable(a) ==
    /\ server[a].state = "scheduled"
    /\ Source[a] # NoAction =>
          /\ server[Source[a]].state = (IF Mode[a] = "continue" THEN "completed" ELSE "failed")
          /\ server[Source[a]].failure # "cancelled"
          /\ Mode[a] = "retained" => ~server[Source[a]].retire

(* execute_action: accepted durably, acknowledged, started; or refused              *)
ExecuteAction(a) ==
    /\ online /\ Dispatchable(a)
    /\ IF can_accept(reg, a)
       THEN /\ reg' = accept(reg, a)
            /\ server' \in {server, [server EXCEPT ![a].state = "acknowledged"]}
            /\ pc' = IF accept(reg, a).d[a].state = "accepted" THEN Started(pc, a) ELSE pc
       ELSE /\ server' = [server EXCEPT ![a].state = "failed", ![a].failure = "other"]
            /\ UNCHANGED <<reg, pc>>
    /\ UNCHANGED <<recovery, sent, stopped, harness, link>>

(* the operator authorizes the prompt (persist_prompt_authorization, which checks    *)
(* the session the Worker last reported), cancels, or recovers afresh                *)
OperatorAuthorizes(a) ==
    /\ a \in Gated /\ ~server[a].cancel
    /\ \/ server[a].authorized /\ "replay" \in Commands
       \/ /\ ~server[a].authorized /\ server[a].state \in {"acknowledged", "running"}
          /\ reg.d[a].lineage # NoLineage
          /\ LineageOf(reg, a).session = "waiting_for_human" /\ ~LineageOf(reg, a).native
    /\ server' = [server EXCEPT ![a].authorized = TRUE, ![a].told = online]
    /\ UNCHANGED <<reg, pc, recovery, sent, stopped, harness, link>>

OperatorCancels(a) ==
    /\ "cancel" \in Commands /\ server[a].state \in {"acknowledged", "running"} /\ ~server[a].cancel
    /\ server' = [server EXCEPT ![a].cancel = TRUE]
    /\ UNCHANGED <<reg, pc, recovery, sent, stopped, harness, link>>

OperatorRecovers(a) ==
    /\ "retire" \in Commands /\ server[a].state \in {"acknowledged", "running", "uncertain"}
    /\ ~server[a].cancel /\ ~server[a].retire
    /\ server' = [server EXCEPT ![a].retire = TRUE]
    /\ UNCHANGED <<reg, pc, recovery, sent, stopped, harness, link>>

(* the native turn ends with its result; a human types into a waiting process       *)
NativeTurnEnds(x) ==
    /\ native[x] \in Action
    /\ result' = [result EXCEPT ![native[x]] = TRUE]
    /\ native' = [native EXCEPT ![x] = "idle"]
    /\ UNCHANGED <<reg, pc, recovery, sent, stopped, prompts, server, link>>

HumanTypes(x) ==
    /\ native[x] = "idle" /\ reg.l[x].session = "waiting_for_human"
    /\ native' = [native EXCEPT ![x] = "human"]
    /\ UNCHANGED <<reg, pc, recovery, sent, stopped, result, prompts, server, link>>

----------------------------------------------------------------------------
Execution(a) ==
    \/ ReportSettled(a) \/ StartRecovery(a) \/ StartAdoption(a) \/ StartExecution(a)
    \/ AdoptPrepared(a) \/ ReplacePrepared(a) \/ HarnessStarts(a) \/ PromptGate(a)
    \/ Recovered(a) \/ NotRecovered(a) \/ Continued(a) \/ Submit(a) \/ CannotSubmit(a)
    \/ PromptAccepted(a) \/ Collected(a) \/ stagePromptAuthorization(a)
    \/ startPromptGateMonitor(a) \/ MonitorLooks(a)

Handlers(a) ==
    \/ AuthorizeCommand(a) \/ AuthorizeObserves(a) \/ AuthorizeStarts(a)
    \/ CancelCommand(a) \/ cancelOnce(a) \/ CancelInterrupts(a)
    \/ RetireCommand(a) \/ retireForRecovery(a)

Next ==
    \/ \E a \in Action :
          \/ ExecuteAction(a) \/ OperatorAuthorizes(a) \/ OperatorCancels(a) \/ OperatorRecovers(a)
          \/ Execution(a) \/ Handlers(a)
          \/ \E error \in Fault : HarnessFails(a, error)
          \/ \E t \in Thread :
                \/ SeesActivity(a, t) \/ FailContaminated(a, t) \/ SeesNothing(a, t)
                \/ Report(a, t) \/ Acknowledged(a, t)
    \/ \E x \in Lineage : NativeTurnEnds(x) \/ HumanTypes(x)
    \/ Disconnect \/ Reconcile \/ recoverAll

Spec == Init /\ [][Next]_vars

(* The event loop runs every thread that can go on, the commands of a live       *)
(* connection arrive, and a lost connection is made again (its backoff is        *)
(* unbounded in number); operators, faults and crashes owe nothing.              *)
Fairness ==
    /\ \A a \in Action :
          /\ WF_vars(Execution(a)) /\ WF_vars(Handlers(a))
          /\ \A t \in Thread :
                WF_vars(SeesActivity(a, t) \/ FailContaminated(a, t) \/ SeesNothing(a, t)
                        \/ Report(a, t) \/ Acknowledged(a, t))
    /\ WF_vars(Reconcile)

FairSpec == Spec /\ Fairness

----------------------------------------------------------------------------
TypeOK ==
    /\ reg \in RegistryType
    /\ recovery \in [Action -> 0 .. MaxRecoveries + 1]
    /\ stopped \in [Action -> BOOLEAN]
    /\ native \in [Lineage -> {"none", "idle", "human"} \cup Action]
    /\ online \in BOOLEAN

(* However the Worker crashes, loses its backend, retries and recovers, the    *)
(* prompt of an Attempt is submitted at most once: its intent is durable       *)
(* before it is sent, and what has an intent is only ever observed.            *)
PromptedAtMostOnce == \A a \in DOMAIN prompts : prompts[a] <= 1

(* A gated prompt is only submitted once the server's authorization of that     *)
(* exact Attempt is durable on the Worker.                                      *)
PromptsAreAuthorized == \A a \in Gated : prompts[a] > 0 => reg.d[a].authorized

(* "only completion/failure IDs explicitly accepted by Phoenix are marked        *)
(* server-acknowledged locally": an acknowledged outcome is the server's.  Holds *)
(* as long as nothing withdraws an Attempt: see Withdraws.                       *)
AcknowledgedIsAccepted ==
    \A a \in Action : reg.d[a].acked => server[a].state = reg.d[a].state

(* An operation that may fail an Attempt whatever has become of it: the fence of *)
(* native activity (failContaminated), and the retirement for a human recovery   *)
(* (retireForRecovery).                                                          *)
Withdraws == Observes \/ "retire" \in Commands

(* With them, what is acknowledged was recorded as it is, or it is a completion  *)
(* that was withdrawn while its harness was awaited: the server has recorded a   *)
(* failure that names no reason.                                                 *)
AcknowledgedOrWithdrawn ==
    \A a \in DOMAIN reg.d : reg.d[a].acked =>
        \/ server[a].state = reg.d[a].state
        \/ /\ reg.d[a].state = "completed" /\ server[a].state = "failed"
           /\ server[a].failure = "none" /\ Withdraws

(* "Terminal facts are idempotent by exact Action identity": what the server has  *)
(* acknowledged never becomes another fact.                                       *)
AcknowledgedIsFinal ==
    [][\A a \in Action : reg.d[a].acked => FactOf(reg', a) = FactOf(reg, a)]_vars

(* pre_authorization_native_activity: "Native user input created model activity    *)
(* before QE authorized or submitted the Step prompt."                             *)
ContaminationPrecedesPrompt ==
    \A a \in Action : reg.d[a].failure = "preauth" => ~reg.d[a].intent

(* A Worker that is offline can always reconcile: no fact of its registry is      *)
(* one the server refuses.                                                        *)
ReconciliationIsAccepted == \A a \in Known : Reconcilable(a)

(* The server has recorded another outcome than the Worker: an Attempt was        *)
(* withdrawn after its execution had ended.                                       *)
Contradicted(a) ==
    /\ reg.d[a].state \in Terminal /\ server[a].state = "failed"
    /\ FactOf(reg, a) # [state |-> server[a].state, failure |-> server[a].failure]

(* the Worker has a terminal fact that was never acknowledged                     *)
Owes(a) == a \in DOMAIN reg.d /\ reg.d[a].state \in Terminal /\ ~reg.d[a].acked

(* A terminal fact is acknowledged in the end, whatever was lost on the way,      *)
(* unless the Worker cannot reconcile any more: it is away, and holds an outcome  *)
(* that the server contradicts.                                                   *)
AcknowledgedUnlessContradicted ==
    \A a \in Action :
        []<>(~Owes(a) \/ (~online /\ \E b \in DOMAIN reg.d : Contradicted(b)))

(* "Terminal facts are idempotent by exact Action identity" and "reconciliation   *)
(* redelivers [...] terminal acknowledgement after response loss": a terminal     *)
(* fact that the server would accept is not left unacknowledged for ever.         *)
AcceptableFactsAreAcknowledged ==
    \A a \in Action : []<>~(Owes(a) /\ server_accepts(server[a], FactOf(reg, a)))

(* Two Attempts never drive the process of one lineage at a time.                  *)
Driving(a) == pc[a]["execution"] \in {"starting", "sending", "accepting", "collecting"}
OneDriverPerLineage ==
    \A a, b \in DOMAIN pc :
        a # b /\ Driving(a) /\ Driving(b) => reg.d[a].lineage # reg.d[b].lineage

(* "A prior prompt authorization remains historical, but cannot override a later   *)
(* terminal cancellation": nothing is prompted for a cancelled Attempt.            *)
NothingPromptedAfterCancel ==
    [][\A a \in Action : reg.d[a].failure = "cancelled" => prompts'[a] = prompts[a]]_vars
=============================================================================
