------------------------------ MODULE AccountSetup ------------------------------
(***************************************************************************)
(* The login of one provider account on a Worker: the durable attempt that *)
(* ProviderAccountSetupCoordinator keeps (rec), the login process it       *)
(* launches at most once, and the account environment that                 *)
(* ProviderAccountEnvironmentManager must not touch meanwhile.             *)
(*                                                                         *)
(* Two promise tails serialise the account's work: the coordinator's       *)
(* (withAccount: held through a preparation, else for one transition) and  *)
(* the manager's (the environment operation and the launch exclude each    *)
(* other).  Everything physical happens outside the first: inspections,    *)
(* signals, input, validation and the process's own exit, each of which    *)
(* is answered later, by a coroutine that then re-reads the attempt.       *)
(***************************************************************************)
EXTENDS Naturals

CONSTANTS None,         \* no attempt, no delivery, no failure code
          Cancels,      \* the runs of cancelRecord that may be in flight
          MaxCommands,  \* bound on commands of the control plane
          MaxRestarts   \* bound on restarts of the Worker

VARIABLES
    rec,      \* the attempt's row in the setup ledger, or None
    live,     \* the supervisor: [held |-> in the registry, prompt |-> prompt recognised]
    login,    \* the login process: "none", "running", "done" (signed in) or "dead"
    stream,   \* the process's transport: "lost", "open", or "cancelled" through it
    env,      \* the environment the attempt was authorized for: "available" or "gone"
    prep,     \* prepare: "idle", "queued", "preflight" or "spawning"
    envop,    \* an environment operation that passed the fence is under way
    recon,    \* reconcileRecord: "idle", "inspect", what it saw, or "validate"
    monitor,  \* monitor: "none", "watch", how the process ended, or "validating"
    cancels,  \* each cancelRecord: [pc, mine |-> had the supervisor, seen]
    writing,  \* the response is being written to the process
    count     \* [spawns, signals, commands, restarts]

vars == <<rec, live, login, stream, env, prep, envop, recon, monitor, cancels, writing, count>>

Terminals == {"succeeded", "failed", "uncertain", "cancelled"}
Terminal == rec.state \in Terminals

(* A row of the setup ledger, and what an inspection of its process reports. *)
AttemptRow ==
    [state : Terminals \union {"authorized", "preparing", "invocation_requested",
               "invocation_acknowledged", "human_interaction_required",
               "validating", "cancellation_requested"},
     inv : {"not_requested", "requested", "acknowledged", "settled", "uncertain"},
     handle : BOOLEAN,
     cancel : {"not_requested", "intent_recorded", "requested", "acknowledged",
               "uncertain", "settled"},
     sup : {None, "supervision", "input_uncertain"},
     delivery : {None, "requested", "acknowledged", "uncertain"}]
Reports == {"attached", "running", "ended", "unavailable", "throws"}

AccountAssumption == None \notin AttemptRow /\ None \notin Reports

TypeOK ==
    /\ rec = None \/ rec \in AttemptRow
    /\ live \in [held : BOOLEAN, prompt : BOOLEAN]
    /\ login \in {"none", "running", "done", "dead"}
    /\ stream \in {"lost", "open", "cancelled"} /\ envop \in BOOLEAN /\ writing \in BOOLEAN
    /\ env \in {"available", "gone"}
    /\ prep \in {"idle", "queued", "preflight", "spawning"}
    /\ recon \in Reports \union {"idle", "inspect", "validate"}
    /\ monitor \in {"none", "watch", "exited", "exited_nonzero", "observation_unavailable", "validating"}

Idle == [pc |-> "idle", mine |-> FALSE, seen |-> None]
NoSupervisor == [held |-> FALSE, prompt |-> FALSE]

Init ==
    /\ rec = None /\ live = NoSupervisor /\ login = "none" /\ stream = "lost"
    /\ env = "available" /\ prep = "idle" /\ envop = FALSE /\ recon = "idle"
    /\ monitor = "none" /\ writing = FALSE
    /\ cancels = [c \in Cancels |-> Idle]
    /\ count = [spawns |-> 0, signals |-> 0, commands |-> 0, restarts |-> 0]

(* withAccount: a transition runs when no preparation holds the tail. *)
TailFree == prep = "idle"

(* activeSetupFence: the account's environment belongs to the attempt. *)
FenceHolds == rec # None /\ (~Terminal \/ rec.inv = "uncertain" \/ rec.cancel = "uncertain")

Command ==
    /\ count.commands < MaxCommands
    /\ count' = [count EXCEPT !.commands = @ + 1]

(* cancelRecord reads the attempt and the registry, then inspects. *)
StartCancel(held) ==
    \E c \in Cancels :
        /\ cancels[c].pc = "idle"
        /\ cancels' = [cancels EXCEPT ![c] = [pc |-> "inspect", mine |-> held, seen |-> None]]

----------------------------------------------------------------------------
(* prepare *)

Accepted(state) ==
    IF rec = None
    THEN [state |-> state, inv |-> "not_requested", handle |-> FALSE, sup |-> None, delivery |-> None,
          cancel |-> IF state = "cancellation_requested" THEN "intent_recorded" ELSE "not_requested"]
    ELSE rec

CancelRequested(r) ==
    [r EXCEPT !.state = "cancellation_requested",
              !.cancel = IF @ = "not_requested" THEN "intent_recorded" ELSE @]

(* Mutant: a preparation without a process handle is taken up again. *)
NeverInvoked_nohandle(r) == ~r.handle

(* The attempt never got as far as an intent to launch. *)
NeverInvoked(r) == r.inv = "not_requested"

(* prepare_provider_account_setup, or the attempt in a registration reply. *)
Prepare ==
    /\ TailFree /\ Command
    /\ \E state \in {"authorized", "cancellation_requested"} :
         LET a == Accepted(state)
             r == IF state = "cancellation_requested" /\ a.state \notin Terminals
                  THEN CancelRequested(a) ELSE a
         IN  \/ /\ r.state = "cancellation_requested"
                /\ rec' = r /\ StartCancel(live.held)
                /\ UNCHANGED <<prep, recon>>
             \/ /\ r.state \in Terminals
                /\ rec' = r /\ UNCHANGED <<prep, recon, cancels>>
             \/ /\ r.state \notin Terminals \union {"cancellation_requested"}
                /\ NeverInvoked(r)
                /\ rec' = [r EXCEPT !.state = "preparing"] /\ prep' = "queued"
                /\ UNCHANGED <<recon, cancels>>
             \/ /\ r.state \notin Terminals \union {"cancellation_requested"}
                /\ ~NeverInvoked(r) /\ live.held
                /\ rec' = [r EXCEPT !.state = IF @ = "invocation_acknowledged" /\ live.prompt
                                              THEN "human_interaction_required" ELSE @]
                /\ UNCHANGED <<prep, recon, cancels>>
             \/ /\ r.state \notin Terminals \union {"cancellation_requested"}
                /\ ~NeverInvoked(r) /\ ~live.held /\ r.handle
                /\ recon = "idle" /\ recon' = "inspect" /\ rec' = r
                /\ UNCHANGED <<prep, cancels>>
             \/ /\ r.state \notin Terminals \union {"cancellation_requested"}
                /\ ~NeverInvoked(r) /\ ~live.held /\ ~r.handle
                /\ rec' = [r EXCEPT !.state = "uncertain", !.inv = "uncertain"]
                /\ UNCHANGED <<prep, recon, cancels>>
    /\ UNCHANGED <<live, login, stream, env, envop, monitor, writing>>

(* beginSetupProcess gets the environment lock and inspects the exact cell. *)
BeginSetupProcess ==
    /\ prep = "queued" /\ ~envop /\ prep' = "preflight"
    /\ UNCHANGED <<rec, live, login, stream, env, envop, recon, monitor, cancels, writing, count>>

(* The cell is not eligible, or could not be inspected: nothing is launched. *)
PreflightFails ==
    /\ prep = "preflight" /\ prep' = "idle"
    /\ rec' = [rec EXCEPT !.state = "failed", !.inv = "not_requested"]
    /\ UNCHANGED <<live, login, stream, env, envop, recon, monitor, cancels, writing, count>>

(* beforeSpawn: the intent is durable before the launch. *)
BeforeSpawn ==
    /\ prep = "preflight" /\ env = "available" /\ prep' = "spawning"
    /\ rec' = [rec EXCEPT !.state = "invocation_requested", !.inv = "requested"]
    /\ UNCHANGED <<live, login, stream, env, envop, recon, monitor, cancels, writing, count>>

(* acknowledgeSpawn, the release of both locks and activateSupervisor. *)
AcknowledgeSpawn ==
    /\ prep = "spawning" /\ prep' = "idle"
    /\ login' = "running" /\ stream' = "open" /\ monitor' = "watch"
    /\ live' = [held |-> TRUE, prompt |-> FALSE]
    /\ rec' = [rec EXCEPT !.state = "invocation_acknowledged", !.inv = "acknowledged", !.handle = TRUE]
    /\ count' = [count EXCEPT !.spawns = @ + 1]
    /\ UNCHANGED <<env, envop, recon, cancels, writing>>

(* The launch fails, with a certainty.  It may have happened all the same:  *)
(* only an error of the environment's own can be an ambiguous one.          *)
SpawnFails ==
    /\ prep = "spawning" /\ prep' = "idle"
    /\ \E ambiguous, launched \in BOOLEAN :
         /\ login' = IF launched THEN "running" ELSE login
         /\ count' = IF launched THEN [count EXCEPT !.spawns = @ + 1] ELSE count
         /\ rec' = IF ambiguous THEN [rec EXCEPT !.state = "uncertain", !.inv = "uncertain"]
                                ELSE [rec EXCEPT !.state = "failed"]
    /\ UNCHANGED <<live, stream, env, envop, recon, monitor, cancels, writing>>

----------------------------------------------------------------------------
(* The process, as an inspection of the exact handle reports it. *)

Seen ==
    IF env = "gone" THEN {"throws"}
    ELSE {"throws", "unavailable"} \union
         CASE login = "running" /\ stream # "lost" -> {"attached"}
           [] login = "running" /\ stream = "lost" -> {"running"}
           [] OTHER -> {"ended"}

Uncertain(r) == [r EXCEPT !.state = "uncertain", !.inv = "uncertain"]

(* validateSetup: signed in, not signed in, or no answer. *)
Validations == (IF login = "done" THEN {"valid"} ELSE {"invalid"}) \union {"unavailable"}

(* reconcileRecord: what a registration does with a login it does not supervise. *)
ReconInspects ==
    /\ recon = "inspect"
    /\ recon' \in Seen
    /\ UNCHANGED <<rec, live, login, stream, env, prep, envop, monitor, cancels, writing, count>>

(* The failed inspection is recorded whatever the attempt has become. *)
ReconThrows ==
    /\ recon = "throws" /\ TailFree /\ recon' = "idle"
    /\ rec' = Uncertain(rec)
    /\ UNCHANGED <<live, login, stream, env, prep, envop, monitor, cancels, writing, count>>

(* A running process without its streams is to be terminated. *)
ReconUnattached ==
    /\ recon \in {"attached", "running"} /\ TailFree /\ recon' = "idle"
    /\ IF recon = "attached" /\ live.held
       THEN rec' = [rec EXCEPT !.state = IF @ = "invocation_acknowledged" /\ live.prompt
                                         THEN "human_interaction_required" ELSE @]
            /\ UNCHANGED cancels
       ELSE rec' = [rec EXCEPT !.sup = "supervision", !.cancel = "intent_recorded"]
            /\ StartCancel(live.held)
    /\ UNCHANGED <<live, login, stream, env, prep, envop, monitor, writing, count>>

(* settleAfterLostProcess: whatever else was seen counts as a lost process. *)
ReconSettles ==
    /\ recon \in {"ended", "unavailable"} /\ recon' = "validate"
    /\ UNCHANGED <<rec, live, login, stream, env, prep, envop, monitor, cancels, writing, count>>

ReconValidates ==
    /\ recon = "validate" /\ TailFree /\ recon' = "idle"
    /\ \E v \in Validations :
         rec' = IF Terminal THEN rec
                ELSE CASE v = "unavailable" -> Uncertain(rec)
                       [] v = "valid" -> [rec EXCEPT !.state = "succeeded", !.inv = "settled"]
                       [] v = "invalid" -> [rec EXCEPT !.state = "failed", !.inv = "settled"]
    /\ UNCHANGED <<live, login, stream, env, prep, envop, monitor, cancels, writing, count>>

----------------------------------------------------------------------------
(* The supervisor: output, input and exit *)

(* superviseInteraction recognises the prompt. *)
PromptSeen ==
    /\ live.held /\ ~live.prompt /\ login = "running" /\ live' = [live EXCEPT !.prompt = TRUE]
    /\ UNCHANGED <<rec, login, stream, env, prep, envop, recon, monitor, cancels, writing, count>>

PromptRecorded ==
    /\ live.held /\ live.prompt /\ TailFree /\ rec.state = "invocation_acknowledged"
    /\ rec' = [rec EXCEPT !.state = "human_interaction_required"]
    /\ UNCHANGED <<live, login, stream, env, prep, envop, recon, monitor, cancels, writing, count>>

(* requestSupervisionTermination: discovery timed out or its output is     *)
(* incompatible, the attempt is not desired any more, or the Worker closes *)
RequestTermination ==
    /\ TailFree /\ Command /\ rec # None
    /\ ~Terminal /\ rec.cancel = "not_requested"
    /\ rec' = [rec EXCEPT !.sup = "supervision", !.cancel = "intent_recorded"]
    /\ StartCancel(live.held)
    /\ UNCHANGED <<live, login, stream, env, prep, envop, recon, monitor, writing>>

(* respond: the delivery is durable, then the write is submitted. *)
Respond ==
    /\ TailFree /\ rec # None /\ ~writing
    /\ rec.state = "human_interaction_required" /\ rec.cancel = "not_requested"
    /\ live.held /\ rec.delivery = None
    /\ rec' = [rec EXCEPT !.delivery = "requested"] /\ writing' = TRUE
    /\ UNCHANGED <<live, login, stream, env, prep, envop, recon, monitor, cancels, count>>

Written ==
    /\ writing /\ TailFree /\ writing' = FALSE
    /\ \/ /\ rec' = [rec EXCEPT !.delivery = "acknowledged"] /\ UNCHANGED cancels
       \/ /\ IF Terminal THEN rec' = rec /\ UNCHANGED cancels   \* definitely not submitted
             ELSE rec' = [rec EXCEPT !.sup = "supervision", !.cancel = "intent_recorded"]
                  /\ StartCancel(live.held)
       \/ LET r == [rec EXCEPT !.delivery = "uncertain"] IN
          IF Terminal THEN rec' = r /\ UNCHANGED cancels
          ELSE rec' = [r EXCEPT !.sup = "input_uncertain", !.cancel = "intent_recorded"]
               /\ StartCancel(live.held)
    /\ UNCHANGED <<live, login, stream, env, prep, envop, recon, monitor, count>>

(* monitor: the exit is known, the output drained, the supervisor dropped. *)
MonitorSees(kind) ==
    /\ monitor = "watch"
    /\ monitor' = IF Terminal THEN "none" ELSE kind
    /\ live' = NoSupervisor

ExitObserved ==
    /\ login \in {"done", "dead"} /\ stream # "lost" /\ stream' = "lost"
    /\ MonitorSees(IF login = "done" THEN "exited" ELSE "exited_nonzero")
    /\ UNCHANGED <<rec, login, env, prep, envop, recon, cancels, writing, count>>

(* The transport is lost: the exit is unavailable, the process may run on. *)
StreamLost ==
    /\ stream # "lost" /\ stream' = "lost"
    /\ MonitorSees("observation_unavailable")
    /\ login' \in {login} \union (IF login = "running" THEN {"dead"} ELSE {})
    /\ UNCHANGED <<rec, env, prep, envop, recon, cancels, writing, count>>

CancelledUncertain(r) == [Uncertain(r) EXCEPT !.cancel = "uncertain"]

(* A login that was to be terminated, once its process is known to be gone. *)
Terminated(r) ==
    LET unsure == r.state # "cancellation_requested" /\ r.sup = "input_uncertain" IN
    [r EXCEPT !.state = CASE r.state = "cancellation_requested" -> "cancelled"
                          [] unsure -> "uncertain"
                          [] OTHER -> "failed",
              !.inv = CASE r.inv = "not_requested" -> @
                        [] r.inv # "not_requested" /\ unsure -> "uncertain"
                        [] OTHER -> "settled",
              !.cancel = "settled"]

MonitorSettles ==
    /\ monitor \in {"exited", "exited_nonzero", "observation_unavailable"} /\ TailFree
    /\ LET wanted == rec.state = "cancellation_requested" \/ rec.sup # None IN
       rec' = CASE Terminal -> rec
                [] ~Terminal /\ wanted /\ monitor = "observation_unavailable" -> CancelledUncertain(rec)
                [] ~Terminal /\ wanted /\ monitor # "observation_unavailable" -> Terminated(rec)
                [] ~Terminal /\ ~wanted /\ monitor # "exited" -> [rec EXCEPT !.state = "failed", !.inv = "settled"]
                [] OTHER -> [rec EXCEPT !.state = "validating", !.inv = "settled"]
    /\ monitor' = IF rec'.state = "validating" THEN "validating" ELSE "none"
    /\ UNCHANGED <<live, login, stream, env, prep, envop, recon, cancels, writing, count>>

MonitorValidates ==
    /\ monitor = "validating" /\ TailFree /\ monitor' = "none"
    /\ \E v \in Validations :
         rec' = IF rec.state # "validating" THEN rec
                ELSE [rec EXCEPT !.state = IF v = "valid" THEN "succeeded" ELSE "failed"]
    /\ UNCHANGED <<live, login, stream, env, prep, envop, recon, cancels, writing, count>>

----------------------------------------------------------------------------
(* cancel and cancelRecord *)

(* cancel_provider_account_setup; a repeated request cancels again. *)
Cancel ==
    /\ TailFree /\ Command /\ rec # None /\ ~Terminal
    /\ rec' = CancelRequested(rec) /\ StartCancel(live.held)
    /\ UNCHANGED <<live, login, stream, env, prep, envop, recon, monitor, writing>>

Step(c, pc) == cancels' = [cancels EXCEPT ![c] = IF pc = "idle" THEN Idle ELSE [@ EXCEPT !.pc = pc]]

(* Of an attached process the exit is awaited by the monitor, else here. *)
Await(c) == Step(c, IF cancels[c].mine THEN "idle" ELSE "observe")

(* The process is inspected: to decide, after a failed signal, or to wait. *)
CancelInspects(c) ==
    /\ cancels[c].pc \in {"inspect", "failed", "observe"}
    /\ cancels[c].seen = None /\ rec.handle
    /\ \E s \in Seen : cancels' = [cancels EXCEPT ![c].seen = s]
    /\ UNCHANGED <<rec, live, login, stream, env, prep, envop, recon, monitor, writing, count>>

(* settleCancellation and markCancellationUncertain, of an attempt still open. *)
CancelSettles(c) ==
    /\ cancels[c].seen \in {"ended", "unavailable", "throws"} /\ TailFree
    /\ rec' = CASE Terminal -> rec
                [] ~Terminal /\ cancels[c].seen = "ended" -> Terminated(rec)
                [] OTHER -> CancelledUncertain(rec)
    /\ Step(c, "idle")
    /\ UNCHANGED <<live, login, stream, env, prep, envop, recon, monitor, writing, count>>

(* No handle: nothing was launched, or nobody knows what was. *)
CancelWithoutProcess(c) ==
    /\ cancels[c].pc = "inspect" /\ ~rec.handle /\ TailFree
    /\ rec' = CASE Terminal -> rec
                [] ~Terminal /\ rec.inv = "not_requested" -> Terminated(rec)
                [] OTHER -> CancelledUncertain(rec)
    /\ Step(c, "idle")
    /\ UNCHANGED <<live, login, stream, env, prep, envop, recon, monitor, writing, count>>

(* The process runs: submit the signal, unless one may have been before. *)
CancelDecides(c) ==
    /\ cancels[c].pc = "inspect" /\ cancels[c].seen \in {"attached", "running"} /\ TailFree
    /\ \/ /\ Terminal /\ rec' = rec /\ Step(c, "idle")
       \/ /\ ~Terminal /\ rec.cancel \in {"requested", "uncertain"}
          /\ rec' = [rec EXCEPT !.cancel = "uncertain"]
          /\ cancels' = [cancels EXCEPT ![c] =
                           IF @.mine THEN Idle ELSE [@ EXCEPT !.pc = "observe", !.seen = None]]
       \/ /\ ~Terminal /\ rec.cancel = "acknowledged" /\ rec' = rec
          /\ cancels' = [cancels EXCEPT ![c] =
                           IF @.mine THEN Idle ELSE [@ EXCEPT !.pc = "observe", !.seen = None]]
       \/ /\ ~Terminal /\ rec.cancel \in {"not_requested", "intent_recorded"}
          /\ rec' = [rec EXCEPT !.cancel = "requested"]
          /\ cancels' = [cancels EXCEPT ![c] = [@ EXCEPT !.pc = "submit", !.seen = None]]
    /\ UNCHANGED <<live, login, stream, env, prep, envop, recon, monitor, writing, count>>

(* The signal, through the attachment, which passes one on and no second,  *)
(* or to the detached process; it is delivered or not.                     *)
CancelSubmits(c) ==
    /\ cancels[c].pc = "submit"
    /\ \E sent, acknowledged \in BOOLEAN :
         /\ sent => login = "running" /\ stream # "cancelled" /\ (cancels[c].mine => stream = "open")
         /\ acknowledged => sent \/ stream = "cancelled"
         /\ count' = IF sent THEN [count EXCEPT !.signals = @ + 1] ELSE count
         /\ Step(c, IF acknowledged THEN "acked" ELSE "failed")
    /\ stream' = IF stream = "open" THEN "cancelled" ELSE stream
    /\ UNCHANGED <<rec, live, login, env, prep, envop, recon, monitor, writing>>

CancelAcknowledged(c) ==
    /\ cancels[c].pc = "acked" /\ TailFree
    /\ rec' = IF Terminal THEN rec ELSE [rec EXCEPT !.cancel = "acknowledged"]
    /\ Await(c)
    /\ UNCHANGED <<live, login, stream, env, prep, envop, recon, monitor, writing, count>>

CancelFailed(c) ==
    /\ cancels[c].pc = "failed" /\ cancels[c].seen \in {"attached", "running"} /\ TailFree
    /\ rec' = IF Terminal THEN rec ELSE [rec EXCEPT !.cancel = "uncertain"]
    /\ cancels' = [cancels EXCEPT ![c] =
                     IF @.mine THEN Idle ELSE [@ EXCEPT !.pc = "observe", !.seen = None]]
    /\ UNCHANGED <<live, login, stream, env, prep, envop, recon, monitor, writing, count>>

(* observeDetachedCancellation: the deadline passes, the process still runs. *)
CancelWaits(c) ==
    /\ cancels[c].pc = "observe" /\ cancels[c].seen \in {"attached", "running"}
    /\ Step(c, "idle")
    /\ UNCHANGED <<rec, live, login, stream, env, prep, envop, recon, monitor, writing, count>>

----------------------------------------------------------------------------
(* The process, the environment and the Worker *)

LoginEnds ==
    /\ login = "running" /\ login' \in {"done", "dead"}
    /\ UNCHANGED <<rec, live, stream, env, prep, envop, recon, monitor, cancels, writing, count>>

(* apply or reconcile: a stop, a removal or another generation, unless the *)
(* attempt owns the environment.                                           *)
EnvironmentCommand ==
    /\ ~envop /\ prep \in {"idle", "queued"} /\ env = "available"
    /\ ~FenceHolds /\ Command
    /\ envop' = TRUE
    /\ UNCHANGED <<rec, live, login, stream, env, prep, recon, monitor, cancels, writing>>

(* removeRecord, and with the environment whatever ran in it. *)
EnvironmentRetired ==
    /\ envop /\ envop' = FALSE /\ env' = "gone"
    /\ login' = IF login = "running" THEN "dead" ELSE login
    /\ UNCHANGED <<rec, live, stream, prep, recon, monitor, cancels, writing, count>>

(* A launch under way may have happened; a running login may end with its  *)
(* transport or run on.                                                    *)
Restart ==
    /\ count.restarts < MaxRestarts
    /\ \E launched \in BOOLEAN :
         /\ launched => prep = "spawning"
         /\ count' = [count EXCEPT !.restarts = @ + 1, !.spawns = @ + (IF launched THEN 1 ELSE 0)]
         /\ login' \in IF launched \/ login = "running" THEN {"running", "dead"} ELSE {login}
    /\ live' = NoSupervisor /\ stream' = "lost" /\ prep' = "idle" /\ envop' = FALSE
    /\ recon' = "idle" /\ monitor' = "none" /\ writing' = FALSE
    /\ cancels' = [c \in Cancels |-> Idle]
    /\ UNCHANGED <<rec, env>>

Next ==
    \/ Prepare \/ BeginSetupProcess \/ PreflightFails \/ BeforeSpawn \/ AcknowledgeSpawn \/ SpawnFails
    \/ ReconInspects \/ ReconThrows \/ ReconUnattached \/ ReconSettles \/ ReconValidates
    \/ PromptSeen \/ PromptRecorded \/ RequestTermination \/ Respond \/ Written
    \/ ExitObserved \/ StreamLost \/ MonitorSettles \/ MonitorValidates
    \/ Cancel \/ LoginEnds \/ EnvironmentCommand \/ EnvironmentRetired \/ Restart
    \/ \E c \in Cancels :
         \/ CancelInspects(c) \/ CancelSettles(c) \/ CancelWithoutProcess(c) \/ CancelDecides(c)
         \/ CancelSubmits(c) \/ CancelAcknowledged(c) \/ CancelFailed(c) \/ CancelWaits(c)

Spec == Init /\ [][Next]_vars

----------------------------------------------------------------------------
(* Across restarts, repeated commands, cancellations and environment        *)
(* commands, an attempt launches the login at most once (prepare), and from *)
(* the intent to launch until the attempt is settled the environment it was *)
(* authorized for is left alone (activeSetupFence and the two locks).       *)
LoginIsUndisturbed ==
    /\ count.spawns <= 1
    /\ rec # None /\ rec.inv \in {"requested", "acknowledged"} /\ ~Terminal => env = "available"

(* docs/provider-account-login-supervision.md: a cancellation boundary that *)
(* may have been crossed is not crossed again.                              *)
SignalledAtMostOnce == count.signals <= 1

(* The same document: failed or cancelled is reported only when the process *)
(* was seen gone; unavailable evidence is explicit uncertainty.             *)
SettledMeansGone == rec # None /\ rec.state \in {"failed", "cancelled"} => login # "running"

(* The same document: every later event re-reads the attempt and checks it; *)
(* so an outcome, once recorded, is not replaced.                           *)
OutcomeIsFinal == [][rec # None /\ Terminal => rec'.state = rec.state]_vars
=============================================================================
