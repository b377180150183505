------------------------------ MODULE HarnessSetup ------------------------------
(***************************************************************************)
(* The setup of a harness for one Run-bound occurrence on a Worker         *)
(* (HarnessSetupCoordinator): a human's authority lets it launch a login   *)
(* once.  Preparation, cancellation, invalidation by the Run's cleanup and *)
(* the login's own completion are coroutines over one ledger row (rec);    *)
(* each writes a state without regard to the one it finds, except for the  *)
(* checks that are modelled here.                                          *)
(***************************************************************************)
EXTENDS Naturals

CONSTANTS MaxCommands,  \* bound on prepare and cancel commands
          MaxRestarts   \* bound on restarts of the Worker

VARIABLES
    rec,      \* the row: [state, inv]
    login,    \* the login process: "none", "running" or "ended"
    active,   \* the operation is in the registry: "none", "active" or "stopped"
    op,       \* prepareOnce or revalidateReady: where it awaits
    cancel,   \* cancel: where it awaits
    cleanup,  \* invalidateRun: where it awaits
    count     \* [begun, commands, restarts]

vars == <<rec, login, active, op, cancel, cleanup, count>>

States == {"authorized", "preparing", "invocation_requested", "invocation_acknowledged",
           "human_interaction_required", "ready", "failed", "uncertain",
           "cancellation_requested", "cancelled", "invalidated"}
Invocations == {"not_requested", "requested", "acknowledged", "settled", "uncertain"}

TypeOK ==
    /\ rec \in [state : States, inv : Invocations]
    /\ login \in {"none", "running", "ended"} /\ active \in {"none", "active", "stopped"}
    /\ op \in {"idle", "preparing", "inspecting", "requested", "beginning", "stopping", "invalid", "revalidating"}
    /\ cancel \in {"idle", "reported", "pending", "stopping"}
    /\ cleanup \in {"idle", "pending", "stopping"}

Init ==
    /\ rec = [state |-> "authorized", inv |-> "not_requested"]
    /\ login = "none" /\ active = "none" /\ op = "idle" /\ cancel = "idle" /\ cleanup = "idle"
    /\ count = [begun |-> 0, commands |-> 0, restarts |-> 0]

Command ==
    /\ count.commands < MaxCommands
    /\ count' = [count EXCEPT !.commands = @ + 1]

Row(state, inv) == rec' = [state |-> state, inv |-> inv]

Cancelling == rec.state \in {"cancellation_requested", "cancelled"}

----------------------------------------------------------------------------
(* prepare and prepareOnce *)

(* Mutant: only an acknowledged invocation counts. *)
MayHaveStarted_acknowledged(r) == r.inv = "acknowledged"

(* Once intent is recorded nobody can tell that the login was not launched. *)
MayHaveStarted(r) == r.inv # "not_requested"

(* A command, or reconcile after a registration; its first report is awaited. *)
Prepare ==
    /\ op = "idle" /\ active = "none" /\ Command
    /\ \/ /\ rec.state = "ready" /\ op' = "revalidating" /\ UNCHANGED rec
       \/ /\ rec.state \notin {"ready", "failed", "uncertain", "cancelled", "invalidated", "cancellation_requested"}
          /\ op' = "preparing" /\ Row("preparing", rec.inv)
    /\ UNCHANGED <<login, active, cancel, cleanup>>

(* finishCancellation *)
FinishCancellation(outcome) ==
    CASE rec.state = "cancelled" -> UNCHANGED rec
      [] rec.state # "cancelled" /\ outcome = "unknown" -> Row("uncertain", "uncertain")
      [] rec.state # "cancelled" /\ outcome = "not_invoked" -> Row("cancelled", "not_requested")
      [] OTHER -> Row("cancelled", rec.inv)

(* Where an await of prepareOnce finds the row invalidated or cancelled. *)
Interrupted(outcome) ==
    /\ op' = "idle"
    /\ \/ rec.state = "invalidated" /\ UNCHANGED rec
       \/ Cancelling /\ FinishCancellation(outcome)

Unsure == IF MayHaveStarted(rec) THEN "unknown" ELSE "not_invoked"

(* A report is not accepted: the preparation ends where it is. *)
ReportFails ==
    /\ op \in {"preparing", "requested"} /\ op' = "idle"
    /\ UNCHANGED <<rec, login, active, cancel, cleanup, count>>

Reported ==
    /\ op = "preparing"
    /\ \/ Interrupted(Unsure)
       \/ ~Cancelling /\ rec.state # "invalidated" /\ op' = "inspecting" /\ UNCHANGED rec
    /\ UNCHANGED <<login, active, cancel, cleanup, count>>

(* harness.setup.prepare throws. *)
PreparationFails ==
    /\ op = "inspecting"
    /\ \/ Interrupted(Unsure)
       \/ ~Cancelling /\ rec.state # "invalidated" /\ op' = "idle" /\ Row("failed", "not_requested")
    /\ UNCHANGED <<login, active, cancel, cleanup, count>>

(* It inspected: ready already, not eligible, or a login may be requested. *)
Inspected ==
    /\ op = "inspecting"
    /\ \/ Interrupted(Unsure)
       \/ /\ ~Cancelling /\ rec.state # "invalidated"
          /\ IF MayHaveStarted(rec) THEN op' = "idle" /\ Row("uncertain", "uncertain")
             ELSE \/ op' = "idle" /\ Row("ready", "settled")
                  \/ op' = "idle" /\ Row("failed", "not_requested")
                  \/ op' = "requested" /\ Row("invocation_requested", "requested")
    /\ UNCHANGED <<login, active, cancel, cleanup, count>>

(* The intent is reported, then the login is begun. *)
Begin ==
    /\ op = "requested"
    /\ \/ Interrupted("not_invoked") /\ UNCHANGED <<login, count>>
       \/ /\ ~Cancelling /\ rec.state # "invalidated" /\ op' = "beginning"
          /\ login' = "running" /\ count' = [count EXCEPT !.begun = @ + 1]
          /\ UNCHANGED rec
    /\ UNCHANGED <<active, cancel, cleanup>>

(* The launch is acknowledged; a cancellation meanwhile stops it. *)
Begun ==
    /\ op = "beginning"
    /\ active' = IF rec.state = "invalidated" \/ Cancelling THEN "stopped" ELSE "active"
    /\ \/ rec.state = "invalidated" /\ op' = "invalid" /\ UNCHANGED rec
       \/ Cancelling /\ op' = "stopping" /\ UNCHANGED rec
       \/ /\ ~Cancelling /\ rec.state # "invalidated" /\ op' = "idle"
          /\ Row("invocation_acknowledged", "acknowledged")
    /\ UNCHANGED <<login, cancel, cleanup, count>>

(* It is not: known not to have happened, or not known. *)
BeginFails ==
    /\ op = "beginning" /\ op' = "idle"
    /\ \E submitted \in BOOLEAN :
         /\ \/ rec.state = "invalidated" /\ UNCHANGED rec
            \/ Cancelling /\ IF submitted THEN Row("uncertain", "uncertain")
                                          ELSE FinishCancellation("not_invoked")
            \/ ~Cancelling /\ rec.state # "invalidated"
               /\ IF submitted THEN Row("uncertain", "uncertain") ELSE Row("failed", "not_requested")
         /\ IF submitted THEN UNCHANGED <<login, count>>
            ELSE login' = "none" /\ count' = [count EXCEPT !.begun = @ - 1]
    /\ UNCHANGED <<active, cancel, cleanup>>

(* cancelActive settles: the process is stopped, or nobody knows. *)
Stops == login' = "ended" \/ UNCHANGED login

OpStopped ==
    /\ op \in {"stopping", "invalid"} /\ op' = "idle" /\ active' = "none"
    /\ \/ /\ login' = "ended"
          /\ IF op = "stopping" THEN FinishCancellation("invoked_and_stopped") ELSE UNCHANGED rec
       \/ /\ UNCHANGED login
          /\ IF op = "stopping" THEN Row("uncertain", "uncertain") ELSE UNCHANGED rec
    /\ UNCHANGED <<cancel, cleanup, count>>

(* revalidateReady: ready again, or readiness is lost. *)
Revalidated ==
    /\ op = "revalidating" /\ op' = "idle"
    /\ \/ rec.state = "invalidated" /\ UNCHANGED rec
       \/ rec.state # "invalidated" /\ (Row("ready", "settled") \/ Row("failed", "settled"))
    /\ UNCHANGED <<login, active, cancel, cleanup, count>>

----------------------------------------------------------------------------
(* The login's events: handleEvent, complete and fail *)

Interaction ==
    /\ active # "none" /\ op = "idle" /\ login = "running"
    /\ rec.state = "invocation_acknowledged" /\ Row("human_interaction_required", rec.inv)
    /\ UNCHANGED <<login, active, op, cancel, cleanup, count>>

(* respond fails in the write: its outcome is unknown. *)
ResponseUncertain ==
    /\ rec.state = "human_interaction_required" /\ active # "none"
    /\ Row("uncertain", "uncertain")
    /\ UNCHANGED <<login, active, op, cancel, cleanup, count>>

(* The harness itself calls its login uncertain, or cancelled. *)
ReportedUncertain ==
    /\ active # "none" /\ op = "idle"
    /\ rec.state \in {"invocation_acknowledged", "human_interaction_required"}
    /\ Row("uncertain", "uncertain")
    /\ UNCHANGED <<login, active, op, cancel, cleanup, count>>

ReportedCancelled ==
    /\ active # "none" /\ op = "idle"
    /\ rec.state \in {"invocation_acknowledged", "human_interaction_required", "cancellation_requested"}
    /\ Row("cancelled", rec.inv)
    /\ UNCHANGED <<login, active, op, cancel, cleanup, count>>

Complete ==
    /\ active # "none" /\ login = "running" /\ login' = "ended"
    /\ IF rec.state \in {"invocation_acknowledged", "human_interaction_required"}
       THEN /\ \E outcome \in {"ready", "failed", "cancelled"} : Row(outcome, "settled")
            /\ active' = "none"
       ELSE UNCHANGED <<rec, active>>
    /\ UNCHANGED <<op, cancel, cleanup, count>>

----------------------------------------------------------------------------
(* cancel *)

RequestCancel ==
    IF rec.state \in {"ready", "failed"}
    THEN Row("cancelled", rec.inv) /\ cancel' = "idle"
    ELSE Row("cancellation_requested", rec.inv) /\ cancel' \in {"reported", "idle"}

Cancel ==
    /\ cancel = "idle" /\ Command
    /\ rec.state \notin {"cancelled", "invalidated"} /\ RequestCancel
    /\ UNCHANGED <<login, active, op, cleanup>>

CancelReported ==
    /\ cancel = "reported"
    /\ CASE active # "none" -> cancel' = "stopping" /\ active' = "stopped" /\ UNCHANGED rec
         [] active = "none" /\ op # "idle" -> cancel' = "pending" /\ UNCHANGED <<rec, active>>
         [] active = "none" /\ op = "idle" /\ MayHaveStarted(rec) ->
              cancel' = "idle" /\ Row("uncertain", "uncertain") /\ UNCHANGED active
         [] OTHER -> cancel' = "idle" /\ Row("cancelled", rec.inv) /\ UNCHANGED active
    /\ UNCHANGED <<login, op, cleanup, count>>

(* The preparation it waited for is over: done, or cancel from the start. *)
CancelPending ==
    /\ cancel = "pending" /\ op = "idle"
    /\ IF rec.state \in {"cancelled", "uncertain", "invalidated"}
       THEN cancel' = "idle" /\ UNCHANGED rec
       ELSE RequestCancel
    /\ UNCHANGED <<login, active, op, cleanup, count>>

CancelStopped ==
    /\ cancel = "stopping" /\ cancel' = "idle" /\ active' = "none"
    /\ \/ login' = "ended" /\ (IF rec.state = "cancelled" THEN UNCHANGED rec ELSE Row("cancelled", rec.inv))
       \/ UNCHANGED login /\ Row("uncertain", "uncertain")
    /\ UNCHANGED <<op, cleanup, count>>

----------------------------------------------------------------------------
(* invalidateRun, and the Worker *)

Invalidate ==
    /\ cleanup = "idle" /\ rec.state # "invalidated"
    /\ Row("invalidated", rec.inv) /\ cleanup' = "pending"
    /\ UNCHANGED <<login, active, op, cancel, count>>

InvalidateWaited ==
    /\ cleanup = "pending" /\ op = "idle"
    /\ cleanup' = IF active = "none" THEN "idle" ELSE "stopping"
    /\ active' = IF active = "none" THEN active ELSE "stopped"
    /\ UNCHANGED <<rec, login, op, cancel, count>>

InvalidateStopped ==
    /\ cleanup = "stopping" /\ cleanup' = "idle" /\ active' = "none" /\ Stops
    /\ UNCHANGED <<rec, op, cancel, count>>

Restart ==
    /\ count.restarts < MaxRestarts
    /\ count' = [count EXCEPT !.restarts = @ + 1]
    /\ active' = "none" /\ op' = "idle" /\ cancel' = "idle" /\ cleanup' = "idle"
    /\ UNCHANGED <<rec, login>>

Next ==
    \/ Prepare \/ ReportFails \/ Reported \/ PreparationFails \/ Inspected \/ Begin \/ Begun
    \/ BeginFails \/ OpStopped \/ Revalidated \/ Interaction \/ ResponseUncertain
    \/ ReportedUncertain \/ ReportedCancelled \/ Complete
    \/ Cancel \/ CancelReported \/ CancelPending \/ CancelStopped
    \/ Invalidate \/ InvalidateWaited \/ InvalidateStopped \/ Restart

Spec == Init /\ [][Next]_vars

----------------------------------------------------------------------------
(* Whatever is repeated, interrupted or restarted, a setup begins the login *)
(* at most once, never after its Run's cleanup invalidated it (prepareOnce).*)
LoginBegunAtMostOnce ==
    [][/\ count'.begun <= 1
       /\ count'.begun > count.begun => rec.state \notin {"invalidated", "cancelled", "cancellation_requested"}]_vars

(* docs/claude-agent-sdk.md: a cancellation fences late completion. *)
CancellationFences == [][rec.state = "cancelled" => rec'.state \notin {"ready", "failed"}]_vars

(* harness-setup.test.ts: an acknowledged setup ambiguity is never downgraded *)
(* by what a restarted Worker finds.                                          *)
InvocationIsNotForgotten == [][rec.inv = "acknowledged" => rec'.inv # "not_requested"]_vars
=============================================================================
