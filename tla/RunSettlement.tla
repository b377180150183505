----------------------------- MODULE RunSettlement -----------------------------
(***************************************************************************)
(* What a Worker must settle before a registration counts: the Run         *)
(* repositories the control plane wants retained, then the dispatches.     *)
(* The two are reconciled in this order (initializeRegistration), and each *)
(* is refused on the grounds of the other: a repository is retained only   *)
(* once no local dispatch of its Run is live (assertRunIdle), and the      *)
(* operator's verdict on an uncertain dispatch reaches a Worker that       *)
(* missed it only in the answer to reconcile_state.                        *)
(*                                                                         *)
(* One Run, its parallel actions (Actions), its assignment to one Worker.  *)
(* The control plane is represented by the rows that the join reply and    *)
(* the answer to reconcile_state are read from.                            *)
(***************************************************************************)
EXTENDS Naturals, FiniteSets

CONSTANTS Actions,      \* the actions of the Run dispatched to this Worker
          MaxRestarts,  \* bound on restarts of the Worker
          MaxDrops      \* bound on lost connections

VARIABLES
    local,      \* Worker: registry state of each dispatch
    workspace,  \* Worker: state of the Run's repository
    conn,       \* Worker: "down", "worktrees", "dispatches" or "ready"
    dispatch,   \* control plane: state of each dispatch row
    verdict,    \* control plane: the operator's resolution of each dispatch
    assignment, \* control plane: state of the workspace assignment
    desired,    \* the assignment as the join reply told it
    notice,     \* resolutions sent on the present connection and not yet handled
    faults      \* restarts and drops so far

vars == <<local, workspace, conn, dispatch, verdict, assignment, desired, notice, faults>>

Live == {"running", "uncertain"}
Terminal == {"completed", "failed"}

TypeOK ==
    /\ local \in [Actions -> Live \union Terminal]
    /\ workspace \in {"ready", "retained"}
    /\ conn \in {"down", "worktrees", "dispatches", "ready"}
    /\ dispatch \in [Actions -> Live \union Terminal]
    /\ verdict \in [Actions -> {"none", "retry", "mark_failed"}]
    /\ assignment \in {"ready", "retained"} /\ desired \in {"ready", "retained"}
    /\ notice \subseteq Actions
    /\ faults \in [restarts: 0..MaxRestarts, drops: 0..MaxDrops]

Init ==
    /\ local = [a \in Actions |-> "running"]
    /\ dispatch = [a \in Actions |-> "running"]
    /\ verdict = [a \in Actions |-> "none"]
    /\ workspace = "ready" /\ assignment = "ready" /\ desired = "ready"
    /\ conn = "ready" /\ notice = {}
    /\ faults = [restarts |-> 0, drops |-> 0]

(* invalidate: the generation is over, and with it what was sent to it. *)
Lose == conn' = "down" /\ notice' = {}

(* The Run idles on this Worker, which assertRunIdle asks. *)
RunIsIdle == \A a \in Actions : local[a] \notin Live

(* The workspace is retained with the Run's terminal status. *)
RetainIf(terminal) == assignment' = IF terminal THEN "retained" ELSE assignment

(* What the control plane makes of the reports `facts` of one message: a      *)
(* terminal row keeps its state; the last completion retains the workspace.   *)
Observe(facts) ==
    /\ dispatch' = [a \in Actions |->
          IF a \in facts /\ dispatch[a] \notin Terminal THEN local[a] ELSE dispatch[a]]
    /\ RetainIf(\A a \in Actions : dispatch'[a] = "completed")

-----------------------------------------------------------------------------
(* The harness finishes an action. *)
Finish(a) ==
    /\ local[a] = "running"
    /\ local' = [local EXCEPT ![a] = "completed"]
    /\ UNCHANGED <<workspace, conn, dispatch, verdict, assignment, desired, notice, faults>>

(* The Worker restarts: what was running is recovered as uncertain. *)
Restart ==
    /\ faults.restarts < MaxRestarts
    /\ faults' = [faults EXCEPT !.restarts = @ + 1]
    /\ local' = [a \in Actions |-> IF local[a] = "running" THEN "uncertain" ELSE local[a]]
    /\ Lose
    /\ UNCHANGED <<workspace, dispatch, verdict, assignment, desired>>

Drop ==
    /\ conn # "down" /\ faults.drops < MaxDrops
    /\ faults' = [faults EXCEPT !.drops = @ + 1]
    /\ Lose
    /\ UNCHANGED <<local, workspace, dispatch, verdict, assignment, desired>>

(* A fact is reported while the Worker is registered. *)
Report(a) ==
    /\ conn = "ready" /\ local[a] # dispatch[a] /\ dispatch[a] \notin Terminal
    /\ Observe({a})
    /\ UNCHANGED <<local, workspace, conn, verdict, desired, notice, faults>>

(* The operator resolves an uncertain dispatch; marking it failed fails the   *)
(* Run and retains its workspace. The Worker is told once, if it is there.    *)
Resolve(a, how) ==
    /\ dispatch[a] = "uncertain"
    /\ dispatch' = [dispatch EXCEPT ![a] = "failed"]
    /\ verdict' = [verdict EXCEPT ![a] = how]
    /\ RetainIf(how = "mark_failed")
    /\ notice' = IF conn = "down" THEN notice ELSE notice \union {a}
    /\ UNCHANGED <<local, workspace, conn, desired, faults>>

(* resolveUncertainDispatch, from the message of the present connection. *)
HandleResolution(a) ==
    /\ a \in notice
    /\ notice' = notice \ {a}
    /\ local' = [local EXCEPT ![a] = IF @ = "uncertain" THEN "failed" ELSE @]
    /\ UNCHANGED <<workspace, conn, dispatch, verdict, assignment, desired, faults>>

(* A join succeeds; its reply carries the assignment the Worker must match. *)
Join ==
    /\ conn = "down"
    /\ conn' = "worktrees" /\ desired' = assignment
    /\ UNCHANGED <<local, workspace, dispatch, verdict, assignment, notice, faults>>

(* reconcileRunWorktrees: retaining the repository of a Run that is not idle  *)
(* throws, which invalidates the connection.                                  *)
ReconcileRunWorktrees ==
    /\ conn = "worktrees"
    /\ IF desired = "retained" /\ ~RunIsIdle
       THEN Lose /\ UNCHANGED workspace
       ELSE /\ conn' = "dispatches" /\ UNCHANGED notice
            /\ workspace' = IF desired = "retained" THEN "retained" ELSE workspace
    /\ UNCHANGED <<local, dispatch, verdict, assignment, desired, faults>>

(* reconcileControlPlane: reconcile_state reports every dispatch and its      *)
(* answer resolves the uncertain ones that the operator has decided.          *)
ReconcileControlPlane ==
    /\ conn = "dispatches"
    /\ conn' = "ready"
    /\ Observe(Actions)
    /\ local' = [a \in Actions |->
          IF local[a] = "uncertain" /\ verdict[a] # "none" THEN "failed" ELSE local[a]]
    /\ UNCHANGED <<workspace, verdict, desired, notice, faults>>

Next ==
    \/ \E a \in Actions : Finish(a) \/ Report(a) \/ HandleResolution(a)
    \/ \E a \in Actions, how \in {"retry", "mark_failed"} : Resolve(a, how)
    \/ Join \/ ReconcileRunWorktrees \/ ReconcileControlPlane
    \/ Restart \/ Drop

(* The channel rejoins, a registration runs to its end, harnesses finish and  *)
(* messages of a live connection are handled; no one else has to act.         *)
Fairness ==
    /\ WF_vars(Join) /\ WF_vars(ReconcileRunWorktrees) /\ WF_vars(ReconcileControlPlane)
    /\ \A a \in Actions : WF_vars(Finish(a)) /\ WF_vars(Report(a)) /\ WF_vars(HandleResolution(a))

Spec == Init /\ [][Next]_vars /\ Fairness

-----------------------------------------------------------------------------
(* Once connections stop failing, a registration is completed: the Worker     *)
(* README has dispatch, worktree and readiness facts reconstructed after a    *)
(* rejoin. A verdict given while the Worker was away defeats it.              *)
EventuallyRegistered == <>[](conn = "ready")
=============================================================================
