------------------------------ MODULE RunCleanup ------------------------------
(***************************************************************************)
(* Provisioning, retention and whole-Run teardown of the physical          *)
(* resources of one Run on its Worker (run-cleanup.ts,                     *)
(* run-cleanup-store.ts, execution-environment/run-cleanup.ts and          *)
(* workspace/run-worktrees.ts): the harness sessions, the execution        *)
(* environment and the isolated host repository.  Commands arrive twice    *)
(* and in any order, a periodic scan resumes what is pending, the Git and  *)
(* provider calls of several operations interleave, each may fail, and the *)
(* Worker restarts between any two steps.                                  *)
(*                                                                         *)
(* The environment is what SbxEnvironment proves of it: a stop crosses the *)
(* provider once, removal follows a confirmed stop, and a removed          *)
(* incarnation is stale for everything but another removal.                *)
(***************************************************************************)
EXTENDS Naturals, Sequences

CONSTANTS
  Calls,         \* worktree commands that may be in progress together
  None,          \* no value (null in the stores)
  MaxRestarts,   \* bound: Worker restarts
  MaxCommands    \* bound: worktree commands received

(* the stages of a cleanup operation, and the row it advances *)
Stages == {"freeze", "host", "close", "closed", "unclosed", "inspect", "stop", "remove",
           "removed", "repository", "verify", "status", "rm", "record"}
Cleanups == [harness: {"retained", "retiring", "retired", "unavailable"},
             env: {"cleanup_requested", "stopping", "stopped", "removed", "failed", "uncertain"},
             host: {"cleanup_requested", "removed", "failed"}, target: BOOLEAN]

CleanupAssumption ==
  /\ None \notin Calls \cup Stages \cup Cleanups
  /\ {MaxRestarts, MaxCommands} \subseteq Nat

VARIABLES
  local,         \* execution of the Run in the dispatch registry
  harness,       \* its harness sessions: "open", "closed"
  env,           \* the environment: "none", "running", "stopping", "stopped", "gone"
  intent,        \* the durable stop intent of that incarnation
  repo,          \* the directory of the Run repository: "absent", "partial", "sound"
  dirty,         \* whether it holds uncommitted work
  wt,            \* run_worktrees.state, None before the first request
  based,         \* whether base_revision is recorded
  cl,            \* the run_cleanups row
  pass,          \* the cleanup operation in progress
  call,          \* worktree commands in progress
  sourceQueue, runQueue,  \* GitOperationLocks of the source and of the Run repository
  commands, restarts

vars == <<local, harness, env, intent, repo, dirty, wt, based, cl, pass, call,
          sourceQueue, runQueue, commands, restarts>>
resources == <<harness, env, intent>>
bounds == <<commands, restarts>>

Idle == [stage |-> None, retry |-> FALSE]
NoCall == [op |-> None, stage |-> None, seen |-> None]
Cleaner == "cleanup"     \* the cleanup operation as a holder of a lock

Init ==
  /\ local = "none"
  /\ harness = "closed" /\ env = "none" /\ intent = FALSE
  /\ repo = "absent" /\ dirty = FALSE
  /\ wt = None /\ based = FALSE
  /\ cl = None /\ pass = Idle
  /\ call = [c \in Calls |-> NoCall]
  /\ sourceQueue = <<>> /\ runQueue = <<>>
  /\ commands = 0 /\ restarts = 0

Attention == "attention_required"
Settled == {"ready", Attention, "failed", "removed"}
Verifiable == {"ready", "retained", "cleanup_requested"}

CallAt(c, stage) == call[c].stage = stage
CallGoes(c, stage) == call' = [call EXCEPT ![c].stage = stage]
CallEnds(c) == call' = [call EXCEPT ![c] = NoCall]
PassAt(stage) == pass.stage = stage
PassGoes(stage) == pass' = [pass EXCEPT !.stage = stage]
PassEnds == pass' = Idle

(* assertRunIdle *)
RunIdle == local = "settled"
-----------------------------------------------------------------------------
(* The dispatches of the Run, in a session and an environment of its own.   *)
Execute ==
  /\ local = "none" /\ wt = "ready" /\ local' = "active"
  /\ harness' = "open" /\ env' \in {"none", "running"}
  /\ UNCHANGED <<intent, repo, dirty, wt, based, cl, pass, call, sourceQueue,
                 runQueue, bounds>>

(* An accepted change set is imported, uncommitted. *)
Import ==
  /\ local = "active" /\ repo = "sound" /\ dirty' = TRUE
  /\ UNCHANGED <<local, resources, repo, wt, based, cl, pass, call, sourceQueue,
                 runQueue, bounds>>

(* The Run ends, before it executed anything or after; what a prompt did    *)
(* may stay unknown until an operator decides.                              *)
ExecutionSettles ==
  /\ local # "settled"
  /\ local' \in {"settled", "uncertain"}
  /\ local' = "uncertain" => local = "active"
  /\ UNCHANGED <<harness, env, intent, repo, dirty, wt, based, cl, pass, call,
                 sourceQueue, runQueue, bounds>>

(* provider: a stop it was asked for takes effect *)
EnvironmentStops ==
  /\ env = "stopping" /\ env' = "stopped"
  /\ UNCHANGED <<local, harness, intent, repo, dirty, wt, based, cl, pass, call,
                 sourceQueue, runQueue, bounds>>
-----------------------------------------------------------------------------
(* provision: the request is recorded before it queues for the source.      *)
Receive(c, op) ==
  /\ call[c] = NoCall /\ commands < MaxCommands
  /\ commands' = commands + 1
  /\ call' = [call EXCEPT ![c] = [op |-> op, stage |-> "wait", seen |-> None]]

persistRequest(c) ==
  /\ Receive(c, "provision")
  /\ wt' = IF wt = None THEN "requested" ELSE wt
  /\ sourceQueue' = Append(sourceQueue, c)
  /\ UNCHANGED <<local, resources, repo, dirty, based, cl, pass, runQueue, restarts>>

Provisions(c) == sourceQueue # <<>> /\ Head(sourceQueue) = c
ProvisionEnds(c) == CallEnds(c) /\ sourceQueue' = Tail(sourceQueue)

(* The lock is acquired: a worktree that settled answers at once, any other *)
(* goes on from its recorded base.                                          *)
provision(c) ==
  /\ Provisions(c) /\ CallAt(c, "wait")
  /\ IF wt \in Settled
     THEN ProvisionEnds(c) /\ UNCHANGED <<wt, based>>
     ELSE /\ CallGoes(c, "create") /\ UNCHANGED sourceQueue
          /\ based' = TRUE
          /\ wt' = IF based THEN wt ELSE "provisioning"
  /\ UNCHANGED <<local, resources, repo, dirty, cl, pass, runQueue, bounds>>

(* initializeIsolatedRepository, when the directory is absent *)
initializeIsolatedRepository(c) ==
  /\ CallAt(c, "create")
  /\ IF repo # "absent" THEN CallGoes(c, "verify") /\ UNCHANGED repo
     ELSE CallGoes(c, "fetch") /\ repo' = "partial"
  /\ UNCHANGED <<local, resources, dirty, wt, based, cl, pass, sourceQueue,
                 runQueue, bounds>>

FetchBase(c) ==
  /\ CallAt(c, "fetch")
  /\ \/ repo = "partial" /\ repo' = "sound" /\ CallGoes(c, "verify")
     \/ CallGoes(c, "problem") /\ UNCHANGED repo
  /\ UNCHANGED <<local, resources, dirty, wt, based, cl, pass, sourceQueue,
                 runQueue, bounds>>

(* A Git failure that left a directory behind needs attention; any other    *)
(* error, a head past the base among them, fails.                           *)
ProvisionProblem(c) ==
  /\ CallAt(c, "problem") /\ ProvisionEnds(c)
  /\ \/ wt' = "failed"
     \/ repo # "absent" /\ wt' = Attention
  /\ UNCHANGED <<local, resources, repo, dirty, based, cl, pass, runQueue, bounds>>

(* verifyPhysical of the new repository; the base is checked as well. *)
ProvisionVerified(c) ==
  /\ CallAt(c, "verify")
  /\ \/ repo = "sound" /\ wt' = "ready" /\ ProvisionEnds(c)
     \/ UNCHANGED <<wt, sourceQueue>> /\ CallGoes(c, "problem")
  /\ UNCHANGED <<local, resources, repo, dirty, based, cl, pass, runQueue, bounds>>
-----------------------------------------------------------------------------
(* verify, for a retention (retain) or for the Delivery of the Run          *)
(* (validate).  Both find the Run idle first.                               *)
verify(c, op) ==
  /\ wt \in Verifiable /\ RunIdle
  /\ Receive(c, op)
  /\ runQueue' = Append(runQueue, c)
  /\ UNCHANGED <<local, resources, repo, dirty, wt, based, cl, pass, sourceQueue,
                 restarts>>

Verifies(h) == runQueue # <<>> /\ Head(runQueue) = h

(* What the Git commands of verifyPhysical find; one may fail by itself. *)
Findings == {IF repo = "absent" THEN "missing" ELSE IF repo = "partial" THEN "git" ELSE "exact",
             "git"}

verifyPhysical(c) ==
  /\ Verifies(c) /\ CallAt(c, "wait")
  /\ \E f \in Findings :
       call' = [call EXCEPT ![c] = [@ EXCEPT !.stage = "seen", !.seen = f]]
  /\ UNCHANGED <<local, resources, repo, dirty, wt, based, cl, pass, sourceQueue,
                 runQueue, bounds>>

(* markProblem: a missing directory needs attention, a failed command fails *)
markProblem(f) == IF f = "missing" THEN Attention ELSE "failed"

(* retain and validate conclude.  A verified worktree is retained whatever  *)
(* its row says by now; one that failed as well.                            *)
Retains(c) == call[c].op = "retain"

Concluded(c) ==
  LET verified == IF call[c].seen = "exact" THEN wt ELSE markProblem(call[c].seen)
  IN  IF Retains(c) /\ verified # Attention THEN "retained" ELSE verified

Conclude(c) ==
  /\ CallAt(c, "seen")
  /\ wt' = Concluded(c)
  /\ runQueue' = Tail(runQueue)
  /\ IF call[c].op = "deliver" /\ wt' = "retained"
     THEN CallGoes(c, "publish") ELSE CallEnds(c)
  /\ UNCHANGED <<local, resources, repo, dirty, based, cl, pass, sourceQueue, bounds>>

(* publish commits what the workspace still holds, or fails. *)
publish(c) ==
  /\ CallAt(c, "publish") /\ CallEnds(c)
  /\ dirty' \in {dirty, dirty /\ repo # "sound"}
  /\ UNCHANGED <<local, resources, repo, wt, based, cl, pass, sourceQueue,
                 runQueue, bounds>>
-----------------------------------------------------------------------------
(* RunCleanupCoordinator *)

(* request: a command retries what failed, the scan does not; either joins  *)
(* an operation in progress.                                                *)
Start(retry) ==
  /\ pass = Idle /\ RunIdle /\ wt # None
  /\ pass' = [stage |-> IF cl = None THEN "freeze" ELSE "host", retry |-> retry]
  /\ UNCHANGED <<local, resources, repo, dirty, wt, based, cl, call, sourceQueue,
                 runQueue, bounds>>

listReconcilable ==
  /\ cl # None
  /\ \/ cl.harness \in {"retained", "retiring"}
     \/ cl.env \in {"cleanup_requested", "stopping", "stopped", "uncertain"}
     \/ cl.env = "removed" /\ cl.host = "cleanup_requested"

Request == Start(TRUE)
Scan == listReconcilable /\ Start(FALSE)

(* freeze: the exact environment, its proven absence, or neither *)
freeze ==
  /\ PassAt("freeze")
  /\ \E e \in IF env = "none" THEN {"removed"} ELSE {"cleanup_requested", "failed"} :
       cl' = [harness |-> "retiring", env |-> e, host |-> "cleanup_requested",
              target |-> e = "cleanup_requested"]
  /\ PassGoes("host")
  /\ UNCHANGED <<local, resources, repo, dirty, wt, based, call, sourceQueue,
                 runQueue, bounds>>

ClosesHarness(c) ==
  c.harness \in {"retained", "retiring"} \/ (pass.retry /\ c.harness = "unavailable")

CleansEnvironment(c) ==
  /\ c.harness = "retired" /\ c.target
  /\ \/ c.env \in {"cleanup_requested", "stopping", "stopped", "uncertain"}
     \/ pass.retry /\ c.env = "failed"

(* Mutant: an environment that failed no longer blocks the repository. *)
RemovesRepository_ifRetired(c) ==
  /\ c.harness = "retired" /\ c.env \in {"removed", "failed"}
  /\ c.host = "cleanup_requested" \/ (pass.retry /\ c.host = "failed")

RemovesRepository(c) ==
  /\ c.harness = "retired" /\ c.env = "removed"
  /\ c.host = "cleanup_requested" \/ (pass.retry /\ c.host = "failed")

(* what advance turns to next *)
AfterHarness(c) == IF CleansEnvironment(c) THEN "inspect"
                   ELSE IF RemovesRepository(c) THEN "repository" ELSE None
AfterEnvironment(c) == IF RemovesRepository(c) THEN "repository" ELSE None
Advance(c, stage) == cl' = c /\ IF stage = None THEN PassEnds ELSE PassGoes(stage)

(* requestCleanup: only a retained repository enters cleanup.  A removed    *)
(* one that cannot enter again ends the operation with an error.            *)
requestHostCleanup ==
  /\ PassAt("host")
  /\ IF wt \in {"retained", "cleanup_requested", "removed"}
     THEN /\ wt' = IF wt = "removed" THEN wt ELSE "cleanup_requested"
          /\ Advance(IF ClosesHarness(cl) THEN [cl EXCEPT !.harness = "retiring"] ELSE cl,
                     IF ClosesHarness(cl) THEN "close" ELSE AfterHarness(cl))
     ELSE /\ UNCHANGED wt /\ PassEnds
          /\ cl' = IF cl.host = "removed" THEN cl ELSE [cl EXCEPT !.host = "failed"]
  /\ UNCHANGED <<local, resources, repo, dirty, based, call, sourceQueue, runQueue,
                 bounds>>

(* closeRunTargets *)
closeHarnessTargets ==
  /\ PassAt("close")
  /\ \/ RunIdle /\ harness' = "closed" /\ PassGoes("closed")
     \/ UNCHANGED harness /\ PassGoes("unclosed")
  /\ UNCHANGED <<local, env, intent, repo, dirty, wt, based, cl, call, sourceQueue,
                 runQueue, bounds>>

updateHarness ==
  /\ pass.stage \in {"closed", "unclosed"}
  /\ LET c == [cl EXCEPT !.harness = IF PassAt("closed") THEN "retired" ELSE "unavailable"]
     IN  Advance(c, AfterHarness(c))
  /\ UNCHANGED <<local, resources, repo, dirty, wt, based, call, sourceQueue,
                 runQueue, bounds>>

Environment(state) ==
  LET c == [cl EXCEPT !.env = state] IN Advance(c, AfterEnvironment(c))

(* cleanupExecutionEnvironment: a stale incarnation fails, as does any      *)
(* provider call.                                                           *)
EnvironmentFails ==
  /\ pass.stage \in {"inspect", "stop", "remove"}
  /\ Environment("failed")
  /\ UNCHANGED <<local, resources, repo, dirty, wt, based, call, sourceQueue,
                 runQueue, bounds>>

(* advanceStop: the provider is asked once; afterwards it is only observed. *)
advanceStop ==
  /\ PassAt("inspect") /\ env # "gone"
  /\ IF intent
     THEN PassGoes("stop") /\ UNCHANGED <<env, intent>>
     ELSE /\ intent' = TRUE /\ PassGoes("stop")
          /\ env' \in {"running", "stopping"}
  /\ UNCHANGED <<local, harness, repo, dirty, wt, based, cl, call, sourceQueue,
                 runQueue, bounds>>

stopOutcome ==
  /\ PassAt("stop")
  /\ \/ env = "stopped" /\ PassGoes("remove") /\ UNCHANGED cl
     \/ env = "stopping" /\ Environment("stopping")
     \/ Environment("uncertain")
  /\ UNCHANGED <<local, resources, repo, dirty, wt, based, call, sourceQueue,
                 runQueue, bounds>>

RemoveEnvironment ==
  /\ PassAt("remove") /\ env' = "gone" /\ PassGoes("removed")
  /\ UNCHANGED <<local, harness, intent, repo, dirty, wt, based, cl, call,
                 sourceQueue, runQueue, bounds>>

updateEnvironment ==
  /\ PassAt("removed") /\ Environment("removed")
  /\ UNCHANGED <<local, resources, repo, dirty, wt, based, call, sourceQueue,
                 runQueue, bounds>>

HostRepository(state) == Advance([cl EXCEPT !.host = state], None)

(* RunWorktreeRegistry.cleanup *)
cleanup ==
  /\ PassAt("repository")
  /\ \/ /\ wt = "removed" \/ repo = "absent"
        /\ wt' = "removed" /\ HostRepository("removed") /\ UNCHANGED runQueue
     \/ /\ wt # "removed" /\ repo # "absent" /\ UNCHANGED wt
        /\ IF wt \in Verifiable
           THEN PassGoes("verify") /\ runQueue' = Append(runQueue, Cleaner) /\ UNCHANGED cl
           ELSE HostRepository("failed") /\ UNCHANGED runQueue
  /\ UNCHANGED <<local, resources, repo, dirty, based, call, sourceQueue, bounds>>

CleanupVerifies ==
  /\ PassAt("verify") /\ Verifies(Cleaner)
  /\ runQueue' = Tail(runQueue)
  /\ \E f \in Findings : wt' = IF f = "exact" THEN wt ELSE markProblem(f)
  /\ IF wt' = Attention THEN HostRepository("failed")
     ELSE PassGoes("status") /\ UNCHANGED cl
  /\ UNCHANGED <<local, resources, repo, dirty, based, call, sourceQueue, bounds>>

(* Uncommitted work is never removed; a clean repository is. *)
CleanupStatus ==
  /\ PassAt("status")
  /\ \/ dirty /\ wt' = Attention /\ HostRepository("failed")
     \/ ~dirty /\ repo = "sound" /\ wt' = "cleanup_requested" /\ PassGoes("rm") /\ UNCHANGED cl
     \/ HostRepository("failed") /\ UNCHANGED wt
  /\ UNCHANGED <<local, resources, repo, dirty, based, call, sourceQueue, runQueue,
                 bounds>>

RemoveFiles ==
  /\ PassAt("rm")
  /\ repo' = IF repo = "sound" THEN "partial" ELSE "absent"
  /\ PassGoes(IF repo' = "absent" THEN "record" ELSE "rm")
  /\ UNCHANGED <<local, resources, dirty, wt, based, cl, call, sourceQueue, runQueue,
                 bounds>>

RemovalFails ==
  /\ PassAt("rm") /\ wt' = "failed" /\ HostRepository("failed")
  /\ UNCHANGED <<local, resources, repo, dirty, based, call, sourceQueue, runQueue,
                 bounds>>

RecordRemoval ==
  /\ PassAt("record")
  /\ IF repo = "absent" THEN wt' = "removed" /\ HostRepository("removed")
     ELSE wt' = Attention /\ HostRepository("failed")
  /\ UNCHANGED <<local, resources, repo, dirty, based, call, sourceQueue, runQueue,
                 bounds>>

(* The stores survive; operations and their locks do not. *)
Restart ==
  /\ restarts < MaxRestarts /\ restarts' = restarts + 1
  /\ call' = [c \in Calls |-> NoCall] /\ pass' = Idle
  /\ sourceQueue' = <<>> /\ runQueue' = <<>>
  /\ UNCHANGED <<local, resources, repo, dirty, wt, based, cl, commands>>
-----------------------------------------------------------------------------
CleanupStep ==
  \/ freeze \/ requestHostCleanup \/ closeHarnessTargets \/ updateHarness
  \/ EnvironmentFails \/ advanceStop \/ stopOutcome \/ RemoveEnvironment
  \/ updateEnvironment \/ cleanup \/ CleanupVerifies \/ CleanupStatus
  \/ RemoveFiles \/ RemovalFails \/ RecordRemoval

CallStep(c) ==
  \/ provision(c) \/ initializeIsolatedRepository(c) \/ FetchBase(c)
  \/ ProvisionProblem(c) \/ ProvisionVerified(c) \/ verifyPhysical(c) \/ Conclude(c)
  \/ publish(c)

Next ==
  \/ Execute \/ Import \/ ExecutionSettles \/ EnvironmentStops
  \/ \E c \in Calls : persistRequest(c) \/ verify(c, "retain") \/ verify(c, "deliver")
                      \/ CallStep(c)
  \/ Request \/ Scan \/ CleanupStep \/ Restart

Spec == Init /\ [][Next]_vars

(* An operation that started takes its next step, the operator asks again   *)
(* for a cleanup that did not finish, and the provider stops what it was    *)
(* asked to stop.  Nothing is assumed to succeed.                           *)
FairSpec ==
  /\ Spec /\ WF_vars(CleanupStep) /\ WF_vars(EnvironmentStops)
  /\ SF_vars(Request)
-----------------------------------------------------------------------------
(* The host repository is the last resource of a Run to go: its files are   *)
(* removed only when nothing of the Run executes or may have, its sessions  *)
(* are closed, its environment is gone and all work is committed.           *)
RepositoryGoesLast ==
  [][(repo = "sound" /\ repo' = "partial") =>
       /\ RunIdle /\ harness = "closed"
       /\ env \in {"none", "gone"} /\ ~dirty]_vars

(* run-cleanup-store.ts: "Removed host Run repository cleanup cannot        *)
(* regress."  What was recorded as removed does not exist.                  *)
RemovalIsFinal == (cl # None /\ cl.host = "removed") => repo = "absent"

(* docs/execution-environment-backend.md: "A Worker restart resumes these   *)
(* projections from SQLite."  An environment that cleanup removed is        *)
(* recorded as removed in the end, so that the repository may follow.       *)
Recorded == cl # None /\ cl.env = "removed"

RemovalIsRecorded == (env = "gone") ~> Recorded
=============================================================================
