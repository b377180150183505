------------------------------- MODULE RunExport -------------------------------
(***************************************************************************)
(* The work of one Run as it moves between its places                      *)
(* (execution-environment/sbx-run.ts, workspace/private-git.ts and their   *)
(* stores): the private worktree a physical lineage edits inside the Run   *)
(* environment, the immutable checkpoint exported from it, and the host    *)
(* Run worktree the verified export is imported into.  Environments are    *)
(* lost and replaced, the Worker restarts between any two steps, and a     *)
(* completion runs on after its action was cancelled.                      *)
(*                                                                         *)
(* A tree is the set of the edits it holds, a commit the tree it records;  *)
(* the frozen base is the empty set.  The Git commands of one import on    *)
(* the host worktree are one step.                                         *)
(***************************************************************************)
EXTENDS Naturals

CONSTANTS
  Lineages,          \* physical lineages of the Run
  None,              \* no value (null in the stores)
  MaxActions,        \* bound: actions claimed
  MaxEdits,          \* bound: edits made by harnesses
  MaxIncarnations,   \* bound: environment incarnations
  MaxRestarts        \* bound: Worker restarts

Commits == SUBSET (1..MaxEdits)
Export == [head: Commits, tree: Commits]
Execution == [inc: 1..MaxIncarnations, action: 1..MaxActions,
              change: Export \cup {None}, recovery: Export \cup {None}]
Stage == {"ensure", "repository", "initialize", "workspace", "populate", "record", "running"}
CompletionStage == {"exported", "importing", "imported"}

ExportAssumption ==
  /\ Lineages # {}
  /\ None \notin Lineages \cup Stage \cup CompletionStage \cup Export \cup Execution
  /\ {MaxActions, MaxIncarnations} \subseteq Nat \ {0}
  /\ {MaxEdits, MaxRestarts} \subseteq Nat

VARIABLES
  incarnation, up,     \* the Run environment, and whether it still exists
  repo,                \* private repository of each incarnation
  work,                \* lineage worktrees of each incarnation
  exec,                \* sbx_run_executions: one row per prepared lineage
  order,               \* rank of each row, newest updated_at first (0: no row)
  active,              \* the action in progress
  op,                  \* completion operation of each lineage
  fixture,             \* isolated import fixtures: export -> partial, full
  hostHead, hostTree,  \* the host Run worktree
  actions, edits, restarts

vars == <<incarnation, up, repo, work, exec, order, active, op, fixture,
          hostHead, hostTree, actions, edits, restarts>>

NoWork == [store |-> "none", head |-> {}, tree |-> {}]
NoAction == [lineage |-> None, action |-> 0, stage |-> None, restore |-> None]
NoOp == [stage |-> None, action |-> 0, export |-> None]
Incarnations == 1..MaxIncarnations

Init ==
  /\ incarnation = 1 /\ up = TRUE
  /\ repo = [i \in Incarnations |-> [store |-> "none", guest |-> "absent"]]
  /\ work = [i \in Incarnations |-> [l \in Lineages |-> NoWork]]
  /\ exec = [l \in Lineages |-> None] /\ order = [l \in Lineages |-> 0]
  /\ active = NoAction /\ op = [l \in Lineages |-> NoOp]
  /\ fixture = {}
  /\ hostHead = {} /\ hostTree = {}
  /\ actions = 0 /\ edits = 0 /\ restarts = 0

Lineage == active.lineage
Worktree == work[incarnation][Lineage]
Touched(l) ==
  [k \in Lineages |->
     IF k = l THEN 1
     ELSE IF order[k] # 0 /\ (order[l] = 0 \/ order[k] < order[l]) THEN order[k] + 1
     ELSE order[k]]
At(stage) == active.stage = stage
Go(stage) == active' = [active EXCEPT !.stage = stage]
Fail == active' = NoAction

(* assertCurrent: the operation still belongs to the action in progress *)
Current(l) == Lineage = l /\ active.action = op[l].action
-----------------------------------------------------------------------------
(* prepare *)

Claim(l) ==
  /\ At(None) /\ actions < MaxActions
  /\ actions' = actions + 1
  /\ active' = [lineage |-> l, action |-> actions + 1, stage |-> "ensure", restore |-> None]
  /\ UNCHANGED <<incarnation, up, repo, work, exec, order, op, fixture, hostHead,
                 hostTree, edits, restarts>>

(* The export a lineage without a row inherits: that of the row updated     *)
(* last among those that have one.                                          *)
Predecessor ==
  LET exported == {l \in Lineages : exec[l] # None /\ exec[l].recovery # None}
      newest == {l \in exported : \A k \in exported : order[l] <= order[k]}
  IN  IF newest = {} THEN None ELSE exec[CHOOSE l \in newest : TRUE].recovery

(* The export to restore: a replaced lineage's own, or its inheritance.     *)
RecoveryExport(inc) ==
  IF exec[Lineage] = None THEN Predecessor
  ELSE IF exec[Lineage].inc = inc THEN None ELSE exec[Lineage].recovery

(* backend.ensure: a lost environment is replaced by a new incarnation.     *)
(* Without a recovery export the lineage that lived in the old one cannot   *)
(* continue.  What is to be restored is read here, once.                    *)
Ensure ==
  /\ At("ensure")
  /\ up \/ incarnation < MaxIncarnations
  /\ up' = TRUE
  /\ incarnation' = IF up THEN incarnation ELSE incarnation + 1
  /\ IF /\ exec[Lineage] # None /\ exec[Lineage].inc # incarnation'
        /\ exec[Lineage].recovery = None
     THEN Fail /\ order' = Touched(Lineage)
     ELSE /\ active' = [active EXCEPT !.stage = "repository",
                                     !.restore = RecoveryExport(incarnation')]
          /\ UNCHANGED order
  /\ UNCHANGED <<repo, work, exec, op, fixture, hostHead, hostTree, actions,
                 edits, restarts>>

(* materializeSource / materializeCheckpointRepository: the durable claim,  *)
(* then the guest repository, whose marker is written last.                 *)
claimRepository ==
  /\ At("repository") /\ up
  /\ repo[incarnation].store \in {"none", "materializing"}
  /\ repo[incarnation].guest = "absent"
  /\ repo[incarnation].store = "none" \/ active.restore = None
  /\ repo' = [repo EXCEPT ![incarnation] =
                [store |-> "materializing", guest |-> "partial"]]
  /\ Go("initialize")
  /\ UNCHANGED <<incarnation, up, work, exec, order, op, fixture, hostHead,
                 hostTree, actions, edits, restarts>>

(* initializeGuestRepository, and its failure: the record needs attention *)
initializeGuestRepository ==
  /\ At("initialize")
  /\ \/ /\ up
        /\ repo' = [repo EXCEPT ![incarnation] = [store |-> "ready", guest |-> "exact"]]
        /\ Go("workspace")
     \/ repo' = [repo EXCEPT ![incarnation].store = "attention"] /\ Fail
  /\ UNCHANGED <<incarnation, up, work, exec, order, op, fixture, hostHead,
                 hostTree, actions, edits, restarts>>

(* verifyRepository / inspectGuestRepository, when a record exists already: *)
(* an interrupted materialization is a conflict.                            *)
verifyRepository ==
  /\ At("repository") /\ up /\ repo[incarnation].store # "none"
  /\ repo[incarnation].guest # "absent" \/ active.restore # None
  /\ LET r == repo[incarnation]
     IN IF r.store = "ready" /\ r.guest = "exact"
        THEN Go("workspace") /\ UNCHANGED repo
        ELSE /\ Fail
             /\ repo' = IF r.store = "materializing" /\ active.restore = None
                        THEN [repo EXCEPT ![incarnation].store = "attention"]
                        ELSE repo
  /\ UNCHANGED <<incarnation, up, work, exec, order, op, fixture, hostHead,
                 hostTree, actions, edits, restarts>>

(* createWorkspace starts a worktree at the frozen base or at the head of   *)
(* the restored checkpoint.                                                 *)
StartCommit == IF active.restore = None THEN {} ELSE active.restore.head

SetWork(w) == work' = [work EXCEPT ![incarnation][Lineage] = w]

claimWorkspace ==
  /\ At("workspace") /\ up /\ Worktree.store = "none"
  /\ SetWork([store |-> "creating", head |-> StartCommit, tree |-> StartCommit])
  /\ UNCHANGED <<incarnation, up, repo, exec, order, active, op, fixture, hostHead,
                 hostTree, actions, edits, restarts>>

createWorkspace ==
  /\ At("workspace") /\ Worktree.store # "none"
  /\ \/ /\ up /\ Worktree.store = "creating" /\ Worktree.head = StartCommit
        /\ SetWork([Worktree EXCEPT !.store = "ready"])
        /\ Go(IF active.restore = None THEN "record" ELSE "populate")
     \/ /\ Worktree.store = "creating"
        /\ SetWork([Worktree EXCEPT !.store = "attention"])
        /\ Fail
     \/ /\ up /\ Worktree.store = "ready"
        /\ Go(IF active.restore = None THEN "record" ELSE "populate")
        /\ UNCHANGED work
     \/ Worktree.store = "attention" /\ Fail /\ UNCHANGED work
  /\ UNCHANGED <<incarnation, up, repo, exec, order, op, fixture, hostHead,
                 hostTree, actions, edits, restarts>>

(* Mutant: a worktree that is ready is taken to be restored already. *)
restoreCheckpoint_created ==
  /\ At("populate")
  /\ IF up THEN Go("record") ELSE Fail
  /\ UNCHANGED <<incarnation, up, repo, work, exec, order, op, fixture, hostHead,
                 hostTree, actions, edits, restarts>>

(* restoreCheckpoint: the result tree is read into the worktree and the     *)
(* restored fingerprint must be the checkpoint's, head included.            *)
restoreCheckpoint ==
  /\ At("populate")
  /\ LET restored == [Worktree EXCEPT !.tree = active.restore.tree]
     IN  IF up /\ restored.head = active.restore.head
         THEN SetWork(restored) /\ Go("record")
         ELSE Fail /\ UNCHANGED work
  /\ UNCHANGED <<incarnation, up, repo, exec, order, op, fixture, hostHead,
                 hostTree, actions, edits, restarts>>

(* SbxRunExecutionStore.ready: an export bound for another action is        *)
(* cleared, what can be recovered stays.                                    *)
Ready ==
  /\ At("record") /\ Go("running")
  /\ LET row == exec[Lineage]
         change == IF row # None /\ row.action = active.action THEN row.change ELSE None
         recovery == IF row = None THEN active.restore ELSE row.recovery
     IN exec' = [exec EXCEPT ![Lineage] =
          [inc |-> incarnation, action |-> active.action, change |-> change,
           recovery |-> recovery]]
  /\ order' = Touched(Lineage)
  /\ UNCHANGED <<incarnation, up, repo, work, op, fixture, hostHead, hostTree,
                 actions, edits, restarts>>

(* The harness edits its worktree, and may commit there. *)
Edit ==
  /\ At("running") /\ up /\ op[Lineage].stage = None /\ edits < MaxEdits
  /\ edits' = edits + 1
  /\ SetWork([Worktree EXCEPT !.tree = @ \cup {edits + 1}])
  /\ UNCHANGED <<incarnation, up, repo, exec, order, active, op, fixture, hostHead,
                 hostTree, actions, restarts>>

Commit ==
  /\ At("running") /\ up /\ op[Lineage].stage = None
  /\ SetWork([Worktree EXCEPT !.head = Worktree.tree])
  /\ UNCHANGED <<incarnation, up, repo, exec, order, active, op, fixture, hostHead,
                 hostTree, actions, edits, restarts>>
-----------------------------------------------------------------------------
(* verifyAndPrepare *)

SetOp(l, o) == op' = [op EXCEPT ![l] = o]

(* computeFingerprint and createSnapshotState: what the worktree holds now *)
Snapshot == [head |-> Worktree.head, tree |-> Worktree.tree]

(* checkpoint: the export is named by its content; a durable one is reused. *)
checkpoint ==
  /\ At("running") /\ up /\ op[Lineage].stage = None
  /\ SetOp(Lineage,
       [stage |-> "exported", action |-> active.action,
        export |-> IF exec[Lineage].change # None THEN exec[Lineage].change
                   ELSE Snapshot])
  /\ UNCHANGED <<incarnation, up, repo, work, exec, order, active, fixture,
                 hostHead, hostTree, actions, edits, restarts>>

(* validateAndImportPrivateGitExport begins on a fresh fixture of the       *)
(* export after the fence; a fixture left half fetched is never completed.  *)
ImportFixture(l) ==
  /\ op[l].stage = "exported"
  /\ IF Current(l) /\ <<op[l].export, "partial">> \notin fixture
     THEN /\ fixture' = fixture \cup
               (IF <<op[l].export, "full">> \in fixture THEN {}
                ELSE {<<op[l].export, "partial">>})
          /\ SetOp(l, [op[l] EXCEPT !.stage = "importing"])
          /\ UNCHANGED active
     ELSE /\ SetOp(l, NoOp) /\ UNCHANGED fixture
          /\ active' = IF Current(l) THEN NoAction ELSE active
  /\ UNCHANGED <<incarnation, up, repo, work, exec, order, hostHead, hostTree,
                 actions, edits, restarts>>

ExpectedHead(l) == IF exec[l].recovery = None THEN {} ELSE exec[l].recovery.head
ExpectedTree(l) == IF exec[l].recovery = None THEN {} ELSE exec[l].recovery.tree

(* importVerifiedExport: the host worktree must be where this lineage's     *)
(* last verified export left it, or already hold the new one.  Nothing      *)
(* asks whether the action is still current.                                *)
HostIsExpected(l) ==
  /\ hostHead \in {ExpectedHead(l), op[l].export.head}
  /\ hostTree \in {ExpectedTree(l), op[l].export.tree}

importVerifiedExport(l) ==
  /\ op[l].stage = "importing"
  /\ fixture' = (fixture \ {<<op[l].export, "partial">>})
                  \cup {<<op[l].export, "full">>}
  /\ IF HostIsExpected(l)
     THEN /\ hostHead' = op[l].export.head /\ hostTree' = op[l].export.tree
          /\ SetOp(l, [op[l] EXCEPT !.stage = "imported"])
          /\ UNCHANGED active
     ELSE /\ SetOp(l, NoOp)
          /\ active' = IF Current(l) THEN NoAction ELSE active
          /\ UNCHANGED <<hostHead, hostTree>>
  /\ UNCHANGED <<incarnation, up, repo, work, exec, order, actions, edits, restarts>>

(* The final fence: bindExport, unless the export is bound already, and the *)
(* publication of the result.                                               *)
bindExport(l) ==
  /\ op[l].stage = "imported"
  /\ SetOp(l, NoOp)
  /\ IF Current(l)
     THEN /\ exec' = [exec EXCEPT ![l].change = op[l].export,
                                  ![l].recovery = op[l].export]
          /\ order' = IF exec[l].change = None THEN Touched(l) ELSE order
          /\ Fail
     ELSE UNCHANGED <<exec, order, active>>
  /\ UNCHANGED <<incarnation, up, repo, work, fixture, hostHead, hostTree, actions,
                 edits, restarts>>
-----------------------------------------------------------------------------
(* The action is cancelled or fails; its completion operation runs on. *)
Cancel ==
  /\ ~At(None) /\ Fail
  /\ UNCHANGED <<incarnation, up, repo, work, exec, order, op, fixture, hostHead,
                 hostTree, actions, edits, restarts>>

(* reconcileDurableOwnership and the relay mark rows for attention. *)
Attention(l) ==
  /\ exec[l] # None /\ exec[l].change = None
  /\ order' = Touched(l)
  /\ UNCHANGED <<incarnation, up, repo, work, exec, active, op, fixture, hostHead,
                 hostTree, actions, edits, restarts>>

EnvironmentLost ==
  /\ up /\ incarnation < MaxIncarnations /\ up' = FALSE
  /\ UNCHANGED <<incarnation, repo, work, exec, order, active, op, fixture,
                 hostHead, hostTree, actions, edits, restarts>>

(* The Worker restarts: an action is prepared again, unless its accepted    *)
(* completion was under way, which makes it a failure.                      *)
Restart ==
  /\ restarts < MaxRestarts /\ restarts' = restarts + 1
  /\ op' = [l \in Lineages |-> NoOp]
  /\ active' = IF At(None) \/ op[Lineage].stage # None THEN NoAction
               ELSE [active EXCEPT !.stage = "ensure", !.restore = None]
  /\ UNCHANGED <<incarnation, up, repo, work, exec, order, fixture, hostHead,
                 hostTree, actions, edits>>
-----------------------------------------------------------------------------
Next ==
  \/ Ensure \/ claimRepository \/ initializeGuestRepository \/ verifyRepository
  \/ claimWorkspace \/ createWorkspace \/ restoreCheckpoint \/ Ready
  \/ Edit \/ Commit \/ checkpoint \/ Cancel \/ EnvironmentLost \/ Restart
  \/ \E l \in Lineages :
       \/ Claim(l) \/ ImportFixture(l) \/ importVerifiedExport(l) \/ bindExport(l)
       \/ Attention(l)

Spec == Init /\ [][Next]_vars
-----------------------------------------------------------------------------
(* Work that a completion bound is never lost (importVerifiedExport,        *)
(* restoreCheckpoint): it stays in the host worktree whichever lineage      *)
(* exports next, and a lineage that inherits it, or carries it into a       *)
(* replacement environment, works on top of it.                             *)
VerifiedWorkIsKept ==
  /\ \A l \in Lineages : exec[l] # None => ExpectedTree(l) \subseteq hostTree
  /\ At("running") => ExpectedTree(Lineage) \subseteq Worktree.tree

(* Before the final fence an operation leaves only forensic checkpoint      *)
(* material (docs/antigravity-sbx.md): the host worktree holds what a       *)
(* completion bound, unless one is on its way there.                        *)
HostIsAuthoritative ==
  \/ hostTree = {}
  \/ \E l \in Lineages : exec[l] # None /\ ExpectedTree(l) = hostTree
  \/ \E l \in Lineages : op[l].stage = "imported" /\ Current(l)
=============================================================================
