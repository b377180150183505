----------------------------- MODULE MCWorkspace -----------------------------
(***************************************************************************)
(* The workspace of a Run, for TLC.  The four components share no state:    *)
(* Init chooses one of them, and the others keep their initial state.       *)
(***************************************************************************)
EXTENDS Workspace, Naturals, FiniteSets, TLC

CONSTANTS Lone   \* one more mutation

VARIABLE case

(* Two actions on two lineages, with a Worker restart.                      *)
Restarted == INSTANCE RunExport WITH MaxActions <- 2, MaxRestarts <- 1

(* One mutation over two connections.                                       *)
Connected == INSTANCE WorkspaceToolBroker WITH
    Requests <- Lone, Mutations <- Lone, MaxGenerations <- 2

export == <<incarnation, up, repo, work, exec, order, active, op, fixture, hostHead,
            hostTree, actions, edits, restarts>>
cleanup == <<local, harness, env, intent, directory, dirty, wt, based, cl, pass, call,
             sourceQueue, runQueue, commands, starts>>
delivery == <<row, desk, jobs, inbox, workspace, remote, review, quest, reported, changes>>
tools == <<session, owner, record, bound, live, client, admitting, replacing, user, step,
           queue, cancels, applied, denied, current, generation, since>>
vars == <<case, export, cleanup, delivery, tools>>

ASSUME WorkspaceAssumption ==
    /\ Export!ExportAssumption /\ Restarted!ExportAssumption /\ Cleanup!CleanupAssumption
    /\ Delivery!DeliveryAssumption
    /\ Tools!BrokerAssumption /\ Connected!BrokerAssumption

(* Two lineages, calls and jobs are as symmetric, but permuting them costs  *)
(* more than it saves.                                                      *)
Symmetry == Permutations(Requests)

Init ==
    /\ case \in {"export", "restarted", "cleanup", "delivery", "tools", "connected"}
    /\ Export!Init /\ Cleanup!Init /\ Delivery!Init
    /\ IF case = "connected" THEN Connected!Init ELSE Tools!Init
    /\ case # "delivery" => workspace.content = Base

Next ==
    \/ case = "export" /\ Export!Next /\ UNCHANGED <<case, cleanup, delivery, tools>>
    \/ case = "restarted" /\ Restarted!Next /\ UNCHANGED <<case, cleanup, delivery, tools>>
    \/ case = "cleanup" /\ Cleanup!Next /\ UNCHANGED <<case, export, delivery, tools>>
    \/ case = "delivery" /\ Delivery!Next /\ UNCHANGED <<case, export, cleanup, tools>>
    \/ case = "tools" /\ Tools!Next /\ UNCHANGED <<case, export, cleanup, delivery>>
    \/ case = "connected" /\ Connected!Next /\ UNCHANGED <<case, export, cleanup, delivery>>

Spec == Init /\ [][Next]_vars
=============================================================================
