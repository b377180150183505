------------------------------ MODULE Workspace ------------------------------
(***************************************************************************)
(* What a Worker does with the workspace of a Run: the exports of verified  *)
(* work into it (RunExport), the tools that write in it                     *)
(* (WorkspaceToolBroker), its delivery (RunDelivery) and its cleanup        *)
(* (RunCleanup), side by side with the variables and constants of each.     *)
(* They share no state that any of them models.                             *)
(***************************************************************************)

CONSTANTS
    None,
    \* RunExport
    Lineages, MaxActions, MaxEdits, MaxIncarnations, MaxRestarts,
    \* RunCleanup
    Calls, MaxCommands, MaxStarts,
    \* RunDelivery
    Contents, Base, Jobs, MaxChanges,
    \* WorkspaceToolBroker
    Sessions, Requests, Mutations, MaxActive, MaxGenerations, Streamed

VARIABLES
    \* RunExport
    incarnation, up, repo, work, exec, order, active, op, fixture, hostHead, hostTree,
    actions, edits, restarts,
    \* RunCleanup
    local, harness, env, intent, directory, dirty, wt, based, cl, pass, call, sourceQueue,
    runQueue, commands, starts,
    \* RunDelivery
    row, desk, jobs, inbox, workspace, remote, review, quest, reported, changes,
    \* WorkspaceToolBroker
    session, owner, record, bound, live, client, admitting, replacing, user, step, queue,
    cancels, applied, denied, current, generation, since

Export == INSTANCE RunExport

Cleanup == INSTANCE RunCleanup WITH
    repo <- directory, restarts <- starts, MaxRestarts <- MaxStarts

Delivery == INSTANCE RunDelivery

Tools == INSTANCE WorkspaceToolBroker

(* Work that the Worker reported as completed is never lost                  *)
(* (RunExport.VerifiedWorkIsKept).                                           *)
VerifiedWorkIsKept == Export!VerifiedWorkIsKept

(* The host repository is the last resource of a Run to go                   *)
(* (RunCleanup.RepositoryGoesLast).                                          *)
RepositoryGoesLast == Cleanup!RepositoryGoesLast

(* A Quest is completed only by a revision the Worker published              *)
(* (RunDelivery.CompletedWorkWasPublished).                                  *)
CompletedWorkWasPublished == Delivery!CompletedWorkWasPublished

(* What the store says of a mutation is true                                 *)
(* (WorkspaceToolBroker.MutationsAreAccountedFor).                           *)
MutationsAreAccountedFor == Tools!MutationsAreAccountedFor
=============================================================================
