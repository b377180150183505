-------------------------- MODULE StructuredCompletion --------------------------
(***************************************************************************)
(* The structured completion of one Attempt (harnesses/control):           *)
(* qe_complete_step reaches the control authority through a bound context, *)
(* is accepted durably, and is exported, verified and published by an      *)
(* operation that runs on after the answer.  Contexts rotate underneath    *)
(* it, the client retries on the refreshed descriptor, writes fail and     *)
(* the Worker restarts between any two of its steps.                       *)
(*                                                                         *)
(* The result directory and the completion state file survive a restart.   *)
(* Outputs are opaque: a submission either matches its declarations or not.*)
(***************************************************************************)
EXTENDS Naturals

CONSTANTS
  MaxBinds,              \* bound: control contexts bound for the Attempt
  MaxRestarts,           \* bound: Worker restarts
  MaxStopEnforcements    \* stops refused before the contract is violated

CompletionAssumption ==
  MaxBinds \in Nat \ {0} /\ MaxRestarts \in Nat /\ MaxStopEnforcements \in Nat

VARIABLES
  token,        \* current context of the lineage, 0 when none
  binding,      \* bind in progress: no, reading, or the state file it has read
  binds,        \* contexts bound so far
  ctx,          \* the contexts, the invalidated ones included
  file,         \* structured-completion-state.json: its phase, or none
  results,      \* result-*.json files in the result directory
  publisher,    \* the context that published last
  running,      \* dispatch accepted or running, lineage still on this action
  restarts

vars == <<token, binding, binds, ctx, file, results, publisher, running, restarts>>

Contexts == 1..MaxBinds

Fresh(phase) ==
  [phase |-> phase, op |-> "idle", failure |-> "none", stops |-> 0,
   violated |-> FALSE]

Init ==
  /\ token = 0 /\ binding = "no" /\ binds = 0
  /\ ctx = [c \in Contexts |-> Fresh("awaiting_result")]
  /\ file = "none" /\ results = 0 /\ publisher = 0
  /\ running = TRUE /\ restarts = 0

(* assertCurrent *)
assertCurrent(c) == token = c /\ running

(* Operations of a context run one at a time (operationTail); the export    *)
(* outlives the operation that started it.                                  *)
Idle(c) == ctx[c].op # "writing"
-----------------------------------------------------------------------------
(* bind: the previous context is invalidated before anything is read. *)
Bind ==
  /\ running /\ binding = "no" /\ binds < MaxBinds
  /\ token' = 0 /\ binding' = "reading"
  /\ UNCHANGED <<binds, ctx, file, results, publisher, running, restarts>>

readStructuredCompletionState ==
  /\ binding = "reading" /\ binding' = file
  /\ UNCHANGED <<token, binds, ctx, file, results, publisher, running, restarts>>

(* A published result is a completion whatever the state file says; an      *)
(* export that was under way without one has failed.                        *)
BoundPhase ==
  IF results > 0 THEN "completed"
  ELSE IF binding \in {"exporting", "completed"} THEN "failed"
  ELSE IF binding = "none" THEN "awaiting_result" ELSE binding

Bound ==
  /\ binding \notin {"no", "reading"} /\ binding' = "no"
  /\ binds' = binds + 1 /\ token' = binds + 1
  /\ ctx' = [ctx EXCEPT ![binds + 1] = Fresh(BoundPhase)]
  /\ file' = IF BoundPhase = "failed" THEN "failed" ELSE file
  /\ UNCHANGED <<results, publisher, running, restarts>>

Invalidate ==
  /\ token # 0 /\ token' = 0
  /\ UNCHANGED <<binding, binds, ctx, file, results, publisher, running, restarts>>
-----------------------------------------------------------------------------
(* complete, accepted: the phase moves at once, its record is being written.*)
complete(c) ==
  /\ assertCurrent(c) /\ Idle(c)
  /\ ctx[c].phase = "awaiting_result" /\ results = 0
  /\ ctx' = [ctx EXCEPT ![c].phase = "exporting", ![c].failure = "none",
                        ![c].op = "writing"]
  /\ UNCHANGED <<token, binding, binds, file, results, publisher, running, restarts>>

(* validateOutputs refuses, or the native side reports its own failure *)
Rejected(c) ==
  /\ assertCurrent(c) /\ Idle(c)
  /\ ctx' = [ctx EXCEPT ![c].failure = "reported"]
  /\ UNCHANGED <<token, binding, binds, file, results, publisher, running, restarts>>

(* writeStructuredCompletionState: the rename happened, or it failed and    *)
(* the submission is forgotten.                                             *)
Written(c) ==
  /\ ctx[c].op = "writing"
  /\ \/ /\ file' = "exporting"
        /\ ctx' = [ctx EXCEPT
             ![c] = IF assertCurrent(c)
                    THEN [@ EXCEPT !.op = "verifying"]
                    ELSE [@ EXCEPT !.op = "failing", !.phase = "failed"]]
     \/ /\ ctx' = [ctx EXCEPT ![c].phase = "awaiting_result", ![c].op = "idle",
                              ![c].failure = "reported"]
        /\ UNCHANGED file
  /\ UNCHANGED <<token, binding, binds, results, publisher, running, restarts>>

Failing(c) ==
  ctx' = [ctx EXCEPT ![c].phase = "failed", ![c].op = "failing",
                     ![c].failure = "reported"]

(* finishCompletion: verifyAndPrepare returned or threw *)
Verified(c) ==
  /\ ctx[c].op = "verifying"
  /\ \/ assertCurrent(c) /\ ctx' = [ctx EXCEPT ![c].op = "preparing"]
     \/ Failing(c)
  /\ UNCHANGED <<token, binding, binds, file, results, publisher, running, restarts>>

(* Mutant: a prepared result is published without a last assertCurrent. *)
Publish_unfenced(c) ==
  /\ ctx[c].op = "preparing"
  /\ results' = results + 1 /\ publisher' = c
  /\ ctx' = [ctx EXCEPT ![c].phase = "completed", ![c].op = "recording"]
  /\ UNCHANGED <<token, binding, binds, file, running, restarts>>

(* The temporary file is there; commit and the rename that publishes it are *)
(* synchronous with the last assertCurrent.                                 *)
Publish(c) ==
  /\ ctx[c].op = "preparing"
  /\ \/ /\ assertCurrent(c)
        /\ results' = results + 1 /\ publisher' = c
        /\ ctx' = [ctx EXCEPT ![c].phase = "completed", ![c].op = "recording"]
     \/ Failing(c) /\ UNCHANGED <<results, publisher>>
  /\ UNCHANGED <<token, binding, binds, file, running, restarts>>

(* The closing record, of the completion or of its failure, may be lost. *)
Recorded(c) ==
  /\ \/ ctx[c].op = "recording"
        /\ \/ file' = "completed" /\ ctx' = [ctx EXCEPT ![c].op = "idle"]
           \/ Failing(c) /\ UNCHANGED file
     \/ ctx[c].op = "failing"
        /\ file' \in {"failed", file} /\ ctx' = [ctx EXCEPT ![c].op = "idle"]
  /\ UNCHANGED <<token, binding, binds, results, publisher, running, restarts>>

(* completion_status, also the client's answer to a lost response *)
completionStatus(c) ==
  /\ assertCurrent(c) /\ Idle(c) /\ results > 0
  /\ ctx' = [ctx EXCEPT ![c].phase = "completed"]
  /\ UNCHANGED <<token, binding, binds, file, results, publisher, running, restarts>>

(* nativeStop: allowed with a result or an export; a stop with a reported   *)
(* failure is continued; one that just omits completion is continued until  *)
(* the enforcement budget is spent.                                         *)
nativeStop(c) ==
  /\ assertCurrent(c) /\ Idle(c)
  /\ results = 0 /\ ctx[c].phase \notin {"exporting", "failed"}
  /\ ctx[c].failure = "none" /\ ctx[c].stops <= MaxStopEnforcements
  /\ ctx' = [ctx EXCEPT ![c].stops = @ + 1,
                        ![c].violated = ctx[c].stops + 1 > MaxStopEnforcements]
  /\ UNCHANGED <<token, binding, binds, file, results, publisher, running, restarts>>

(* The executor settles the dispatch. *)
Settle ==
  /\ running /\ running' = FALSE
  /\ UNCHANGED <<token, binding, binds, ctx, file, results, publisher, restarts>>

(* The Worker restarts; operations of the old process end where they are. *)
Restart ==
  /\ restarts < MaxRestarts /\ restarts' = restarts + 1
  /\ token' = 0 /\ binding' = "no"
  /\ ctx' = [c \in Contexts |-> [ctx[c] EXCEPT !.op = "idle"]]
  /\ UNCHANGED <<binds, file, results, publisher, running>>
-----------------------------------------------------------------------------
Next ==
  \/ Bind \/ readStructuredCompletionState \/ Bound \/ Invalidate
  \/ Settle \/ Restart
  \/ \E c \in Contexts :
       \/ complete(c) \/ Rejected(c) \/ Written(c) \/ Verified(c) \/ Publish(c)
       \/ Recorded(c) \/ completionStatus(c) \/ nativeStop(c)

Spec == Init /\ [][Next]_vars
-----------------------------------------------------------------------------
(* collectStepResult takes exactly one result: however contexts rotate,     *)
(* clients retry, writes fail and the Worker restarts, an Attempt publishes *)
(* at most one, and never behind the back of a context bound since, which   *)
(* may already have answered that the completion failed.                    *)
OneResultPerAttempt ==
  /\ results <= 1
  /\ publisher # 0 /\ token \notin {0, publisher} => ctx[token].phase = "completed"
=============================================================================
