---------------------------- MODULE ControlPlane ----------------------------
(***************************************************************************)
(* The PostgreSQL authority of the server for one launched Run: the         *)
(* Runtime snapshot, the scheduled executions, the dispatches to the Worker  *)
(* that owns the Run's worktree, the recovery epochs, and the connection     *)
(* row of that Worker.  Every action is one database transaction; a          *)
(* transaction the code rolls back changes nothing and is not a step.        *)
(*                                                                          *)
(* Worker facts arrive through channel processes, several of which may be    *)
(* alive at once: each carries the connection generation its channel was     *)
(* given at registration, may be late, repeated, or contradict an earlier    *)
(* one.  Nothing is assumed here about the Worker that sends them.           *)
(*                                                                          *)
(* `db` holds what a reconciliation may change, so that its handlers are     *)
(* operators from database to database.                                      *)
(***************************************************************************)
EXTENDS Naturals, FiniteSets, WorkerRow

CONSTANTS
    Occurrence,      \* step occurrences of the Run
    NoOccurrence,    \* "no source occurrence"
    Needs,           \* for each occurrence, those that complete before it starts
    ContinueFrom,    \* the occurrence whose logical context it continues, or NoOccurrence
    Allowance,       \* max_operational_attempts_per_epoch
    Capacity,        \* max_concurrency of the Worker
    Members,         \* number of Members of the Class, in Squad order
    MaxAttempts,     \* bound: attempts of one occurrence
    FailureFacts,    \* bound: the failures the Worker reports
    UncertainFacts   \* bound: the uncertainties the Worker reports

ASSUME ControlPlaneAssumption ==
    /\ IsFiniteSet(Occurrence) /\ NoOccurrence \notin Occurrence
    /\ Needs \in [Occurrence -> SUBSET Occurrence]
    /\ ContinueFrom \in [Occurrence -> Occurrence \cup {NoOccurrence}]
    /\ {Allowance, Capacity, Members, MaxAttempts, MaxGeneration} \subseteq Nat \ {0}
    /\ FailureFacts \subseteq
          {"auto_retryable", "operator_recovery_required", "terminal_not_recoverable"}
    /\ UncertainFacts \subseteq {"observation_timeout", "contract_violation", "unknown"}

Action == Occurrence \X (1 .. MaxAttempts)

VARIABLES
    db,              \* run, occ, attempts: the Runtime snapshot
                     \* state, failure, cancel, seen: worker_dispatches rows
                     \* sched: scheduled_action_executions.state
                     \* active: workers.active_dispatches
    slot,            \* worker_dispatches.worker_slot
    member,          \* occurrence_member_bindings, 0 for none
    lineage,         \* occurrence_context_bindings, NoOccurrence for none
    epoch,           \* the latest operational recovery epoch of an occurrence
    epochOf,         \* operational_attempt_attributions.epoch, by action
    inEpoch,         \* attempt_in_epoch, 0 before the attempt is attributed
    recovery         \* operational_recovery_request_id is set

scheduleVars == <<slot, member, lineage, epochOf, inEpoch>>
vars == <<db, workerVars, scheduleVars, epoch, recovery>>

RunStatus        == {"running", "completed", "failed"}
OccurrenceStatus == {"pending", "dispatched", "completed", "failed"}
ReservedStates   == {"claimed", "dispatched", "acknowledged", "running", "uncertain"}
ActiveStates     == {"acknowledged", "running", "uncertain"}
CancellableStates == {"acknowledged", "running"}
DispatchState    == ReservedStates \cup {"none", "completed", "failed"}
ScheduleState    == {"none", "active", "completed", "failed"}

(* Classifications of a failed execution, and what is told of an uncertain   *)
(* one: a timeout of an observation (which a later running fact undoes), a    *)
(* harness contract violation (which a fresh recovery may retire), others.    *)
WorkerFailures  == {"auto_retryable", "operator_recovery_required", "terminal_not_recoverable"}
Uncertainties   == {"observation_timeout", "contract_violation", "unknown"}
OperatorFailures == {"operator_retry_requested", "operator_marked_failed"}
Failure == {"none", "cancelled"} \cup WorkerFailures \cup Uncertainties \cup OperatorFailures

----------------------------------------------------------------------------
(* The Runtime of the Run, as far as the server depends on it (Runtime).     *)

(* Mutant: the terminal Run is not refused.                                 *)
runtime_accepts_ended(d, a) == d.occ[a[1]] = "dispatched" /\ d.attempts[a[1]] = a[2]

runtime_accepts(d, a) ==
    d.run = "running" /\ d.occ[a[1]] = "dispatched" /\ d.attempts[a[1]] = a[2]

Completed(occ) == {o \in Occurrence : occ[o] = "completed"}

(* step_completed: what is now runnable is dispatched, or the Run is over     *)
step_completed(d, a, exhausted) ==
    LET occ   == [d.occ EXCEPT ![a[1]] = "completed"]
        start == {o \in Occurrence : occ[o] = "pending" /\ Needs[o] \subseteq Completed(occ)}
    IN  IF exhausted THEN [d EXCEPT !.run = "failed", !.occ = occ]
        ELSE IF Completed(occ) = Occurrence THEN [d EXCEPT !.run = "completed", !.occ = occ]
        ELSE [d EXCEPT
                !.occ = [o \in Occurrence |-> IF o \in start THEN "dispatched" ELSE occ[o]],
                !.attempts = [o \in Occurrence |-> IF o \in start THEN 1 ELSE d.attempts[o]]]

(* step_retry_requested and step_recovery_requested                          *)
step_retried(d, a) == [d EXCEPT !.attempts[a[1]] = a[2] + 1]

step_failed(d, a) == [d EXCEPT !.run = "failed", !.occ[a[1]] = "failed"]

----------------------------------------------------------------------------
(* DispatchStore.                                                            *)

(* update_active_dispatches!                                                 *)
Occupying(d) == {a \in Action : d.state[a] \in ActiveStates /\ d.sched[a] = "active"}
update_active_dispatches(d) == [d EXCEPT !.active = Cardinality(Occupying(d))]

(* a dispatch row changed by a fact of connection generation g               *)
Row(d, a, state, failure, g) ==
    [d EXCEPT !.state[a] = state, !.failure[a] = failure, !.seen[a] = g]

(* Mutant: the schedule outlives the execution.                             *)
mark_scheduled_never(d, a, state) == [d EXCEPT !.sched[a] = @]

mark_scheduled_terminal(d, a, state) ==
    [d EXCEPT !.sched[a] = IF @ = "active" THEN state ELSE @]

acknowledge(d, a, g) ==
    IF d.state[a] \in {"claimed", "dispatched"}
    THEN update_active_dispatches(Row(d, a, "acknowledged", d.failure[a], g))
    ELSE update_active_dispatches(d)

mark_running(d, a, g) ==
    IF \/ d.state[a] \in {"completed", "failed"}
       \/ d.state[a] = "uncertain" /\ d.failure[a] # "observation_timeout"
    THEN update_active_dispatches(d)
    ELSE update_active_dispatches(Row(d, a, "running", d.failure[a], g))

(* Mutant: a completion that races a requested cancellation is accepted.    *)
can_mark_completed_always(d, a) == d.state[a] # "failed"

can_mark_completed(d, a) == d.cancel[a] = 0 /\ d.state[a] # "failed"

mark_completed(d, a, g) ==
    update_active_dispatches(
        mark_scheduled_terminal(Row(d, a, "completed", d.failure[a], g), a, "completed"))

(* validate_failure_authority! and the conflicts of terminal facts           *)
can_mark_failed(d, a, f) ==
    /\ (f = "cancelled") <=> (d.cancel[a] # 0)
    /\ d.state[a] # "completed"
    /\ d.state[a] = "failed" => d.failure[a] = f

mark_failed(d, a, f, g) ==
    IF d.state[a] = "failed" THEN update_active_dispatches(d)
    ELSE update_active_dispatches(
            mark_scheduled_terminal(Row(d, a, "failed", f, g), a, "failed"))

can_mark_uncertain(d, a, f) ==
    \/ d.state[a] \in {"completed", "failed"}
    \/ /\ d.cancel[a] = 0
       /\ d.state[a] = "uncertain" => d.failure[a] = f

mark_uncertain(d, a, f, g) ==
    IF d.state[a] \in {"completed", "failed", "uncertain"} THEN update_active_dispatches(d)
    ELSE update_active_dispatches(Row(d, a, "uncertain", f, g))

resolve_uncertain(d, a, f) ==
    update_active_dispatches(
        mark_scheduled_terminal(Row(d, a, "failed", f, d.seen[a]), a, "failed"))

----------------------------------------------------------------------------
(* Facts of the Worker, whole: the Runtime transition and the dispatch row   *)
(* change together or not at all.  A transition id already applied replays.  *)

(* CompletionAdapter.complete                                                *)
can_complete(d, a) ==
    /\ can_mark_completed(d, a)
    /\ d.state[a] = "completed" \/ runtime_accepts(d, a)

complete(d, a, g, exhausted) ==
    mark_completed(IF d.state[a] = "completed" THEN d ELSE step_completed(d, a, exhausted), a, g)

(* Mutants: one attempt too many, or a retry of every failure.              *)
automatic_retry_once_more(a, f) == f = "auto_retryable" /\ inEpoch[a] <= Allowance
automatic_retry_any(a, f) == inEpoch[a] < Allowance

(* OperationalRecovery.failure_policy: is there an automatic retry?          *)
automatic_retry(a, f) == f = "auto_retryable" /\ inEpoch[a] < Allowance

(* OperationalFailure.record                                                 *)
can_record(d, a, f) ==
    /\ can_mark_failed(d, a, f)
    /\ automatic_retry(a, f) /\ d.state[a] # "failed" =>
          runtime_accepts(d, a) /\ a[2] < MaxAttempts

record(d, a, f, g) ==
    IF automatic_retry(a, f) /\ d.state[a] # "failed"
    THEN step_retried(mark_failed(d, a, f, g), a)
    ELSE mark_failed(d, a, f, g)

(* CancellationAdapter.cancel: c is the generation the Worker cancelled in   *)
can_cancel(d, a, g, c) ==
    /\ d.cancel[a] # 0 /\ d.cancel[a] <= c /\ c <= g
    /\ can_mark_failed(d, a, "cancelled")
    /\ d.state[a] = "failed" \/ runtime_accepts(d, a)

cancel(d, a, g) ==
    mark_failed(IF d.state[a] = "failed" THEN d ELSE step_failed(d, a), a, "cancelled", g)

----------------------------------------------------------------------------
Init ==
    /\ db = [run      |-> "running",
             occ      |-> [o \in Occurrence |->
                             IF Needs[o] = {} THEN "dispatched" ELSE "pending"],
             attempts |-> [o \in Occurrence |-> IF Needs[o] = {} THEN 1 ELSE 0],
             state    |-> [a \in Action |-> "none"],
             failure  |-> [a \in Action |-> "none"],
             cancel   |-> [a \in Action |-> 0],
             seen     |-> [a \in Action |-> 0],
             sched    |-> [a \in Action |-> "none"],
             active   |-> 0]
    /\ RowInit
    /\ slot = [a \in Action |-> 0]
    /\ member = [o \in Occurrence |-> 0]
    /\ lineage = [o \in Occurrence |-> NoOccurrence]
    /\ epoch = [o \in Occurrence |-> 0]
    /\ epochOf = [a \in Action |-> 0]
    /\ inEpoch = [a \in Action |-> 0]
    /\ recovery = [a \in Action |-> FALSE]

----------------------------------------------------------------------------
(* The connection row of the Worker changes on its own (WorkerRow).          *)
Connection == RowNext /\ UNCHANGED <<db, scheduleVars, epoch, recovery>>

----------------------------------------------------------------------------
(* Scheduling (SchedulingStore).                                             *)

Active == {a \in Action : db.sched[a] = "active"}

(* unscheduled_actions: emitted by the Runtime, no scheduled execution yet.  *)
(* The code scans them in emission order, skips those that must wait and     *)
(* commits the first that can be scheduled; here any of these may be taken.  *)
Unscheduled == {a \in Action : a[2] <= db.attempts[a[1]] /\ db.sched[a] = "none"}

Least(S) == CHOOSE x \in S : \A y \in S : x <= y

(* Mutant: slots counted from one.                                          *)
free_slots_from_one ==
    (1 .. Capacity) \ {slot[a] : a \in {b \in Active : db.state[b] \in ReservedStates}}

free_slots ==
    (0 .. Capacity - 1) \
        {slot[a] : a \in {b \in Active : db.state[b] \in ReservedStates}}

(* Mutant: a claim that the Worker has not accepted yet occupies nobody.    *)
member_occupied_accepted ==
    {member[a[1]] : a \in {b \in Active : db.state[b] \in ActiveStates}}

member_occupied == {member[a[1]] : a \in Active}

resolve_member(o) ==
    (IF member[o] # 0 THEN {member[o]} ELSE 1 .. Members) \ member_occupied

resolve_context(o) ==
    CASE lineage[o] # NoOccurrence -> lineage[o]
      [] ContinueFrom[o] = NoOccurrence -> o
      [] OTHER -> lineage[ContinueFrom[o]]

available_context(o) ==
    /\ resolve_context(o) # NoOccurrence
    /\ \A a \in Active : lineage[a[1]] # resolve_context(o)

(* Mutant: only a source that still runs is found.                          *)
continuation_worker_active(o) ==
    ContinueFrom[o] # NoOccurrence =>
        Cardinality({a \in Action : a[1] = ContinueFrom[o] /\ db.sched[a] = "active"}) = 1

(* Repo.one over the scheduled executions of the source: it raises on two    *)
continuation_worker(o) ==
    ContinueFrom[o] # NoOccurrence =>
        Cardinality({a \in Action : a[1] = ContinueFrom[o] /\ db.sched[a] # "none"}) = 1

(* attempt_in_epoch of the next attempt attributed to the current epoch      *)
attempt_in_epoch(o) ==
    Cardinality({a \in Action : a[1] = o /\ inEpoch[a] # 0 /\ epochOf[a] = epoch[o]}) + 1

(* schedule_locked and persist_acquisition!.  Nothing looks at the status of *)
(* the Run: the actions of a Run that has ended are still claimed.           *)
Schedule(a) ==
    LET o == a[1]
    IN  /\ a \in Unscheduled
        /\ connected /\ ready = generation
        /\ resolve_member(o) # {}
        /\ available_context(o)
        /\ continuation_worker(o)
        /\ free_slots # {}
        /\ attempt_in_epoch(o) <= Allowance
        /\ member' = [member EXCEPT ![o] = Least(resolve_member(o))]
        /\ lineage' = [lineage EXCEPT ![o] = resolve_context(o)]
        /\ epochOf' = [epochOf EXCEPT ![a] = epoch[o]]
        /\ inEpoch' = [inEpoch EXCEPT ![a] = attempt_in_epoch(o)]
        /\ slot' = [slot EXCEPT ![a] = Least(free_slots)]
        /\ db' = [db EXCEPT !.sched[a] = "active", !.state[a] = "claimed"]
        /\ UNCHANGED <<workerVars, epoch, recovery>>

(* Dispatcher.deliver and redeliver: after the send, mark_dispatched         *)
MarkDispatched(a, g) ==
    /\ FromWorker(g)
    /\ db.state[a] \in {"claimed", "dispatched"}
    /\ db' = Row(db, a, "dispatched", db.failure[a], g)
    /\ UNCHANGED <<workerVars, scheduleVars, epoch, recovery>>

----------------------------------------------------------------------------
(* Worker facts (WorkerMessageHandler).  A fact of a generation that is not  *)
(* current, of an unknown dispatch, or that conflicts is refused.            *)

Fact(a, g) ==
    /\ FromWorker(g) /\ db.state[a] # "none"
    /\ UNCHANGED <<workerVars, scheduleVars, epoch, recovery>>

Accepted(a, g)     == Fact(a, g) /\ db' = acknowledge(db, a, g)
Running(a, g)      == Fact(a, g) /\ db' = mark_running(db, a, g)
CompletedFact(a, g, exhausted) ==
    Fact(a, g) /\ can_complete(db, a) /\ db' = complete(db, a, g, exhausted)
FailedFact(a, g, f) == Fact(a, g) /\ can_record(db, a, f) /\ db' = record(db, a, f, g)
CancelledFact(a, g, c) == Fact(a, g) /\ can_cancel(db, a, g, c) /\ db' = cancel(db, a, g)
UncertainFact(a, g, f) ==
    Fact(a, g) /\ can_mark_uncertain(db, a, f) /\ db' = mark_uncertain(db, a, f, g)

----------------------------------------------------------------------------
(* Decisions of the operator.                                                *)

(* the latest scheduled execution of an occurrence                           *)
LatestScheduled(a) ==
    /\ db.sched[a] # "none"
    /\ \A b \in Action : b[1] = a[1] /\ db.sched[b] # "none" => b[2] <= a[2]

(* ExecutionCancellation.request: intent only, and only once                 *)
RequestCancellation(a) ==
    /\ LatestScheduled(a)
    /\ db.state[a] \in CancellableStates /\ db.cancel[a] = 0
    /\ db' = [db EXCEPT !.cancel[a] = db.seen[a]]
    /\ UNCHANGED <<workerVars, scheduleVars, epoch, recovery>>

(* ExecutionRecovery: lock_uncertain! takes the first uncertain dispatch of   *)
(* the occurrence that an unordered query returns                            *)
lock_uncertain(o) == {a \in Action : a[1] = o /\ db.state[a] = "uncertain"}

ResolveRetry(o) ==
    \E a \in lock_uncertain(o) :
        /\ inEpoch[a] < Allowance
        /\ runtime_accepts(db, a) /\ a[2] < MaxAttempts
        /\ db' = step_retried(resolve_uncertain(db, a, "operator_retry_requested"), a)
        /\ UNCHANGED <<workerVars, scheduleVars, epoch, recovery>>

ResolveMarkFailed(o) ==
    \E a \in lock_uncertain(o) :
        /\ runtime_accepts(db, a)
        /\ db' = resolve_uncertain(step_failed(db, a), a, "operator_marked_failed")
        /\ UNCHANGED <<workerVars, scheduleVars, epoch, recovery>>

(* OperationalRecovery.request_fresh of an attempt that is still live: the    *)
(* intent is kept until the Worker has retired it                            *)
RequestFreshRecovery(a) ==
    /\ LatestScheduled(a)
    /\ db.state[a] \in ReservedStates \ {"uncertain"}
    /\ recovery' = [recovery EXCEPT ![a] = TRUE]
    /\ UNCHANGED <<db, workerVars, scheduleVars, epoch>>

(* validate_source!                                                          *)
retained_work_recovery(a, fresh) ==
    fresh /\ db.state[a] = "uncertain" /\ db.failure[a] = "contract_violation"

validate_source(a, fresh) ==
    \/ retained_work_recovery(a, fresh)
    \/ /\ db.state[a] = "failed" /\ db.sched[a] = "failed"
       /\ db.failure[a] \notin {"terminal_not_recoverable", "cancelled"}

(* Mutant: the occupancy is not refreshed.                                  *)
retire_uncertain_quietly(d, a) ==
    IF d.state[a] = "uncertain" /\ d.sched[a] = "active"
    THEN [d EXCEPT !.sched[a] = "failed"] ELSE d

(* retire_uncertain_schedule!: the slot is released and the schedule fails,  *)
(* the dispatch stays uncertain                                              *)
retire_uncertain_schedule(d, a) ==
    IF d.state[a] = "uncertain" /\ d.sched[a] = "active"
    THEN update_active_dispatches([d EXCEPT !.sched[a] = "failed"])
    ELSE d

(* OperationalRecovery.authorize: a human epoch and one more attempt         *)
Authorize(a, fresh) ==
    /\ LatestScheduled(a)
    /\ validate_source(a, fresh)
    /\ runtime_accepts(db, a) /\ a[2] < MaxAttempts
    /\ db' = step_retried(retire_uncertain_schedule(db, a), a)
    /\ epoch' = [epoch EXCEPT ![a[1]] = @ + 1]
    /\ UNCHANGED <<workerVars, scheduleVars, recovery>>

(* finalize_requested, a transaction of its own after the one that recorded  *)
(* the failure; the occurrence may have moved on in between                  *)
FinalizeRequested(a, b) ==
    /\ db.state[a] = "failed" /\ recovery[a]
    /\ a[1] = b[1] /\ Authorize(b, TRUE)

Next ==
    \/ Connection
    \/ \E a \in Action : Schedule(a)
    \/ \E a \in Action, g \in Generations : MarkDispatched(a, g)
    \/ \E a \in Action, g \in Generations : Accepted(a, g)
    \/ \E a \in Action, g \in Generations : Running(a, g)
    \/ \E a \in Action, g \in Generations, x \in BOOLEAN : CompletedFact(a, g, x)
    \/ \E a \in Action, g \in Generations, f \in FailureFacts : FailedFact(a, g, f)
    \/ \E a \in Action, g, c \in Generations : CancelledFact(a, g, c)
    \/ \E a \in Action, g \in Generations, f \in UncertainFacts : UncertainFact(a, g, f)
    \/ \E a \in Action : RequestCancellation(a)
    \/ \E o \in Occurrence : ResolveRetry(o)
    \/ \E o \in Occurrence : ResolveMarkFailed(o)
    \/ \E a \in Action : RequestFreshRecovery(a)
    \/ \E a \in Action, fresh \in BOOLEAN : Authorize(a, fresh)
    \/ \E a, b \in Action : FinalizeRequested(a, b)

Spec == Init /\ [][Next]_vars

----------------------------------------------------------------------------
(* Properties.                                                               *)

Database ==
    [run : RunStatus, occ : [Occurrence -> OccurrenceStatus],
     attempts : [Occurrence -> 0 .. MaxAttempts],
     state : [Action -> DispatchState], failure : [Action -> Failure],
     cancel : [Action -> 0 .. MaxGeneration], seen : [Action -> 0 .. MaxGeneration],
     sched : [Action -> ScheduleState], active : Nat]

(* The rows hold values of the code's enumerations.                          *)
TypeOK ==
    /\ db \in Database
    /\ generation \in 0 .. MaxGeneration /\ ready \in 0 .. MaxGeneration
    /\ connected \in BOOLEAN /\ channels \in SUBSET Generations
    /\ slot \in [Action -> 0 .. Capacity - 1]
    /\ member \in [Occurrence -> 0 .. Members]
    /\ lineage \in [Occurrence -> Occurrence \cup {NoOccurrence}]
    /\ epoch \in [Occurrence -> Nat] /\ epochOf \in [Action -> Nat]
    /\ inEpoch \in [Action -> 0 .. Allowance]
    /\ recovery \in [Action -> BOOLEAN]

(* An occurrence has at most one attempt that holds resources, its current   *)
(* one, and the schedule of every earlier attempt has failed: whoever asks   *)
(* for another attempt - the failure policy, an operator, a recovery - ends  *)
(* the one before in the same transaction.                                   *)
OneLiveAttempt ==
    \A a \in Action :
        /\ db.sched[a] = "active" => a[2] = db.attempts[a[1]]
        /\ a[2] < db.attempts[a[1]] => db.sched[a] = "failed"

(* The three records of an execution agree, whatever facts arrive in which   *)
(* order: a schedule is held exactly while its dispatch is not terminal,     *)
(* except for an uncertain one that a fresh recovery retired; a dispatch is  *)
(* completed exactly when its schedule is, and only as the attempt with      *)
(* which its occurrence completed in the Runtime.                            *)
StoresAgree ==
    \A a \in Action :
        /\ db.sched[a] = "none" <=> db.state[a] = "none"
        /\ db.sched[a] = "active" => db.state[a] \in ReservedStates
        /\ db.sched[a] = "failed" =>
              \/ db.state[a] = "failed"
              \/ db.state[a] = "uncertain" /\ a[2] < db.attempts[a[1]]
        /\ db.sched[a] = "completed" <=> db.state[a] = "completed"
        /\ db.state[a] = "completed" =>
              db.occ[a[1]] = "completed" /\ a[2] = db.attempts[a[1]]
        /\ db.occ[a[1]] = "completed" /\ a[2] = db.attempts[a[1]] => db.state[a] = "completed"

(* Once a cancellation is requested the execution can only end as cancelled  *)
(* - never completed, failed otherwise, or uncertain - it is cancelled only  *)
(* on request, and then its occurrence and the Run have failed: a completion *)
(* that races the request is refused.                                        *)
CancellationIsFinal ==
    \A a \in Action :
        /\ db.cancel[a] # 0 =>
              \/ db.state[a] \in CancellableStates
              \/ db.state[a] = "failed" /\ db.failure[a] = "cancelled"
        /\ db.state[a] = "failed" /\ db.failure[a] = "cancelled" =>
              /\ db.cancel[a] # 0
              /\ db.occ[a[1]] = "failed" /\ db.run = "failed"

(* Executions that hold resources hold different Worker slots, different     *)
(* Members and different logical contexts, and an uncertain one keeps them   *)
(* through disconnects and registrations.                                    *)
ResourcesAreExclusive ==
    \A a, b \in Active : a # b =>
        /\ slot[a] # slot[b]
        /\ member[a[1]] # member[b[1]]
        /\ lineage[a[1]] # lineage[b[1]]

(* No recovery epoch of an occurrence is charged more attempts than its      *)
(* allowance, and an attempt the Runtime has emitted is never stuck because  *)
(* the allowance is spent: a retry is granted only if it can be scheduled.   *)
AllowanceHolds ==
    \A o \in Occurrence :
        /\ \A a \in Action : a[1] = o /\ inEpoch[a] # 0 =>
              Cardinality({b \in Action : b[1] = o /\ inEpoch[b] # 0 /\ epochOf[b] = epochOf[a]})
                  <= Allowance
        /\ (\E a \in Unscheduled : a[1] = o) => attempt_in_epoch(o) <= Allowance

(* The cached occupancy by which Run worktrees are placed on Workers is the  *)
(* number of executions that occupy the Worker: no transaction that starts   *)
(* or ends one forgets to refresh it.                                        *)
OccupancyIsCurrent == db.active = Cardinality(Occupying(db))

(* What a dispatch ended with is final, and the connection generation that   *)
(* last spoke for it never goes back: a late fact of an earlier connection   *)
(* never changes a row.                                                      *)
FactsAreFenced ==
    [][\A a \in Action :
         /\ db'.seen[a] >= db.seen[a]
         /\ db.state[a] \in {"completed", "failed"} =>
               db'.state[a] = db.state[a] /\ db'.failure[a] = db.failure[a]]_vars

(* An execution that may still be going on is never duplicated without the   *)
(* operator: another attempt follows an automatically retryable failure the  *)
(* Worker reported within the allowance, the operator's own resolution, or a *)
(* new human recovery epoch; only such an epoch leaves its source uncertain. *)
NeverDuplicatedAutomatically ==
    [][\A a \in Action :
         db.attempts[a[1]] = a[2] /\ db'.attempts[a[1]] # a[2] =>
            /\ db'.attempts[a[1]] = a[2] + 1
            /\ \/ /\ db'.state[a] = "failed"
                  /\ db'.failure[a] \in {"auto_retryable", "operator_retry_requested"}
                  /\ inEpoch[a] < Allowance
               \/ /\ epoch'[a[1]] = epoch[a[1]] + 1
                  /\ db'.state[a] = "failed" \/ db'.failure[a] = "contract_violation"]_vars

(* The source of a continuation has one scheduled execution when the         *)
(* continuation is scheduled, so that it can be routed to the Worker that    *)
(* owns the source lineage (continuation_worker uses Repo.one).              *)
ContinuationsAreRoutable ==
    \A a \in Unscheduled : db.run = "running" => continuation_worker(a[1])

(* The operator can end the uncertainty of an attempt that holds resources   *)
(* in a running Run: the dispatch ExecutionRecovery selects for the          *)
(* occurrence is that attempt.                                               *)
UncertaintyIsResolvable ==
    \A a \in Active :
        db.state[a] = "uncertain" /\ db.run = "running" =>
            \A b \in lock_uncertain(a[1]) : runtime_accepts(db, b)

(* The Run as the rest of the system sees it.                                *)
Lifecycle == INSTANCE RunLifecycle WITH
    runStatus <- db.run, occurrence <- db.occ, attempts <- db.attempts

(* Facts and decisions drive the Run only along its lifecycle.               *)
ImplementsLifecycle == Lifecycle!Spec
=============================================================================
