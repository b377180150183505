----------------------- MODULE ControlPlaneResources -----------------------
(***************************************************************************)
(* Theorems about what an attempt costs: the slot, Member and context it    *)
(* holds, and its place in the allowance of its recovery epoch.  They rest  *)
(* on what a step may do to schedules and attempts (StepEffect), for which  *)
(* it does not matter which fact or decision it is.                          *)
(***************************************************************************)
EXTENDS ControlPlaneProofs

USE ControlPlaneAssumption

(* No schedule is made active or forgotten.                                 *)
Releases(d, u) ==
    \A a \in Action : /\ u.sched[a] = "active" => d.sched[a] = "active"
                      /\ u.sched[a] = "none" <=> d.sched[a] = "none"

(* No occurrence gets another attempt, though one may get its first.         *)
OnlyStarts(d, u) ==
    \A o \in Occurrence :
        \/ u.attempts[o] = d.attempts[o]
        \/ d.occ[o] = "pending" /\ u.attempts[o] = 1

(* The occurrence of the current attempt a gets another one.                *)
Another(d, u, a) ==
    /\ runtime_accepts(d, a)
    /\ u.attempts = [d.attempts EXCEPT ![a[1]] = a[2] + 1]
    /\ d.sched[a] # "none"

(* ... within the allowance of the epoch, as its failure is recorded;       *)
Retried(d, u, a) ==
    /\ Another(d, u, a)
    /\ u.state[a] = "failed"
    /\ u.failure[a] \in {"auto_retryable", "operator_retry_requested"}
    /\ inEpoch[a] < Allowance

(* ... or in an epoch of its own.                                           *)
Recovered(d, u, a) ==
    /\ Another(d, u, a)
    /\ epoch' = [epoch EXCEPT ![a[1]] = @ + 1]
    /\ u.state[a] = "failed" \/ u.failure[a] = "contract_violation"

Effect(d, u) ==
    /\ Releases(d, u)
    /\ \/ OnlyStarts(d, u) /\ epoch' = epoch
       \/ \E a \in Action : Retried(d, u, a) /\ epoch' = epoch
       \/ \E a \in Action : Recovered(d, u, a)

----------------------------------------------------------------------------
(* The handlers.                                                            *)

(* A row that keeps its schedule.                                           *)
LEMMA SameEffect ==
    ASSUME NEW d, NEW u, u.sched = d.sched, u.attempts = d.attempts
    PROVE  Releases(d, u) /\ OnlyStarts(d, u)
BY DEF Releases, OnlyStarts

LEMMA RowEffect ==
    ASSUME NEW d \in Database, NEW a \in Action, NEW s \in DispatchState,
           NEW f \in Failure, NEW g \in 0 .. MaxGeneration
    PROVE  LET u == update_active_dispatches(Row(d, a, s, f, g))
           IN  Releases(d, u) /\ OnlyStarts(d, u)
<1> DEFINE r == Row(d, a, s, f, g)
<1>1. r \in Database /\ r.sched = d.sched /\ r.attempts = d.attempts
  BY DEF Row, Database
<1> HIDE DEF r
<1>2. LET u == update_active_dispatches(r)
      IN  u.sched = d.sched /\ u.attempts = d.attempts
  BY <1>1, UpdateShape
<1> QED
  BY <1>2, SameEffect DEF r

(* A schedule that ends with its row.                                       *)
LEMMA TerminalEffect ==
    ASSUME NEW d \in Database, NEW c \in Database, NEW a \in Action,
           NEW s \in {"completed", "failed"}, NEW f \in Failure, NEW g \in 0 .. MaxGeneration,
           c.sched = d.sched,
           NEW u, u = update_active_dispatches(mark_scheduled_terminal(Row(c, a, s, f, g), a, s))
    PROVE  /\ Releases(d, u) /\ u.attempts = c.attempts /\ u \in Database
           /\ u.state[a] = s /\ u.failure[a] = f /\ u.sched[a] # "active"
<1> DEFINE r == Row(c, a, s, f, g)
           t == mark_scheduled_terminal(r, a, s)
<1>1. /\ r \in Database /\ r.sched = d.sched /\ r.attempts = c.attempts
      /\ r.state = [c.state EXCEPT ![a] = s] /\ r.failure = [c.failure EXCEPT ![a] = f]
  BY DEF Row, Database, DispatchState
<1> HIDE DEF r
<1>2. /\ t \in Database /\ t.attempts = c.attempts
      /\ t.state = r.state /\ t.failure = r.failure
      /\ t.sched = [d.sched EXCEPT ![a] = IF d.sched[a] = "active" THEN s ELSE d.sched[a]]
  BY <1>1 DEF mark_scheduled_terminal, Database, ScheduleState
<1> HIDE DEF t
<1>3. /\ u \in Database /\ u.sched = t.sched /\ u.attempts = c.attempts
      /\ u.state = r.state /\ u.failure = r.failure
  BY <1>2, UpdateShape DEF t, r
<1>4. u.state[a] = s /\ u.failure[a] = f
  BY <1>1, <1>3 DEF Database
<1>5. Releases(d, u) /\ u.sched[a] # "active"
  BY <1>2, <1>3 DEF Releases, Database
<1> QED
  BY <1>2, <1>3, <1>4, <1>5

(* A completion starts what is pending, and ends its own schedule.           *)
LEMMA CompleteEffect ==
    ASSUME NEW d \in Database, NEW a \in Action, NEW g \in 0 .. MaxGeneration,
           NEW x \in BOOLEAN, can_complete(d, a)
    PROVE  LET u == complete(d, a, g, x) IN Releases(d, u) /\ OnlyStarts(d, u)
<1> DEFINE c == IF d.state[a] = "completed" THEN d ELSE step_completed(d, a, x)
           u == complete(d, a, g, x)
<1>1. c \in Database /\ c.sched = d.sched /\ c.failure = d.failure
  BY CompletedShape DEF can_complete
<1>2. OnlyStarts(d, c)
  <2>1. CASE d.state[a] = "completed"
    BY <2>1 DEF OnlyStarts
  <2>2. CASE d.state[a] # "completed"
    <3>1. c = step_completed(d, a, x)
      BY <2>2
    <3>2. d.attempts \in [Occurrence -> 0 .. MaxAttempts]
      BY DEF Database
    <3> QED
      BY <3>1, <3>2 DEF OnlyStarts, step_completed, Database
  <2> QED
    BY <2>1, <2>2
<1>3. u = update_active_dispatches(
            mark_scheduled_terminal(Row(c, a, "completed", c.failure[a], g), a, "completed"))
  BY DEF complete, mark_completed
<1> HIDE DEF c, u
<1>4. c.failure[a] \in Failure
  BY <1>1 DEF Database
<1>5. Releases(d, u) /\ u.attempts = c.attempts
  BY <1>1, <1>3, <1>4, TerminalEffect
<1> QED
  BY <1>2, <1>5 DEF OnlyStarts, u

(* A failure that is retried at once was the current attempt's.              *)
LEMMA RecordEffect ==
    ASSUME NEW d \in Database, NEW a \in Action, NEW g \in 0 .. MaxGeneration, Good(d),
           NEW f \in FailureFacts, d.state[a] # "none", can_record(d, a, f)
    PROVE  LET u == record(d, a, f, g)
           IN  Releases(d, u) /\ (OnlyStarts(d, u) \/ Retried(d, u, a))
<1> DEFINE u == record(d, a, f, g)
           m == mark_failed(d, a, f, g)
<1>1. f \in Failure /\ d.sched[a] # "none"
  BY DEF Failure, WorkerFailures, Good, AgreeIn
<1>2. CASE d.state[a] = "failed"
  <2>1. u = update_active_dispatches(d)
    BY <1>2 DEF record, mark_failed
  <2>2. u.sched = d.sched /\ u.attempts = d.attempts
    BY <2>1, UpdateShape
  <2> QED
    BY <2>2, SameEffect
<1>3. CASE d.state[a] # "failed"
  <2>1. m = update_active_dispatches(
              mark_scheduled_terminal(Row(d, a, "failed", f, g), a, "failed"))
    BY <1>3 DEF mark_failed
  <2> HIDE DEF m
  <2>2. /\ Releases(d, m) /\ m.attempts = d.attempts /\ m \in Database
        /\ m.state[a] = "failed" /\ m.failure[a] = f
    BY <1>1, <2>1, TerminalEffect
  <2>3. CASE automatic_retry(a, f)
    <3>1. u = step_retried(m, a) /\ runtime_accepts(d, a) /\ a[2] < MaxAttempts
      BY <1>3, <2>3 DEF record, can_record, m
    <3>2. /\ u.sched = m.sched /\ u.state = m.state /\ u.failure = m.failure
          /\ u.attempts = [d.attempts EXCEPT ![a[1]] = a[2] + 1]
      BY <2>2, <3>1, RetriedShape
    <3>3. f = "auto_retryable" /\ inEpoch[a] < Allowance
      BY <2>3 DEF automatic_retry
    <3>4. Another(d, u, a)
      BY <1>1, <3>1, <3>2 DEF Another
    <3>5. Retried(d, u, a)
      BY <2>2, <3>2, <3>3, <3>4 DEF Retried
    <3>6. Releases(d, u)
      BY <2>2, <3>2 DEF Releases
    <3> QED
      BY <3>5, <3>6
  <2>4. CASE ~ automatic_retry(a, f)
    <3>1. u = m
      BY <2>4 DEF record, m
    <3> QED
      BY <2>2, <3>1 DEF OnlyStarts
  <2> QED
    BY <2>3, <2>4
<1> QED
  BY <1>2, <1>3

LEMMA CancelEffect ==
    ASSUME NEW d \in Database, NEW a \in Action, NEW g \in 0 .. MaxGeneration
    PROVE  LET u == cancel(d, a, g) IN Releases(d, u) /\ OnlyStarts(d, u)
<1> DEFINE u == cancel(d, a, g)
           c == step_failed(d, a)
<1>1. CASE d.state[a] = "failed"
  <2>1. u = update_active_dispatches(d)
    BY <1>1 DEF cancel, mark_failed
  <2>2. u.sched = d.sched /\ u.attempts = d.attempts
    BY <2>1, UpdateShape
  <2> QED
    BY <2>2, SameEffect
<1>2. CASE d.state[a] # "failed"
  <2>1. c \in Database /\ c.sched = d.sched /\ c.attempts = d.attempts /\ c.state = d.state
    BY FailedShape
  <2>2. u = update_active_dispatches(
              mark_scheduled_terminal(Row(c, a, "failed", "cancelled", g), a, "failed"))
    BY <1>2, <2>1 DEF cancel, mark_failed
  <2>3. "cancelled" \in Failure
    BY DEF Failure
  <2> HIDE DEF c, u
  <2>4. Releases(d, u) /\ u.attempts = c.attempts
    BY <2>1, <2>2, <2>3, TerminalEffect
  <2> QED
    BY <2>1, <2>4 DEF OnlyStarts, u
<1> QED
  BY <1>1, <1>2

(* Every fact of the Worker.                                                *)
LEMMA FactEffect ==
    ASSUME IInv, NEW a \in Action, NEW g \in Generations,
           \/ MarkDispatched(a, g)
           \/ Accepted(a, g)
           \/ Running(a, g)
           \/ \E x \in BOOLEAN : CompletedFact(a, g, x)
           \/ \E f \in FailureFacts : FailedFact(a, g, f)
           \/ \E c \in Generations : CancelledFact(a, g, c)
           \/ \E f \in UncertainFacts : UncertainFact(a, g, f)
    PROVE  Effect(db, db') /\ UNCHANGED scheduleVars
<1>0. db \in Database /\ Good(db)
  BY DEF IInv, TypeOK
<1>1. FromWorker(g) /\ UNCHANGED <<scheduleVars, epoch>>
  BY DEF MarkDispatched, Accepted, Running, CompletedFact, FailedFact, CancelledFact,
     UncertainFact, Fact
<1>2. g \in 0 .. MaxGeneration /\ db.failure[a] \in Failure
  BY <1>0, <1>1, FromWorkerGeneration DEF Database
<1>3. ASSUME NEW s \in DispatchState, NEW f \in Failure,
             \/ db' = update_active_dispatches(Row(db, a, s, f, g))
             \/ db' = update_active_dispatches(db)
             \/ db' = Row(db, a, s, f, g)
      PROVE  Effect(db, db')
  <2>1. CASE db' = update_active_dispatches(Row(db, a, s, f, g))
    BY <1>0, <1>1, <1>2, <2>1, RowEffect DEF Effect
  <2>2. CASE db' = update_active_dispatches(db)
    <3>1. db'.sched = db.sched /\ db'.attempts = db.attempts
      BY <1>0, <2>2, UpdateShape
    <3> QED
      BY <1>1, <3>1, SameEffect DEF Effect
  <2>3. CASE db' = Row(db, a, s, f, g)
    <3>1. db'.sched = db.sched /\ db'.attempts = db.attempts
      BY <1>0, <2>3 DEF Row, Database
    <3> QED
      BY <1>1, <3>1, SameEffect DEF Effect
  <2> QED
    BY <1>3, <2>1, <2>2, <2>3
<1>4. {"dispatched", "acknowledged", "running", "uncertain"} \subseteq DispatchState
  BY DEF DispatchState, ReservedStates
<1>5. CASE MarkDispatched(a, g)
  <2>1. db' = Row(db, a, "dispatched", db.failure[a], g)
    BY <1>5 DEF MarkDispatched
  <2> QED
    BY <1>1, <1>2, <1>3, <1>4, <2>1
<1>6. CASE Accepted(a, g)
  <2>1. \/ db' = update_active_dispatches(Row(db, a, "acknowledged", db.failure[a], g))
        \/ db' = update_active_dispatches(db)
    BY <1>6 DEF Accepted, acknowledge
  <2> QED
    BY <1>1, <1>2, <1>3, <1>4, <2>1
<1>7. CASE Running(a, g)
  <2>1. \/ db' = update_active_dispatches(Row(db, a, "running", db.failure[a], g))
        \/ db' = update_active_dispatches(db)
    BY <1>7 DEF Running, mark_running
  <2> QED
    BY <1>1, <1>2, <1>3, <1>4, <2>1
<1>8. CASE \E x \in BOOLEAN : CompletedFact(a, g, x)
  <2>1. PICK x \in BOOLEAN : can_complete(db, a) /\ db' = complete(db, a, g, x)
    BY <1>8 DEF CompletedFact
  <2> QED
    BY <1>0, <1>1, <1>2, <2>1, CompleteEffect DEF Effect
<1>9. CASE \E f \in FailureFacts : FailedFact(a, g, f)
  <2>1. PICK f \in FailureFacts :
          db.state[a] # "none" /\ can_record(db, a, f) /\ db' = record(db, a, f, g)
    BY <1>9 DEF FailedFact, Fact
  <2> QED
    BY <1>0, <1>1, <1>2, <2>1, RecordEffect DEF Effect
<1>10. CASE \E c \in Generations : CancelledFact(a, g, c)
  <2>1. db' = cancel(db, a, g)
    BY <1>10 DEF CancelledFact
  <2> QED
    BY <1>0, <1>1, <1>2, <2>1, CancelEffect DEF Effect
<1>11. CASE \E f \in UncertainFacts : UncertainFact(a, g, f)
  <2>1. PICK f \in UncertainFacts : db' = mark_uncertain(db, a, f, g)
    BY <1>11 DEF UncertainFact
  <2>2. f \in Failure
    BY DEF Failure, Uncertainties
  <2>3. \/ db' = update_active_dispatches(Row(db, a, "uncertain", f, g))
        \/ db' = update_active_dispatches(db)
    BY <2>1 DEF mark_uncertain
  <2> QED
    BY <1>1, <1>3, <1>4, <2>2, <2>3
<1> QED
  BY <1>5, <1>6, <1>7, <1>8, <1>9, <1>10, <1>11

(* The operator's resolution of an uncertain attempt, and the intent to      *)
(* cancel one.                                                              *)
LEMMA OperatorEffect ==
    ASSUME IInv,
           \/ \E a \in Action : RequestCancellation(a)
           \/ \E o \in Occurrence : ResolveRetry(o)
           \/ \E o \in Occurrence : ResolveMarkFailed(o)
    PROVE  Effect(db, db') /\ UNCHANGED scheduleVars
<1>0. /\ db \in Database /\ Good(db)
      /\ \A a \in Action : db.seen[a] \in 0 .. MaxGeneration
  BY DEF IInv, TypeOK, Database
<1>1. CASE \E a \in Action : RequestCancellation(a)
  <2>1. PICK a \in Action : /\ db' = [db EXCEPT !.cancel[a] = db.seen[a]]
                           /\ UNCHANGED <<scheduleVars, epoch>>
    BY <1>1 DEF RequestCancellation
  <2>2. db'.sched = db.sched /\ db'.attempts = db.attempts
    BY <1>0, <2>1 DEF Database
  <2> QED
    BY <2>1, <2>2, SameEffect DEF Effect
<1>2. CASE \E o \in Occurrence : ResolveRetry(o)
  <2> DEFINE f == "operator_retry_requested"
  <2>1. PICK a \in Action :
          /\ db.state[a] = "uncertain" /\ runtime_accepts(db, a) /\ a[2] < MaxAttempts
          /\ inEpoch[a] < Allowance
          /\ db' = step_retried(resolve_uncertain(db, a, f), a)
          /\ UNCHANGED <<scheduleVars, epoch>>
    BY <1>2 DEF ResolveRetry, lock_uncertain
  <2> DEFINE r == resolve_uncertain(db, a, f)
  <2>2. f \in Failure /\ db.sched[a] # "none"
    BY <1>0, <2>1 DEF Failure, OperatorFailures, Good, AgreeIn
  <2>3. r = update_active_dispatches(
              mark_scheduled_terminal(Row(db, a, "failed", f, db.seen[a]), a, "failed"))
    BY DEF resolve_uncertain
  <2> HIDE DEF f
  <2>4. /\ Releases(db, r) /\ r.attempts = db.attempts /\ r \in Database
        /\ r.state[a] = "failed" /\ r.failure[a] = f
    BY <1>0, <2>2, <2>3, TerminalEffect
  <2> HIDE DEF r
  <2>5. /\ db'.sched = r.sched /\ db'.state = r.state /\ db'.failure = r.failure
        /\ db'.attempts = [db.attempts EXCEPT ![a[1]] = a[2] + 1]
    BY <2>1, <2>4, RetriedShape DEF r
  <2>6. Retried(db, db', a)
    BY <2>1, <2>2, <2>4, <2>5 DEF Retried, Another, f
  <2>7. Releases(db, db')
    BY <2>4, <2>5 DEF Releases
  <2> QED
    BY <2>1, <2>6, <2>7 DEF Effect
<1>3. CASE \E o \in Occurrence : ResolveMarkFailed(o)
  <2> DEFINE f == "operator_marked_failed"
  <2>1. PICK a \in Action :
          /\ db' = resolve_uncertain(step_failed(db, a), a, f)
          /\ UNCHANGED <<scheduleVars, epoch>>
    BY <1>3 DEF ResolveMarkFailed, lock_uncertain
  <2> DEFINE c == step_failed(db, a)
  <2>2. c \in Database /\ c.sched = db.sched /\ c.attempts = db.attempts /\ c.seen = db.seen
    BY <1>0, FailedShape
  <2>3. db' = update_active_dispatches(
                mark_scheduled_terminal(Row(c, a, "failed", f, c.seen[a]), a, "failed"))
    BY <2>1 DEF resolve_uncertain
  <2>4. f \in Failure
    BY DEF Failure, OperatorFailures
  <2> HIDE DEF c, f
  <2>5. Releases(db, db') /\ db'.attempts = c.attempts
    BY <1>0, <2>2, <2>3, <2>4, TerminalEffect
  <2> QED
    BY <2>1, <2>2, <2>5 DEF Effect, OnlyStarts
<1> QED
  BY <1>1, <1>2, <1>3

(* A recovery is another attempt in a new epoch.                             *)
LEMMA AuthorizeEffect ==
    ASSUME IInv, NEW a \in Action, NEW fresh \in BOOLEAN, Authorize(a, fresh)
    PROVE  Effect(db, db') /\ UNCHANGED scheduleVars
<1> DEFINE r == retire_uncertain_schedule(db, a)
<1>0. /\ db \in Database /\ Good(db) /\ runtime_accepts(db, a) /\ a[2] < MaxAttempts
      /\ db' = step_retried(r, a) /\ validate_source(a, fresh) /\ db.sched[a] # "none"
      /\ epoch' = [epoch EXCEPT ![a[1]] = @ + 1] /\ UNCHANGED scheduleVars
  BY DEF IInv, TypeOK, Authorize, LatestScheduled
<1>1. /\ r \in Database /\ r.state = db.state /\ r.failure = db.failure
      /\ r.attempts = db.attempts /\ Releases(db, r)
  <2>1. CASE db.state[a] = "uncertain" /\ db.sched[a] = "active"
    <3> DEFINE t == [db EXCEPT !.sched[a] = "failed"]
    <3>1. /\ t \in Database /\ t.state = db.state /\ t.failure = db.failure
          /\ t.attempts = db.attempts /\ t.sched = [db.sched EXCEPT ![a] = "failed"]
      BY <1>0 DEF Database, ScheduleState
    <3>2. r = update_active_dispatches(t)
      BY <2>1 DEF retire_uncertain_schedule
    <3> HIDE DEF t, r
    <3>3. /\ r \in Database /\ r.state = t.state /\ r.failure = t.failure
          /\ r.attempts = t.attempts /\ r.sched = t.sched
      BY <3>1, <3>2, UpdateShape
    <3>4. Releases(db, r)
      BY <1>0, <2>1, <3>1, <3>3 DEF Releases, Database
    <3> QED
      BY <3>1, <3>3, <3>4
  <2>2. CASE ~ (db.state[a] = "uncertain" /\ db.sched[a] = "active")
    BY <1>0, <2>2, SameEffect DEF retire_uncertain_schedule
  <2> QED
    BY <2>1, <2>2
<1> HIDE DEF r
<1>2. /\ db'.sched = r.sched /\ db'.state = r.state /\ db'.failure = r.failure
      /\ db'.attempts = [db.attempts EXCEPT ![a[1]] = a[2] + 1]
  BY <1>0, <1>1, RetriedShape
<1>3. db.state[a] = "failed" \/ db.failure[a] = "contract_violation"
  BY <1>0 DEF validate_source, retained_work_recovery
<1>4. Recovered(db, db', a)
  BY <1>0, <1>1, <1>2, <1>3 DEF Recovered, Another
<1>5. Releases(db, db')
  BY <1>1, <1>2 DEF Releases
<1> QED
  BY <1>0, <1>4, <1>5 DEF Effect

(* Every step but a claim.                                                  *)
LEMMA StepEffect ==
    ASSUME IInv, Next, ~ \E a \in Action : Schedule(a)
    PROVE  Effect(db, db') /\ UNCHANGED scheduleVars
<1>1. CASE Connection \/ \E a \in Action : RequestFreshRecovery(a)
  <2>1. db' = db /\ UNCHANGED <<scheduleVars, epoch>>
    BY <1>1 DEF Connection, RequestFreshRecovery
  <2> QED
    BY <2>1, SameEffect DEF Effect
<1>2. CASE \/ \E a \in Action, g \in Generations : MarkDispatched(a, g)
           \/ \E a \in Action, g \in Generations : Accepted(a, g)
           \/ \E a \in Action, g \in Generations : Running(a, g)
           \/ \E a \in Action, g \in Generations, x \in BOOLEAN : CompletedFact(a, g, x)
           \/ \E a \in Action, g \in Generations, f \in FailureFacts : FailedFact(a, g, f)
           \/ \E a \in Action, g, c \in Generations : CancelledFact(a, g, c)
           \/ \E a \in Action, g \in Generations, f \in UncertainFacts : UncertainFact(a, g, f)
  <2>1. PICK a \in Action, g \in Generations :
           \/ MarkDispatched(a, g)
           \/ Accepted(a, g)
           \/ Running(a, g)
           \/ \E x \in BOOLEAN : CompletedFact(a, g, x)
           \/ \E f \in FailureFacts : FailedFact(a, g, f)
           \/ \E c \in Generations : CancelledFact(a, g, c)
           \/ \E f \in UncertainFacts : UncertainFact(a, g, f)
    BY <1>2, Zenon
  <2> QED
    BY <2>1, FactEffect
<1>3. CASE \/ \E a \in Action : RequestCancellation(a)
           \/ \E o \in Occurrence : ResolveRetry(o)
           \/ \E o \in Occurrence : ResolveMarkFailed(o)
  BY <1>3, OperatorEffect
<1>4. CASE \/ \E a \in Action, fresh \in BOOLEAN : Authorize(a, fresh)
           \/ \E a, b \in Action : FinalizeRequested(a, b)
  <2>1. PICK a \in Action, fresh \in BOOLEAN : Authorize(a, fresh)
    BY <1>4 DEF FinalizeRequested
  <2> QED
    BY <2>1, AuthorizeEffect
<1> QED
  BY <1>1, <1>2, <1>3, <1>4 DEF Next

----------------------------------------------------------------------------
(* No duplicate of an execution that may still be going on.                  *)

(* An attempt that has none is followed only as the effect of a step says.   *)
LEMMA FollowedBy ==
    ASSUME IInv, Effect(db, db'), NEW a \in Action,
           db.attempts[a[1]] = a[2], db'.attempts[a[1]] # a[2]
    PROVE  Retried(db, db', a) \/ Recovered(db, db', a)
<1>0. /\ db.attempts \in [Occurrence -> 0 .. MaxAttempts]
      /\ PendingUntouched(db) /\ a[1] \in Occurrence /\ a[2] >= 1 /\ a[2] \in Nat
  BY ActionPairs DEF IInv, TypeOK, Database, Good
<1>1. ~ OnlyStarts(db, db')
  BY <1>0 DEF OnlyStarts, PendingUntouched
<1>2. PICK b \in Action : Retried(db, db', b) \/ Recovered(db, db', b)
  BY <1>1 DEF Effect
<1>3. /\ db'.attempts = [db.attempts EXCEPT ![b[1]] = b[2] + 1]
      /\ db.attempts[b[1]] = b[2]
  BY <1>2 DEF Retried, Recovered, Another, runtime_accepts
<1>4. a = b
  BY <1>0, <1>3, ActionPairs
<1> QED
  BY <1>2, <1>4

(* No execution is duplicated without the operator: another attempt follows  *)
(* a retryable failure within the allowance (OperationalFailure.record), the *)
(* operator's resolution, or a human recovery epoch.                         *)
THEOREM NeverDuplicated == Spec => NeverDuplicatedAutomatically
<1> DEFINE Follows(a) ==
             db.attempts[a[1]] = a[2] /\ db'.attempts[a[1]] # a[2] =>
                /\ db'.attempts[a[1]] = a[2] + 1
                /\ \/ /\ db'.state[a] = "failed"
                      /\ db'.failure[a] \in {"auto_retryable", "operator_retry_requested"}
                      /\ inEpoch[a] < Allowance
                   \/ /\ epoch'[a[1]] = epoch[a[1]] + 1
                      /\ db'.state[a] = "failed" \/ db'.failure[a] = "contract_violation"
           A == \A a \in Action : Follows(a)
<1>1. ASSUME IInv, [Next]_vars PROVE [A]_vars
  <2>1. CASE Next /\ ~ \E a \in Action : Schedule(a)
    <3> SUFFICES ASSUME NEW a \in Action,
                        db.attempts[a[1]] = a[2], db'.attempts[a[1]] # a[2]
                 PROVE  Follows(a)
      OBVIOUS
    <3>1. Retried(db, db', a) \/ Recovered(db, db', a)
      BY <1>1, <2>1, StepEffect, FollowedBy
    <3>2. /\ db.attempts \in [Occurrence -> 0 .. MaxAttempts] /\ epoch \in [Occurrence -> Nat]
          /\ a[1] \in Occurrence
      BY <1>1, ActionPairs DEF IInv, TypeOK, Database
    <3>3. db'.attempts[a[1]] = a[2] + 1
      BY <3>1, <3>2 DEF Retried, Recovered, Another
    <3>4. CASE Retried(db, db', a)
      BY <3>3, <3>4 DEF Retried
    <3>5. CASE Recovered(db, db', a)
      <4>1. epoch'[a[1]] = epoch[a[1]] + 1
        BY <3>2, <3>5 DEF Recovered
      <4> QED
        BY <3>3, <3>5, <4>1 DEF Recovered
    <3> QED
      BY <3>1, <3>4, <3>5
  <2>2. CASE \E a \in Action : Schedule(a)
    <3>1. db'.attempts = db.attempts
      BY <1>1, <2>2 DEF Schedule, IInv, TypeOK, Database
    <3> QED
      BY <3>1
  <2>3. CASE UNCHANGED vars
    BY <2>3
  <2> QED
    BY <1>1, <2>1, <2>2, <2>3
<1>2. Spec => [][A]_vars
  BY <1>1, Invariance, PTL DEF Spec
<1> QED
  BY <1>2 DEF NeverDuplicatedAutomatically

----------------------------------------------------------------------------
(* What an execution holds.                                                 *)

(* A claim is of the current attempt, and nothing else of its occurrence     *)
(* holds anything.                                                          *)
LEMMA ClaimShape ==
    ASSUME IInv, NEW a \in Action, Schedule(a)
    PROVE  /\ db.sched[a] = "none" /\ a[2] = db.attempts[a[1]]
           /\ \A b \in Action \ {a} : b[2] = db.attempts[b[1]] => b[1] # a[1]
           /\ \A b \in Active : b # a /\ b[1] # a[1]
           /\ db'.attempts = db.attempts
           /\ db'.sched = [db.sched EXCEPT ![a] = "active"]
<1>0. db \in Database /\ LiveIn(db) /\ a[1] \in Occurrence
  BY ActionPairs DEF IInv, TypeOK, Good
<1>1. db.sched[a] = "none" /\ a[2] <= db.attempts[a[1]]
  BY DEF Schedule, Unscheduled
<1>2. a[2] = db.attempts[a[1]]
  <2>1. ~ (a[2] < db.attempts[a[1]])
    BY <1>0, <1>1 DEF LiveIn
  <2>2. db.attempts[a[1]] \in Nat /\ a[2] \in Nat
    BY <1>0, ActionPairs DEF Database
  <2> QED
    BY <1>1, <2>1, <2>2
<1>3. \A b \in Action \ {a} : b[2] = db.attempts[b[1]] => b[1] # a[1]
  BY <1>2, ActionPairs
<1>4. \A b \in Active : b # a /\ b[1] # a[1]
  BY <1>0, <1>1, <1>3 DEF Active, LiveIn
<1>5. db' = [db EXCEPT !.sched[a] = "active", !.state[a] = "claimed"]
  BY DEF Schedule
<1>6. db'.attempts = db.attempts /\ db'.sched = [db.sched EXCEPT ![a] = "active"]
  BY <1>0, <1>5 DEF Database
<1> QED
  BY <1>1, <1>2, <1>3, <1>4, <1>6

(* A claim takes a slot, a Member and a context nobody holds.                *)
LEMMA ClaimExclusive ==
    ASSUME IInv, ResourcesAreExclusive, NEW a \in Action, Schedule(a)
    PROVE  ResourcesAreExclusive'
<1> DEFINE o == a[1]
<1>0. /\ TypeOK /\ AgreeIn(db) /\ db \in Database /\ o \in Occurrence
  BY ActionPairs DEF IInv, TypeOK, Good
<1>1. /\ \A b \in Active : b # a /\ b[1] # o
      /\ db'.sched = [db.sched EXCEPT ![a] = "active"]
  BY ClaimShape
<1>2. Active' = Active \cup {a}
  BY <1>0, <1>1 DEF Active, Database
<1>3. Least(free_slots) \in free_slots
  <2>1. free_slots \subseteq Nat /\ free_slots # {}
    BY ActionPairs DEF free_slots, Schedule
  <2> QED
    BY <2>1, LeastMember
<1>4. Least(resolve_member(o)) \in resolve_member(o)
  <2>1. member[o] \in Nat /\ 1 .. Members \subseteq Nat
    BY <1>0, ActionPairs DEF TypeOK
  <2>2. resolve_member(o) \subseteq Nat /\ resolve_member(o) # {}
    BY <2>1 DEF resolve_member, Schedule
  <2> QED
    BY <2>2, LeastMember
<1>5. \A b \in Active : slot[b] # Least(free_slots)
  <2>1. \A b \in Active : db.state[b] \in ReservedStates
    BY <1>0 DEF AgreeIn, Active
  <2> QED
    BY <1>3, <2>1 DEF free_slots
<1>6. \A b \in Active : member[b[1]] # Least(resolve_member(o))
  BY <1>4 DEF resolve_member, member_occupied
<1>7. \A b \in Active : lineage[b[1]] # resolve_context(o)
  BY DEF Schedule, available_context
<1>8. /\ slot'[a] = Least(free_slots) /\ member'[o] = Least(resolve_member(o))
      /\ lineage'[o] = resolve_context(o)
      /\ \A b \in Active : /\ slot'[b] = slot[b] /\ member'[b[1]] = member[b[1]]
                           /\ lineage'[b[1]] = lineage[b[1]]
  <2>1. /\ slot' = [slot EXCEPT ![a] = Least(free_slots)]
        /\ member' = [member EXCEPT ![o] = Least(resolve_member(o))]
        /\ lineage' = [lineage EXCEPT ![o] = resolve_context(o)]
    BY DEF Schedule
  <2>2. \A b \in Active : b \in Action /\ b[1] \in Occurrence
    BY ActionPairs DEF Active
  <2> QED
    BY <1>0, <1>1, <2>1, <2>2 DEF TypeOK
<1>9. ASSUME NEW b \in Active, NEW c \in Active, b # c
      PROVE  slot[b] # slot[c] /\ member[b[1]] # member[c[1]] /\ lineage[b[1]] # lineage[c[1]]
  BY <1>9 DEF ResourcesAreExclusive
<1>10. ASSUME NEW b \in Active', NEW c \in Active', b # c
       PROVE  /\ slot'[b] # slot'[c] /\ member'[b[1]] # member'[c[1]]
              /\ lineage'[b[1]] # lineage'[c[1]]
  <2>1. CASE b = a
    <3>1. c \in Active
      BY <1>2, <1>10, <2>1
    <3> QED
      BY <1>5, <1>6, <1>7, <1>8, <2>1, <3>1
  <2>2. CASE c = a
    <3>1. b \in Active
      BY <1>2, <1>10, <2>2
    <3> QED
      BY <1>5, <1>6, <1>7, <1>8, <2>2, <3>1
  <2>3. CASE b \in Active /\ c \in Active
    BY <1>8, <1>9, <1>10, <2>3
  <2> QED
    BY <1>2, <2>1, <2>2, <2>3
<1> QED
  BY <1>10 DEF ResourcesAreExclusive

(* What is held is given up by ending the schedule alone.                    *)
LEMMA EffectExclusive ==
    ASSUME ResourcesAreExclusive, Effect(db, db'), UNCHANGED scheduleVars
    PROVE  ResourcesAreExclusive'
<1>1. Active' \subseteq Active
  BY DEF Active, Effect, Releases
<1>2. UNCHANGED <<slot, member, lineage>>
  BY DEF scheduleVars
<1> QED
  BY <1>1, <1>2 DEF ResourcesAreExclusive

(* Executions hold different slots, Members and contexts (SchedulingStore),  *)
(* whatever becomes of the Worker's connection.                              *)
THEOREM ResourcesAlwaysExclusive == Spec => []ResourcesAreExclusive
<1>1. Init => ResourcesAreExclusive
  <2>1. Init => Active = {}
    BY DEF Init, Active
  <2> QED
    BY <2>1 DEF ResourcesAreExclusive
<1>2. ASSUME IInv, ResourcesAreExclusive, [Next]_vars PROVE ResourcesAreExclusive'
  <2>1. CASE \E a \in Action : Schedule(a)
    BY <1>2, <2>1, ClaimExclusive
  <2>2. CASE Next /\ ~ \E a \in Action : Schedule(a)
    BY <1>2, <2>2, StepEffect, EffectExclusive
  <2>3. CASE UNCHANGED vars
    BY <1>2, <2>3 DEF vars, scheduleVars, ResourcesAreExclusive, Active
  <2> QED
    BY <1>2, <2>1, <2>2, <2>3
<1> QED
  BY <1>1, <1>2, Invariance, PTL DEF Spec

----------------------------------------------------------------------------
(* The allowance.                                                           *)

(* The attempts of occurrence o charged to its epoch e.                      *)
Charged(o, e) == {b \in Action : b[1] = o /\ inEpoch[b] # 0 /\ epochOf[b] = e}

(* What the allowance rests on: exactly the scheduled attempts are charged,  *)
(* to an epoch that has begun; the current one is the last of the current    *)
(* epoch and its number is how many were charged.                           *)
ChargedWhenScheduled ==
    \A a \in Action : /\ inEpoch[a] # 0 <=> db.sched[a] # "none"
                      /\ inEpoch[a] # 0 => epochOf[a] <= epoch[a[1]]
                      /\ inEpoch[a] # 0 => a[2] <= db.attempts[a[1]]

CurrentIsCounted ==
    \A a \in Action :
        a[2] = db.attempts[a[1]] /\ inEpoch[a] # 0 =>
            /\ epochOf[a] = epoch[a[1]]
            /\ inEpoch[a] = Cardinality(Charged(a[1], epoch[a[1]]))

WithinAllowance ==
    \A o \in Occurrence, e \in Nat : Cardinality(Charged(o, e)) <= Allowance

EmittedFits ==
    \A a \in Unscheduled : Cardinality(Charged(a[1], epoch[a[1]])) < Allowance

Allotted == ChargedWhenScheduled /\ CurrentIsCounted /\ WithinAllowance /\ EmittedFits

LEMMA ChargedFinite ==
    ASSUME NEW o, NEW e
    PROVE  IsFiniteSet(Charged(o, e)) /\ Cardinality(Charged(o, e)) \in Nat
<1>1. IsFiniteSet(1 .. MaxAttempts)
  BY ActionPairs, FS_Interval
<1>2. IsFiniteSet(Action)
  BY <1>1, FS_Product DEF Action
<1>3. IsFiniteSet(Charged(o, e))
  BY <1>2, FS_Subset DEF Charged
<1> QED
  BY <1>3, FS_CardinalityType

LEMMA InitAllotted == Init => Allotted
<1> SUFFICES ASSUME Init PROVE Allotted
  OBVIOUS
<1>1. \A a \in Action : inEpoch[a] = 0 /\ db.sched[a] = "none"
  BY DEF Init
<1>2. \A o, e : Charged(o, e) = {}
  BY <1>1 DEF Charged
<1>3. Cardinality({}) = 0
  BY FS_EmptySet
<1>4. Allowance \in Nat \ {0}
  OBVIOUS
<1>5. \A o, e : Cardinality(Charged(o, e)) = 0
  BY <1>2, <1>3
<1> QED
  BY <1>1, <1>4, <1>5
     DEF Allotted, ChargedWhenScheduled, CurrentIsCounted, WithinAllowance, EmittedFits,
         Unscheduled

(* A claim is charged as the next attempt of the current epoch.              *)
LEMMA ClaimAllotted ==
    ASSUME IInv, Allotted, NEW a \in Action, Schedule(a)
    PROVE  Allotted'
<1> DEFINE o == a[1]
           n == Cardinality(Charged(o, epoch[o]))
<1>0. /\ TypeOK /\ o \in Occurrence /\ epoch[o] \in Nat /\ n \in Nat /\ epoch' = epoch
      /\ db.sched \in [Action -> ScheduleState] /\ db.attempts[o] \in Nat
  BY ActionPairs, ChargedFinite DEF IInv, TypeOK, Schedule, Database
<1>1. /\ db.sched[a] = "none" /\ a[2] = db.attempts[o]
      /\ \A b \in Action \ {a} : b[2] = db.attempts[b[1]] => b[1] # o
      /\ db'.attempts = db.attempts /\ db'.sched = [db.sched EXCEPT ![a] = "active"]
  BY ClaimShape
<1>2. inEpoch[a] = 0
  BY <1>1 DEF Allotted, ChargedWhenScheduled
<1>3. attempt_in_epoch(o) = n + 1 /\ n < Allowance
  <2>1. attempt_in_epoch(o) = n + 1
    BY DEF attempt_in_epoch, Charged
  <2> QED
    BY <1>0, <2>1, ActionPairs DEF Schedule
<1> HIDE DEF n
<1>4. /\ inEpoch'[a] = n + 1 /\ epochOf'[a] = epoch[o]
      /\ \A b \in Action \ {a} : inEpoch'[b] = inEpoch[b] /\ epochOf'[b] = epochOf[b]
  BY <1>0, <1>3 DEF Schedule, TypeOK
<1>5. Charged(o, epoch[o])' = Charged(o, epoch[o]) \cup {a} /\ a \notin Charged(o, epoch[o])
  BY <1>0, <1>2, <1>4 DEF Charged
<1>6. Cardinality(Charged(o, epoch[o])') = n + 1
  BY <1>5, ChargedFinite, FS_AddElement DEF n
<1>7. ASSUME NEW p \in Occurrence, NEW e \in Nat, p # o \/ e # epoch[o]
      PROVE  Charged(p, e)' = Charged(p, e)
  <2>1. a \notin Charged(p, e)' /\ a \notin Charged(p, e)
    BY <1>0, <1>2, <1>4, <1>7 DEF Charged
  <2>2. \A b \in Action \ {a} : b \in Charged(p, e)' <=> b \in Charged(p, e)
    BY <1>4 DEF Charged
  <2>3. Charged(p, e)' \subseteq Action /\ Charged(p, e) \subseteq Action
    BY DEF Charged
  <2> QED
    BY <2>1, <2>2, <2>3
<1>8. ChargedWhenScheduled'
  <2>1. \A b \in Action \ {a} : db'.sched[b] = db.sched[b]
    BY <1>0, <1>1
  <2>2. db'.sched[a] = "active" /\ n + 1 # 0
    BY <1>0, <1>1
  <2> QED
    BY <1>0, <1>1, <1>4, <2>1, <2>2 DEF Allotted, ChargedWhenScheduled
<1>9. CurrentIsCounted'
  <2> SUFFICES ASSUME NEW b \in Action, b[2] = db.attempts[b[1]], inEpoch'[b] # 0
               PROVE  /\ epochOf'[b] = epoch[b[1]]
                      /\ inEpoch'[b] = Cardinality(Charged(b[1], epoch[b[1]])')
    BY <1>0, <1>1 DEF CurrentIsCounted, Charged
  <2>1. CASE b = a
    BY <1>4, <1>6, <2>1
  <2>2. CASE b # a
    <3>1. b[1] # o /\ b[1] \in Occurrence /\ epoch[b[1]] \in Nat
      BY <1>0, <1>1, <2>2, ActionPairs DEF TypeOK
    <3>2. Charged(b[1], epoch[b[1]])' = Charged(b[1], epoch[b[1]])
      BY <1>7, <3>1, <1>0 DEF Charged
    <3> QED
      BY <1>4, <2>2, <3>2 DEF Allotted, CurrentIsCounted
  <2> QED
    BY <2>1, <2>2
<1>10. WithinAllowance'
  <2> SUFFICES ASSUME NEW p \in Occurrence, NEW e \in Nat
               PROVE  Cardinality(Charged(p, e)') <= Allowance
    BY DEF WithinAllowance, Charged
  <2>1. CASE p = o /\ e = epoch[o]
    <3>1. Charged(p, e)' = Charged(o, epoch[o])'
      BY <1>0, <2>1 DEF Charged
    <3> QED
      BY <1>0, <1>3, <1>6, <3>1, ActionPairs
  <2>2. CASE p # o \/ e # epoch[o]
    BY <1>7, <2>2 DEF Allotted, WithinAllowance
  <2> QED
    BY <2>1, <2>2
<1>11. EmittedFits'
  <2> SUFFICES ASSUME NEW b \in Action, b[2] <= db.attempts[b[1]], db'.sched[b] = "none"
               PROVE  Cardinality(Charged(b[1], epoch[b[1]])') < Allowance
    BY <1>0, <1>1 DEF EmittedFits, Unscheduled, Charged
  <2>1. b # a /\ db.sched[b] = "none"
    BY <1>0, <1>1
  <2>2. b[2] = db.attempts[b[1]]
    <3>1. ~ (b[2] < db.attempts[b[1]])
      BY <2>1 DEF IInv, Good, LiveIn
    <3>2. b[2] \in Nat /\ db.attempts[b[1]] \in Nat
      BY <1>0, ActionPairs DEF TypeOK, Database
    <3> QED
      BY <3>1, <3>2
  <2>3. b[1] # o /\ b[1] \in Occurrence /\ epoch[b[1]] \in Nat
    BY <1>0, <1>1, <2>1, <2>2, ActionPairs DEF TypeOK
  <2>4. Charged(b[1], epoch[b[1]])' = Charged(b[1], epoch[b[1]])
    BY <1>7, <2>3, <1>0 DEF Charged
  <2>5. b \in Unscheduled
    BY <2>1 DEF Unscheduled
  <2> QED
    BY <2>4, <2>5 DEF Allotted, EmittedFits
<1> QED
  BY <1>8, <1>9, <1>10, <1>11 DEF Allotted

(* Another attempt is emitted in an epoch that has room for it: a first one  *)
(* and that of a new epoch find nothing charged, a retry counts on the       *)
(* number its predecessor was given.                                         *)
LEMMA EffectAllotted ==
    ASSUME IInv, Allotted, Effect(db, db'), UNCHANGED scheduleVars
    PROVE  Allotted'
<1>0. /\ UNCHANGED <<inEpoch, epochOf>> /\ Releases(db, db') /\ Allowance \in Nat \ {0}
      /\ db.attempts \in [Occurrence -> 0 .. MaxAttempts] /\ epoch \in [Occurrence -> Nat]
      /\ PendingUntouched(db) /\ epochOf \in [Action -> Nat] /\ inEpoch \in [Action -> Nat]
  BY ActionPairs DEF scheduleVars, Effect, IInv, Good, TypeOK, Database
<1>1. \A o, e : {b \in Action : b[1] = o /\ inEpoch'[b] # 0 /\ epochOf'[b] = e} = Charged(o, e)
  BY <1>0 DEF Charged
(* What becomes of an occurrence.                                           *)
<1>2. ASSUME NEW o \in Occurrence
      PROVE  \/ db'.attempts[o] = db.attempts[o] /\ epoch'[o] = epoch[o]
             \/ /\ db.attempts[o] < db'.attempts[o] /\ epoch[o] <= epoch'[o]
                /\ db'.attempts[o] \in Nat /\ epoch'[o] \in Nat
                /\ Cardinality(Charged(o, epoch'[o])) < Allowance
  <2>1. CASE OnlyStarts(db, db') /\ epoch' = epoch
    <3>1. CASE db'.attempts[o] = db.attempts[o]
      BY <2>1, <3>1
    <3>2. CASE db.occ[o] = "pending" /\ db'.attempts[o] = 1
      <4>1. db.attempts[o] = 0
        BY <1>0, <3>2 DEF PendingUntouched
      <4>2. \A b \in Action : b[1] = o => inEpoch[b] = 0
        BY <1>0, <4>1, ActionPairs DEF Allotted, ChargedWhenScheduled
      <4>3. Charged(o, epoch[o]) = {}
        BY <4>2 DEF Charged
      <4>4. Cardinality({}) = 0
        BY FS_EmptySet
      <4> QED
        BY <1>0, <2>1, <3>2, <4>1, <4>3, <4>4
    <3> QED
      BY <2>1, <3>1, <3>2 DEF OnlyStarts
  <2>2. ASSUME NEW a \in Action, Retried(db, db', a) \/ Recovered(db, db', a)
        PROVE  \/ o # a[1] /\ db'.attempts[o] = db.attempts[o]
               \/ /\ o = a[1] /\ db.attempts[o] = a[2] /\ db'.attempts[o] = a[2] + 1
                  /\ inEpoch[a] # 0 /\ epochOf[a] = epoch[o]
                  /\ inEpoch[a] = Cardinality(Charged(o, epoch[o]))
    <3>1. /\ db.attempts[a[1]] = a[2] /\ db.sched[a] # "none"
          /\ db'.attempts = [db.attempts EXCEPT ![a[1]] = a[2] + 1]
      BY <2>2 DEF Retried, Recovered, Another, runtime_accepts
    <3>2. inEpoch[a] # 0
      BY <3>1 DEF Allotted, ChargedWhenScheduled
    <3> QED
      BY <1>0, <3>1, <3>2, ActionPairs DEF Allotted, CurrentIsCounted
  <2>3. CASE \E a \in Action : Retried(db, db', a) /\ epoch' = epoch
    <3>1. PICK a \in Action : Retried(db, db', a) /\ epoch' = epoch
      BY <2>3
    <3>2. inEpoch[a] < Allowance
      BY <3>1 DEF Retried
    <3> QED
      BY <1>0, <2>2, <3>1, <3>2, ActionPairs
  <2>4. CASE \E a \in Action : Recovered(db, db', a)
    <3>1. PICK a \in Action : Recovered(db, db', a)
      BY <2>4
    <3>2. epoch' = [epoch EXCEPT ![a[1]] = @ + 1]
      BY <3>1 DEF Recovered
    <3>3. CASE o # a[1]
      BY <1>0, <2>2, <3>1, <3>2, <3>3
    <3>4. CASE o = a[1]
      <4>1. epoch'[o] = epoch[o] + 1 /\ epoch[o] \in Nat
        BY <1>0, <3>2, <3>4
      <4>2. \A b \in Action : b[1] = o /\ inEpoch[b] # 0 => epochOf[b] <= epoch[o]
        BY DEF Allotted, ChargedWhenScheduled
      <4>3. Charged(o, epoch'[o]) = {}
        BY <1>0, <4>1, <4>2 DEF Charged
      <4>4. Cardinality({}) = 0
        BY FS_EmptySet
      <4>5. db'.attempts[o] = a[2] + 1 /\ db.attempts[o] = a[2] /\ a[2] \in Nat
        BY <2>2, <3>1, <3>4, ActionPairs
      <4>6. /\ db.attempts[o] < db'.attempts[o] /\ epoch[o] <= epoch'[o]
            /\ db'.attempts[o] \in Nat /\ epoch'[o] \in Nat
        BY <4>1, <4>5
      <4>7. Cardinality(Charged(o, epoch'[o])) = 0 /\ 0 < Allowance
        BY <1>0, <4>3, <4>4
      <4> QED
        BY <4>6, <4>7
    <3> QED
      BY <3>3, <3>4
  <2> QED
    BY <2>1, <2>3, <2>4 DEF Effect
<1>3. \A a \in Action : /\ a[1] \in Occurrence /\ a[2] \in Nat
                         /\ db.attempts[a[1]] \in Nat /\ epoch[a[1]] \in Nat
  BY <1>0, ActionPairs
<1>4. ChargedWhenScheduled'
  <2> SUFFICES ASSUME NEW a \in Action
               PROVE  /\ inEpoch[a] # 0 <=> db'.sched[a] # "none"
                      /\ inEpoch[a] # 0 => epochOf[a] <= epoch'[a[1]]
                      /\ inEpoch[a] # 0 => a[2] <= db'.attempts[a[1]]
    BY <1>0 DEF ChargedWhenScheduled
  <2>1. inEpoch[a] # 0 <=> db'.sched[a] # "none"
    BY <1>0 DEF Releases, Allotted, ChargedWhenScheduled
  <2>2. /\ inEpoch[a] # 0 => epochOf[a] <= epoch[a[1]]
        /\ inEpoch[a] # 0 => a[2] <= db.attempts[a[1]]
    BY DEF Allotted, ChargedWhenScheduled
  <2>3. /\ epoch[a[1]] <= epoch'[a[1]] /\ epoch'[a[1]] \in Nat
        /\ db.attempts[a[1]] <= db'.attempts[a[1]] /\ db'.attempts[a[1]] \in Nat
    BY <1>2, <1>3
  <2>4. inEpoch[a] # 0 => epochOf[a] <= epoch'[a[1]]
    <3>1. epochOf[a] \in Nat
      BY <1>0
    <3> QED
      BY <1>3, <2>2, <2>3, <3>1
  <2>5. inEpoch[a] # 0 => a[2] <= db'.attempts[a[1]]
    BY <1>3, <2>2, <2>3
  <2> QED
    BY <2>1, <2>4, <2>5
<1>5. CurrentIsCounted'
  <2> SUFFICES ASSUME NEW a \in Action, a[2] = db'.attempts[a[1]], inEpoch[a] # 0
               PROVE  /\ epochOf[a] = epoch'[a[1]]
                      /\ inEpoch[a] = Cardinality(Charged(a[1], epoch'[a[1]]))
    BY <1>0, <1>1 DEF CurrentIsCounted, Charged
  <2>1. ~ (db.attempts[a[1]] < db'.attempts[a[1]])
    BY <1>0, <1>3 DEF Allotted, ChargedWhenScheduled
  <2>2. db'.attempts[a[1]] = db.attempts[a[1]] /\ epoch'[a[1]] = epoch[a[1]]
    BY <1>2, <1>3, <2>1
  <2> QED
    BY <2>2 DEF Allotted, CurrentIsCounted
<1>6. WithinAllowance'
  BY <1>0, <1>1 DEF Allotted, WithinAllowance, Charged
<1>7. EmittedFits'
  <2> SUFFICES ASSUME NEW a \in Action, a[2] <= db'.attempts[a[1]], db'.sched[a] = "none"
               PROVE  Cardinality(Charged(a[1], epoch'[a[1]])) < Allowance
    BY <1>0, <1>1 DEF EmittedFits, Unscheduled, Charged
  <2>1. CASE db'.attempts[a[1]] = db.attempts[a[1]] /\ epoch'[a[1]] = epoch[a[1]]
    <3>1. a \in Unscheduled
      BY <1>0, <2>1 DEF Unscheduled, Releases
    <3> QED
      BY <2>1, <3>1 DEF Allotted, EmittedFits
  <2> QED
    BY <1>2, <1>3, <2>1
<1> QED
  BY <1>4, <1>5, <1>6, <1>7 DEF Allotted

(* No epoch is charged more than its allowance, and an emitted attempt can   *)
(* always be scheduled within it (OperationalRecovery.failure_policy,        *)
(* SchedulingStore.attempt_in_epoch).                                        *)
THEOREM AllowanceAlwaysHolds == Spec => []AllowanceHolds
<1>1. ASSUME IInv, Allotted, [Next]_vars PROVE Allotted'
  <2>1. CASE \E a \in Action : Schedule(a)
    BY <1>1, <2>1, ClaimAllotted
  <2>2. CASE Next /\ ~ \E a \in Action : Schedule(a)
    BY <1>1, <2>2, StepEffect, EffectAllotted
  <2>3. CASE UNCHANGED vars
    BY <1>1, <2>3 DEF vars, scheduleVars, Allotted, ChargedWhenScheduled, CurrentIsCounted,
                      WithinAllowance, EmittedFits, Unscheduled, Charged
  <2> QED
    BY <1>1, <2>1, <2>2, <2>3
<1>2. ASSUME IInv, Allotted PROVE AllowanceHolds
  <2>1. epochOf \in [Action -> Nat] /\ epoch \in [Occurrence -> Nat]
    BY <1>2 DEF IInv, TypeOK
  <2>2. ASSUME NEW o \in Occurrence, NEW a \in Action, a[1] = o, inEpoch[a] # 0
        PROVE  Cardinality({b \in Action : b[1] = o /\ inEpoch[b] # 0 /\ epochOf[b] = epochOf[a]})
                   <= Allowance
    BY <1>2, <2>1, <2>2 DEF Allotted, WithinAllowance, Charged
  <2>3. ASSUME NEW o \in Occurrence, NEW a \in Unscheduled, a[1] = o
        PROVE  attempt_in_epoch(o) <= Allowance
    <3>1. attempt_in_epoch(o) = Cardinality(Charged(o, epoch[o])) + 1
      BY DEF attempt_in_epoch, Charged
    <3>2. Cardinality(Charged(o, epoch[o])) < Allowance
      BY <1>2, <2>3 DEF Allotted, EmittedFits
    <3> QED
      BY <3>1, <3>2, ChargedFinite, ActionPairs
  <2> QED
    BY <2>2, <2>3 DEF AllowanceHolds
<1> QED
  BY <1>1, <1>2, InitAllotted, Invariance, PTL DEF Spec
=============================================================================
