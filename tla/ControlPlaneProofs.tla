------------------------ MODULE ControlPlaneProofs ------------------------
(***************************************************************************)
(* Theorems about the control plane, for every plan, allowance, capacity    *)
(* and bound.  The handlers of Worker facts and operator decisions are      *)
(* operators from database to database: each is shown to preserve Good;     *)
(* then the inductive invariant, the safety invariants and the fencing of   *)
(* Worker facts that follow from it; and that every transaction leaves the  *)
(* Runtime snapshot alone or is one step of RunLifecycle.                   *)
(***************************************************************************)
EXTENDS ControlPlane, FiniteSetTheorems, WellFoundedInduction, TLAPS

(* The invariants as predicates of a database.                              *)
PendingUntouched(d) ==
    \A o \in Occurrence : d.occ[o] = "pending" => d.attempts[o] = 0

LiveIn(d) ==
    \A a \in Action :
        /\ d.sched[a] = "active" => a[2] = d.attempts[a[1]]
        /\ a[2] < d.attempts[a[1]] => d.sched[a] = "failed"

AgreeIn(d) ==
    \A a \in Action :
        /\ d.sched[a] = "none" <=> d.state[a] = "none"
        /\ d.sched[a] = "active" => d.state[a] \in ReservedStates
        /\ d.sched[a] = "failed" =>
              \/ d.state[a] = "failed"
              \/ d.state[a] = "uncertain" /\ a[2] < d.attempts[a[1]]
        /\ d.sched[a] = "completed" <=> d.state[a] = "completed"
        /\ d.state[a] = "completed" =>
              d.occ[a[1]] = "completed" /\ a[2] = d.attempts[a[1]]
        /\ d.occ[a[1]] = "completed" /\ a[2] = d.attempts[a[1]] => d.state[a] = "completed"

CancelIn(d) ==
    \A a \in Action :
        /\ d.cancel[a] # 0 =>
              \/ d.state[a] \in CancellableStates
              \/ d.state[a] = "failed" /\ d.failure[a] = "cancelled"
        /\ d.state[a] = "failed" /\ d.failure[a] = "cancelled" =>
              /\ d.cancel[a] # 0
              /\ d.occ[a[1]] = "failed" /\ d.run = "failed"

(* Only a contract violation is retired while it is uncertain.              *)
RetiredIn(d) ==
    \A a \in Action :
        d.sched[a] = "failed" /\ d.state[a] = "uncertain" => d.failure[a] = "contract_violation"

Good(d) == PendingUntouched(d) /\ LiveIn(d) /\ AgreeIn(d) /\ CancelIn(d) /\ RetiredIn(d)

USE ControlPlaneAssumption

----------------------------------------------------------------------------
(* Shapes: which fields the building blocks of the handlers change.          *)

(* An action is the pair of its occurrence and its attempt number.           *)
LEMMA ActionPairs ==
    /\ MaxAttempts \in Nat /\ 1 \in 0 .. MaxAttempts /\ MaxGeneration \in Nat
    /\ Allowance \in Nat /\ Capacity \in Nat \ {0} /\ Members \in Nat
    /\ \A a \in Action : a[1] \in Occurrence /\ a[2] \in Nat /\ a[2] >= 1 /\ a[2] <= MaxAttempts
    /\ \A a, b \in Action : a[1] = b[1] /\ a[2] = b[2] => a = b
<1>1. /\ MaxAttempts \in Nat \ {0} /\ MaxGeneration \in Nat \ {0}
      /\ Allowance \in Nat \ {0} /\ Capacity \in Nat \ {0} /\ Members \in Nat \ {0}
  OBVIOUS
<1>2. \A a \in Action : a = <<a[1], a[2]>> /\ a[1] \in Occurrence /\ a[2] \in 1 .. MaxAttempts
  BY DEF Action
<1>3. \A a, b \in Action : a[1] = b[1] /\ a[2] = b[2] => a = b
  BY <1>2
<1> QED
  BY <1>1, <1>2, <1>3

(* The actions of a Run are finitely many, so the occupancy is a number.     *)
LEMMA OccupyingFinite ==
    ASSUME NEW d PROVE Cardinality(Occupying(d)) \in Nat
<1>1. IsFiniteSet(1 .. MaxAttempts)
  BY FS_Interval
<1>2. IsFiniteSet(Action)
  BY <1>1, FS_Product DEF Action
<1>3. IsFiniteSet(Occupying(d))
  BY <1>2, FS_Subset DEF Occupying
<1> QED
  BY <1>3, FS_CardinalityType

(* Refreshing the occupancy changes the occupancy only.                      *)
LEMMA UpdateShape ==
    ASSUME NEW d \in Database
    PROVE  LET u == update_active_dispatches(d)
           IN  /\ u \in Database
               /\ u.run = d.run /\ u.occ = d.occ /\ u.attempts = d.attempts
               /\ u.state = d.state /\ u.failure = d.failure /\ u.cancel = d.cancel
               /\ u.seen = d.seen /\ u.sched = d.sched
BY OccupyingFinite DEF update_active_dispatches, Database

(* A row changes in its state, failure and last generation.                  *)
LEMMA RowShape ==
    ASSUME NEW d \in Database, NEW a \in Action, NEW s \in DispatchState,
           NEW f \in Failure, NEW g \in 0 .. MaxGeneration
    PROVE  LET u == Row(d, a, s, f, g)
           IN  /\ u \in Database
               /\ u.run = d.run /\ u.occ = d.occ /\ u.attempts = d.attempts
               /\ u.state = [d.state EXCEPT ![a] = s]
               /\ u.failure = [d.failure EXCEPT ![a] = f]
               /\ u.seen = [d.seen EXCEPT ![a] = g]
               /\ u.cancel = d.cancel /\ u.sched = d.sched
BY DEF Row, Database

(* Ending a schedule changes that schedule only, and only an active one.     *)
LEMMA TerminalShape ==
    ASSUME NEW d \in Database, NEW a \in Action, NEW s \in {"completed", "failed"}
    PROVE  LET u == mark_scheduled_terminal(d, a, s)
           IN  /\ u \in Database
               /\ u.run = d.run /\ u.occ = d.occ /\ u.attempts = d.attempts
               /\ u.state = d.state /\ u.failure = d.failure /\ u.cancel = d.cancel
               /\ u.seen = d.seen
               /\ u.sched = [d.sched EXCEPT ![a] = IF d.sched[a] = "active" THEN s
                                                   ELSE d.sched[a]]
BY DEF mark_scheduled_terminal, Database, ScheduleState

(* Completing an occurrence starts only pending ones, and none if it ends    *)
(* the Run; it touches no dispatch or schedule.                              *)
LEMMA CompletedShape ==
    ASSUME NEW d \in Database, NEW a \in Action, NEW x \in BOOLEAN, runtime_accepts(d, a)
    PROVE  LET u == step_completed(d, a, x)
           IN  /\ u \in Database
               /\ u.state = d.state /\ u.failure = d.failure /\ u.cancel = d.cancel
               /\ u.seen = d.seen /\ u.sched = d.sched
               /\ u.run = "completed" => \A o \in Occurrence : u.occ[o] # "dispatched"
               /\ u.occ[a[1]] = "completed" /\ u.attempts[a[1]] = d.attempts[a[1]]
               /\ \A o \in Occurrence \ {a[1]} :
                    \/ u.occ[o] = d.occ[o] /\ u.attempts[o] = d.attempts[o]
                    \/ /\ d.occ[o] = "pending" /\ u.occ[o] = "dispatched"
                       /\ u.attempts[o] = 1 /\ u.run = "running"
<1> DEFINE occ == [d.occ EXCEPT ![a[1]] = "completed"]
           start == {o \in Occurrence : occ[o] = "pending" /\ Needs[o] \subseteq Completed(occ)}
           on == [d EXCEPT
                    !.occ = [o \in Occurrence |-> IF o \in start THEN "dispatched" ELSE occ[o]],
                    !.attempts = [o \in Occurrence |->
                                    IF o \in start THEN 1 ELSE d.attempts[o]]]
<1>0. /\ a[1] \in Occurrence /\ d.run = "running" /\ d.occ[a[1]] = "dispatched"
      /\ d.occ \in [Occurrence -> OccurrenceStatus]
      /\ occ \in [Occurrence -> OccurrenceStatus]
      /\ occ[a[1]] = "completed" /\ \A o \in Occurrence \ {a[1]} : occ[o] = d.occ[o]
  BY DEF Action, Database, runtime_accepts, OccurrenceStatus
<1>1. CASE x
  <2>1. step_completed(d, a, x) = [d EXCEPT !.run = "failed", !.occ = occ]
    BY <1>1 DEF step_completed
  <2> QED
    BY <1>0, <2>1 DEF Database, RunStatus
<1>2. CASE ~x /\ Completed(occ) = Occurrence
  <2>1. step_completed(d, a, x) = [d EXCEPT !.run = "completed", !.occ = occ]
    BY <1>2 DEF step_completed
  <2>2. \A o \in Occurrence : occ[o] = "completed"
    BY <1>2 DEF Completed
  <2> DEFINE u == [d EXCEPT !.run = "completed", !.occ = occ]
  <2>3. /\ u \in Database /\ u.run = "completed" /\ u.occ = occ /\ u.attempts = d.attempts
        /\ u.state = d.state /\ u.failure = d.failure /\ u.cancel = d.cancel
        /\ u.seen = d.seen /\ u.sched = d.sched
    <3> HIDE DEF occ
    <3> QED
      BY <1>0 DEF Database, RunStatus
  <2>4. step_completed(d, a, x) = u
    BY <2>1
  <2> HIDE DEF u, occ
  <2> QED
    BY <1>0, <2>2, <2>3, <2>4
<1>3. CASE ~x /\ Completed(occ) # Occurrence
  <2>1. step_completed(d, a, x) = on
    BY <1>3 DEF step_completed
  <2>2. \A o \in start : o # a[1] /\ d.occ[o] = "pending"
    BY <1>0
  <2>3. /\ on \in Database /\ on.run = d.run
        /\ on.state = d.state /\ on.failure = d.failure /\ on.cancel = d.cancel
        /\ on.seen = d.seen /\ on.sched = d.sched
        /\ on.occ = [o \in Occurrence |-> IF o \in start THEN "dispatched" ELSE occ[o]]
        /\ on.attempts = [o \in Occurrence |-> IF o \in start THEN 1 ELSE d.attempts[o]]
    <3> HIDE DEF occ, start
    <3> QED
      BY <1>0, ActionPairs DEF Database, OccurrenceStatus
  <2> HIDE DEF on, start, occ
  <2> QED
    BY <1>0, <2>1, <2>2, <2>3
<1> QED
  BY <1>1, <1>2, <1>3

(* Another attempt changes the attempt number of its occurrence only.        *)
LEMMA RetriedShape ==
    ASSUME NEW d \in Database, NEW a \in Action, a[2] < MaxAttempts
    PROVE  LET u == step_retried(d, a)
           IN  /\ u \in Database
               /\ u.run = d.run /\ u.occ = d.occ
               /\ u.attempts = [d.attempts EXCEPT ![a[1]] = a[2] + 1]
               /\ u.state = d.state /\ u.failure = d.failure /\ u.cancel = d.cancel
               /\ u.seen = d.seen /\ u.sched = d.sched
<1>1. a[1] \in Occurrence /\ a[2] + 1 \in 0 .. MaxAttempts
  BY ActionPairs
<1> QED
  BY <1>1 DEF step_retried, Database

(* A failed step ends its occurrence and the Run only.                       *)
LEMMA FailedShape ==
    ASSUME NEW d \in Database, NEW a \in Action
    PROVE  LET u == step_failed(d, a)
           IN  /\ u \in Database
               /\ u.run = "failed" /\ u.occ = [d.occ EXCEPT ![a[1]] = "failed"]
               /\ u.attempts = d.attempts
               /\ u.state = d.state /\ u.failure = d.failure /\ u.cancel = d.cancel
               /\ u.seen = d.seen /\ u.sched = d.sched
BY DEF step_failed, Database, Action, RunStatus, OccurrenceStatus

----------------------------------------------------------------------------
(* Two ways in which a handler changes a database and keeps it good.         *)

(* A row moves between states that hold resources; its failure is kept or    *)
(* told for the first time.  acknowledge, mark_running, mark_uncertain and   *)
(* mark_dispatched do this.                                                  *)
LEMMA GoodMove ==
    ASSUME NEW d \in Database, NEW u \in Database, NEW a \in Action,
           NEW s \in ReservedStates, NEW f \in Failure, Good(d),
           u.run = d.run, u.occ = d.occ, u.attempts = d.attempts,
           u.cancel = d.cancel, u.sched = d.sched,
           u.state = [d.state EXCEPT ![a] = s],
           u.failure = [d.failure EXCEPT ![a] = f],
           d.state[a] \in ReservedStates, d.sched[a] = "active",
           d.cancel[a] # 0 => s \in CancellableStates
    PROVE  Good(u)
<1>1. /\ \A b \in Action : b # a => u.state[b] = d.state[b] /\ u.failure[b] = d.failure[b]
      /\ u.state[a] = s /\ u.failure[a] = f
  BY DEF Database
<1>2. /\ s # "none" /\ s # "completed" /\ s # "failed"
      /\ d.state[a] # "none" /\ d.state[a] # "completed" /\ d.state[a] # "failed"
  BY DEF ReservedStates
<1>3. PendingUntouched(u) /\ LiveIn(u)
  BY DEF Good, PendingUntouched, LiveIn
<1>4. AgreeIn(u)
  BY <1>1, <1>2 DEF Good, AgreeIn
<1>5. CancelIn(u)
  BY <1>1, <1>2 DEF Good, CancelIn
<1>6. RetiredIn(u)
  BY <1>1 DEF Good, RetiredIn
<1> QED
  BY <1>3, <1>4, <1>5, <1>6 DEF Good

(* A row fails, with its schedule; cancelled only on request and then its    *)
(* occurrence and the Run have failed in the same step.                      *)
LEMMA GoodFail ==
    ASSUME NEW d \in Database, NEW u \in Database, NEW a \in Action, NEW f \in Failure,
           Good(d),
           u.run = d.run, u.occ = d.occ, u.attempts = d.attempts,
           u.cancel = d.cancel,
           u.state = [d.state EXCEPT ![a] = "failed"],
           u.failure = [d.failure EXCEPT ![a] = f],
           u.sched = [d.sched EXCEPT ![a] = "failed"],
           d.state[a] \in ReservedStates,
           d.cancel[a] # 0 => f = "cancelled",
           f = "cancelled" => d.cancel[a] # 0,
           f = "cancelled" => d.occ[a[1]] = "failed" /\ d.run = "failed"
    PROVE  Good(u)
<1>1. /\ \A b \in Action : b # a => /\ u.state[b] = d.state[b] /\ u.failure[b] = d.failure[b]
                                    /\ u.sched[b] = d.sched[b]
      /\ u.state[a] = "failed" /\ u.failure[a] = f
  BY DEF Database
<1>2. d.state[a] # "none" /\ d.state[a] # "completed" /\ d.state[a] # "failed"
  BY DEF ReservedStates
<1>3. u.sched[a] = "failed"
  BY DEF Database
<1>4. PendingUntouched(u)
  BY DEF Good, PendingUntouched
<1>5. LiveIn(u)
  BY <1>1, <1>3 DEF Good, LiveIn
<1>6. AgreeIn(u)
  BY <1>1, <1>2, <1>3 DEF Good, AgreeIn
<1>7. CancelIn(u)
  BY <1>1, <1>2 DEF Good, CancelIn
<1>8. RetiredIn(u)
  BY <1>1 DEF Good, RetiredIn
<1> QED
  BY <1>3, <1>4, <1>5, <1>6, <1>7, <1>8 DEF Good

(* Another attempt of an occurrence whose current one no longer holds its    *)
(* schedule: the old attempt may even still be uncertain.                    *)
LEMMA GoodRetry ==
    ASSUME NEW d \in Database, NEW a \in Action, Good(d),
           runtime_accepts(d, a), a[2] < MaxAttempts,
           d.sched[a] = "failed"
    PROVE  Good(step_retried(d, a)) /\ step_retried(d, a) \in Database
<1> DEFINE u == step_retried(d, a)
<1>1. /\ u \in Database /\ u.run = d.run /\ u.occ = d.occ
      /\ u.attempts = [d.attempts EXCEPT ![a[1]] = a[2] + 1]
      /\ u.state = d.state /\ u.failure = d.failure /\ u.cancel = d.cancel
      /\ u.sched = d.sched
  BY RetriedShape
<1> HIDE DEF u
<1>2. /\ d.occ[a[1]] = "dispatched" /\ d.attempts[a[1]] = a[2]
      /\ u.attempts[a[1]] = a[2] + 1 /\ a[1] \in Occurrence
      /\ \A o \in Occurrence : o # a[1] => u.attempts[o] = d.attempts[o]
      /\ \A o \in Occurrence : d.attempts[o] \in Nat
  BY <1>1, ActionPairs DEF runtime_accepts, Database
<1>3. PendingUntouched(u)
  BY <1>1, <1>2 DEF Good, PendingUntouched
<1>4. LiveIn(u)
  BY <1>1, <1>2, ActionPairs DEF Good, LiveIn
<1>5. AgreeIn(u)
  BY <1>1, <1>2, ActionPairs DEF Good, AgreeIn
<1>6. CancelIn(u) /\ RetiredIn(u)
  BY <1>1 DEF Good, CancelIn, RetiredIn
<1> QED
  BY <1>1, <1>3, <1>4, <1>5, <1>6 DEF Good, u

(* Refreshing the occupancy keeps a database good.                           *)
LEMMA GoodUpdate ==
    ASSUME NEW d \in Database, Good(d)
    PROVE  update_active_dispatches(d) \in Database /\ Good(update_active_dispatches(d))
BY UpdateShape
   DEF Good, PendingUntouched, LiveIn, AgreeIn, CancelIn, RetiredIn

(* A dispatch that is not terminal and was not retired holds its schedule.   *)
LEMMA HeldIsActive ==
    ASSUME NEW d \in Database, NEW a \in Action, Good(d), d.state[a] \in ReservedStates,
           \/ d.state[a] # "uncertain"
           \/ d.failure[a] # "contract_violation"
           \/ runtime_accepts(d, a)
    PROVE  d.sched[a] = "active"
<1>1. d.sched[a] \in {"none", "active", "completed", "failed"} /\ d.attempts[a[1]] \in Nat
  BY ActionPairs DEF Database, ScheduleState
<1>2. d.state[a] # "none" /\ d.state[a] # "completed" /\ d.state[a] # "failed"
  BY DEF ReservedStates
<1>3. d.sched[a] # "none" /\ d.sched[a] # "completed"
  BY <1>2 DEF Good, AgreeIn
<1>4. d.sched[a] # "failed"
  BY <1>1, <1>2, ActionPairs DEF Good, AgreeIn, RetiredIn, runtime_accepts
<1> QED
  BY <1>1, <1>3, <1>4

----------------------------------------------------------------------------
(* One lemma for each handler.                                               *)

(* Moving a row, as the handlers write it.                                   *)
LEMMA MoveRow ==
    ASSUME NEW d \in Database, NEW a \in Action, NEW g \in 0 .. MaxGeneration,
           NEW s \in ReservedStates, NEW f \in Failure, Good(d),
           d.state[a] \in ReservedStates, d.sched[a] = "active",
           d.cancel[a] # 0 => s \in CancellableStates
    PROVE  Row(d, a, s, f, g) \in Database /\ Good(Row(d, a, s, f, g))
<1> DEFINE u == Row(d, a, s, f, g)
<1>1. s \in DispatchState
  BY DEF DispatchState
<1>2. /\ u \in Database /\ u.run = d.run /\ u.occ = d.occ /\ u.attempts = d.attempts
      /\ u.state = [d.state EXCEPT ![a] = s] /\ u.failure = [d.failure EXCEPT ![a] = f]
      /\ u.cancel = d.cancel /\ u.sched = d.sched
  BY <1>1 DEF Row, Database
<1> HIDE DEF u
<1>3. Good(u)
  BY <1>2, GoodMove
<1> QED
  BY <1>2, <1>3 DEF u

(* Failing a row and its schedule, as the handlers write it.                 *)
LEMMA FailRow ==
    ASSUME NEW d \in Database, NEW a \in Action, NEW g \in 0 .. MaxGeneration,
           NEW f \in Failure, Good(d), d.state[a] \in ReservedStates,
           (f = "cancelled") <=> (d.cancel[a] # 0),
           f = "cancelled" => d.occ[a[1]] = "failed" /\ d.run = "failed"
    PROVE  LET u == update_active_dispatches(
                       mark_scheduled_terminal(Row(d, a, "failed", f, g), a, "failed"))
           IN  /\ u \in Database /\ Good(u)
               /\ u.run = d.run /\ u.occ = d.occ /\ u.attempts = d.attempts
               /\ u.sched[a] = "failed"
<1> DEFINE r == Row(d, a, "failed", f, g)
           t == mark_scheduled_terminal(r, a, "failed")
<1>1. "failed" \in DispatchState
  BY DEF DispatchState
<1>2. /\ r \in Database /\ r.run = d.run /\ r.occ = d.occ /\ r.attempts = d.attempts
      /\ r.state = [d.state EXCEPT ![a] = "failed"] /\ r.failure = [d.failure EXCEPT ![a] = f]
      /\ r.cancel = d.cancel /\ r.sched = d.sched
  BY <1>1 DEF Row, Database
<1> HIDE DEF r
<1>3. /\ t \in Database /\ t.run = r.run /\ t.occ = r.occ /\ t.attempts = r.attempts
      /\ t.state = r.state /\ t.failure = r.failure /\ t.cancel = r.cancel
      /\ t.sched = [r.sched EXCEPT ![a] = IF r.sched[a] = "active" THEN "failed"
                                          ELSE r.sched[a]]
  BY <1>2 DEF mark_scheduled_terminal, Database, ScheduleState
<1> HIDE DEF t
<1>4. Good(t) /\ t.sched[a] = "failed"
  <2>1. /\ t.run = d.run /\ t.occ = d.occ /\ t.attempts = d.attempts /\ t.cancel = d.cancel
        /\ t.state = [d.state EXCEPT ![a] = "failed"]
        /\ t.failure = [d.failure EXCEPT ![a] = f]
    BY <1>2, <1>3
  <2>2. d.sched[a] \in {"active", "failed"}
    BY DEF Good, AgreeIn, Database, ScheduleState, ReservedStates
  <2>3. t.sched = [d.sched EXCEPT ![a] = "failed"]
    BY <1>2, <1>3, <2>2 DEF Database
  <2>4. /\ d.cancel[a] # 0 => f = "cancelled"
        /\ f = "cancelled" => d.cancel[a] # 0
    OBVIOUS
  <2>5. Good(t)
    BY <1>3, <2>1, <2>3, <2>4, GoodFail
  <2>6. t.sched[a] = "failed"
    BY <2>3 DEF Database
  <2> QED
    BY <2>5, <2>6
<1> QED
  <2>1. update_active_dispatches(t) \in Database /\ Good(update_active_dispatches(t))
    BY <1>3, <1>4, GoodUpdate
  <2> DEFINE u == update_active_dispatches(t)
  <2>2. u.run = t.run /\ u.occ = t.occ /\ u.attempts = t.attempts /\ u.sched = t.sched
    BY <1>3, UpdateShape
  <2> QED
    BY <1>2, <1>3, <1>4, <2>1, <2>2 DEF r, t

(* An acknowledgement keeps the ledger good (acknowledge).                   *)
LEMMA AcknowledgeGood ==
    ASSUME NEW d \in Database, NEW a \in Action, NEW g \in 0 .. MaxGeneration, Good(d)
    PROVE  acknowledge(d, a, g) \in Database /\ Good(acknowledge(d, a, g))
<1>1. CASE d.state[a] \in {"claimed", "dispatched"}
  <2>1. d.sched[a] = "active"
    BY <1>1, HeldIsActive DEF ReservedStates
  <2>2. d.cancel[a] = 0 \/ "acknowledged" \in CancellableStates
    BY DEF CancellableStates
  <2>3. d.failure[a] \in Failure
    BY DEF Database
  <2>4. LET r == Row(d, a, "acknowledged", d.failure[a], g) IN r \in Database /\ Good(r)
    BY <1>1, <2>1, <2>2, <2>3, MoveRow DEF ReservedStates
  <2> QED
    BY <1>1, <2>4, GoodUpdate DEF acknowledge
<1>2. CASE d.state[a] \notin {"claimed", "dispatched"}
  BY <1>2, GoodUpdate DEF acknowledge
<1> QED
  BY <1>1, <1>2

(* A dispatch that runs keeps the ledger good (mark_running).                *)
LEMMA RunningGood ==
    ASSUME NEW d \in Database, NEW a \in Action, NEW g \in 0 .. MaxGeneration, Good(d),
           d.state[a] # "none"
    PROVE  mark_running(d, a, g) \in Database /\ Good(mark_running(d, a, g))
<1> DEFINE refused == \/ d.state[a] \in {"completed", "failed"}
                      \/ d.state[a] = "uncertain" /\ d.failure[a] # "observation_timeout"
<1>1. CASE ~ refused
  <2>1. d.state[a] \in ReservedStates
    BY <1>1 DEF Database, DispatchState
  <2>2. d.sched[a] = "active"
    BY <1>1, <2>1, HeldIsActive
  <2>3. d.failure[a] \in Failure /\ "running" \in ReservedStates /\ "running" \in CancellableStates
    BY DEF Database, ReservedStates, CancellableStates
  <2>4. LET r == Row(d, a, "running", d.failure[a], g) IN r \in Database /\ Good(r)
    BY <2>1, <2>2, <2>3, MoveRow
  <2> QED
    BY <1>1, <2>4, GoodUpdate DEF mark_running
<1>2. CASE refused
  BY <1>2, GoodUpdate DEF mark_running
<1> QED
  BY <1>1, <1>2

(* An uncertain outcome keeps the ledger good (mark_uncertain).              *)
LEMMA UncertainGood ==
    ASSUME NEW d \in Database, NEW a \in Action, NEW g \in 0 .. MaxGeneration, Good(d),
           NEW f \in UncertainFacts, d.state[a] # "none", can_mark_uncertain(d, a, f)
    PROVE  mark_uncertain(d, a, f, g) \in Database /\ Good(mark_uncertain(d, a, f, g))
<1>1. CASE d.state[a] \notin {"completed", "failed", "uncertain"}
  <2>1. d.state[a] \in ReservedStates
    BY <1>1 DEF Database, DispatchState
  <2>2. d.sched[a] = "active"
    BY <1>1, <2>1, HeldIsActive
  <2>3. f \in Failure /\ "uncertain" \in ReservedStates /\ d.cancel[a] = 0
    BY <1>1 DEF Failure, Uncertainties, ReservedStates, can_mark_uncertain
  <2>4. LET r == Row(d, a, "uncertain", f, g) IN r \in Database /\ Good(r)
    BY <2>1, <2>2, <2>3, MoveRow
  <2> QED
    BY <1>1, <2>4, GoodUpdate DEF mark_uncertain
<1>2. CASE d.state[a] \in {"completed", "failed", "uncertain"}
  BY <1>2, GoodUpdate DEF mark_uncertain
<1> QED
  BY <1>1, <1>2

(* A database that differs in generations and occupancy only is as good.     *)
LEMMA GoodSame ==
    ASSUME NEW d \in Database, NEW u \in Database, Good(d),
           u.run = d.run, u.occ = d.occ, u.attempts = d.attempts, u.cancel = d.cancel,
           u.state = d.state, u.failure = d.failure, u.sched = d.sched
    PROVE  Good(u)
BY DEF Good, PendingUntouched, LiveIn, AgreeIn, CancelIn, RetiredIn

(* A failed step keeps the database good: its dispatch was not completed.    *)
LEMMA StepFailedGood ==
    ASSUME NEW d \in Database, NEW a \in Action, Good(d), runtime_accepts(d, a)
    PROVE  LET u == step_failed(d, a)
           IN  /\ u \in Database /\ Good(u)
               /\ u.state[a] = d.state[a] /\ u.cancel[a] = d.cancel[a]
               /\ u.occ[a[1]] = "failed" /\ u.run = "failed"
<1> DEFINE u == step_failed(d, a)
<1>1. /\ u \in Database
      /\ u.run = "failed" /\ u.occ = [d.occ EXCEPT ![a[1]] = "failed"]
      /\ u.attempts = d.attempts
      /\ u.state = d.state /\ u.failure = d.failure /\ u.cancel = d.cancel
      /\ u.sched = d.sched
  BY FailedShape
<1> HIDE DEF u
<1>2. /\ d.occ[a[1]] = "dispatched" /\ u.occ[a[1]] = "failed"
      /\ \A o \in Occurrence : o # a[1] => u.occ[o] = d.occ[o]
      /\ \A b \in Action : b[1] \in Occurrence
  BY <1>1, ActionPairs DEF runtime_accepts, Database
<1>3. PendingUntouched(u) /\ LiveIn(u)
  BY <1>1, <1>2 DEF Good, PendingUntouched, LiveIn
<1>4. AgreeIn(u)
  BY <1>1, <1>2 DEF Good, AgreeIn
<1>5. CancelIn(u) /\ RetiredIn(u)
  BY <1>1, <1>2 DEF Good, CancelIn, RetiredIn
<1> QED
  BY <1>1, <1>2, <1>3, <1>4, <1>5 DEF Good, u

(* A recorded failure keeps the ledger good (record_failure).                *)
LEMMA RecordGood ==
    ASSUME NEW d \in Database, NEW a \in Action, NEW g \in 0 .. MaxGeneration, Good(d),
           NEW f \in FailureFacts, d.state[a] # "none", can_record(d, a, f)
    PROVE  record(d, a, f, g) \in Database /\ Good(record(d, a, f, g))
<1>1. CASE d.state[a] = "failed"
  BY <1>1, GoodUpdate DEF record, mark_failed
<1>2. CASE d.state[a] # "failed"
  <2> DEFINE u == update_active_dispatches(
                     mark_scheduled_terminal(Row(d, a, "failed", f, g), a, "failed"))
  <2>1. d.state[a] \in ReservedStates
    BY <1>2 DEF Database, DispatchState, can_record, can_mark_failed
  <2>2. f \in Failure /\ f # "cancelled" /\ d.cancel[a] = 0
    BY DEF Failure, WorkerFailures, can_record, can_mark_failed
  <2>3. /\ u \in Database /\ Good(u)
        /\ u.run = d.run /\ u.occ = d.occ /\ u.attempts = d.attempts
        /\ u.sched[a] = "failed"
    BY <2>1, <2>2, FailRow
  <2>4. mark_failed(d, a, f, g) = u
    BY <1>2 DEF mark_failed
  <2> HIDE DEF u
  <2>5. CASE automatic_retry(a, f)
    <3>1. runtime_accepts(d, a) /\ a[2] < MaxAttempts
      BY <1>2, <2>5 DEF can_record
    <3>2. runtime_accepts(u, a)
      BY <2>3, <3>1 DEF runtime_accepts
    <3>3. record(d, a, f, g) = step_retried(u, a)
      BY <1>2, <2>4, <2>5 DEF record
    <3> QED
      BY <2>3, <3>1, <3>2, <3>3, GoodRetry
  <2>6. CASE ~ automatic_retry(a, f)
    BY <2>3, <2>4, <2>6 DEF record
  <2> QED
    BY <2>5, <2>6
<1> QED
  BY <1>1, <1>2

(* A cancellation keeps the ledger good (cancel).                            *)
LEMMA CancelGood ==
    ASSUME NEW d \in Database, NEW a \in Action, NEW g \in 0 .. MaxGeneration, Good(d),
           NEW c \in 0 .. MaxGeneration, d.state[a] # "none", can_cancel(d, a, g, c)
    PROVE  cancel(d, a, g) \in Database /\ Good(cancel(d, a, g))
<1>1. CASE d.state[a] = "failed"
  BY <1>1, GoodUpdate DEF cancel, mark_failed
<1>2. CASE d.state[a] # "failed"
  <2> DEFINE u == step_failed(d, a)
  <2>1. d.state[a] \in ReservedStates
    BY <1>2 DEF Database, DispatchState, can_cancel, can_mark_failed
  <2>2. runtime_accepts(d, a) /\ d.cancel[a] # 0 /\ "cancelled" \in Failure
    BY <1>2 DEF can_cancel, Failure
  <2>3. /\ u \in Database /\ Good(u)
        /\ u.state[a] = d.state[a] /\ u.cancel[a] = d.cancel[a]
        /\ u.occ[a[1]] = "failed" /\ u.run = "failed"
    BY <2>2, StepFailedGood
  <2>4. cancel(d, a, g) = mark_failed(u, a, "cancelled", g)
    BY <1>2 DEF cancel
  <2> HIDE DEF u
  <2>5. mark_failed(u, a, "cancelled", g) =
          update_active_dispatches(
             mark_scheduled_terminal(Row(u, a, "failed", "cancelled", g), a, "failed"))
    BY <1>2, <2>3 DEF mark_failed
  <2> QED
    BY <2>1, <2>2, <2>3, <2>4, <2>5, FailRow
<1> QED
  BY <1>1, <1>2

(* A first completion: the occurrence completes with this attempt, and only  *)
(* occurrences that were never attempted start.                              *)
LEMMA CompleteFirstGood ==
    ASSUME NEW d \in Database, NEW a \in Action, NEW x \in BOOLEAN,
           Good(d), runtime_accepts(d, a), d.cancel[a] = 0, d.state[a] \in ReservedStates,
           NEW u \in Database,
           u.run = step_completed(d, a, x).run,
           u.occ = step_completed(d, a, x).occ,
           u.attempts = step_completed(d, a, x).attempts, u.cancel = d.cancel,
           u.state = [d.state EXCEPT ![a] = "completed"], u.failure = d.failure,
           u.sched = [d.sched EXCEPT ![a] = "completed"]
    PROVE  Good(u)
<1> DEFINE c == step_completed(d, a, x)
<1>1. /\ c.occ[a[1]] = "completed" /\ c.attempts[a[1]] = d.attempts[a[1]]
      /\ \A o \in Occurrence \ {a[1]} :
            \/ c.occ[o] = d.occ[o] /\ c.attempts[o] = d.attempts[o]
            \/ /\ d.occ[o] = "pending" /\ c.occ[o] = "dispatched"
               /\ c.attempts[o] = 1 /\ c.run = "running"
      /\ d.run = "running" /\ d.occ[a[1]] = "dispatched" /\ d.attempts[a[1]] = a[2]
  BY CompletedShape DEF runtime_accepts
<1>c. u.run = c.run /\ u.occ = c.occ /\ u.attempts = c.attempts
  OBVIOUS
<1> HIDE DEF c
<1>2. /\ \A b \in Action : b # a => u.state[b] = d.state[b] /\ u.sched[b] = d.sched[b]
      /\ u.state[a] = "completed" /\ u.sched[a] = "completed"
      /\ \A b \in Action : b[1] \in Occurrence /\ b[2] \in Nat /\ b[2] >= 1
      /\ \A o \in Occurrence : d.attempts[o] \in Nat
      /\ \A b \in Action : b # a /\ b[1] = a[1] => b[2] # a[2]
  BY ActionPairs DEF Database
<1>3. d.state[a] # "none" /\ d.state[a] # "completed" /\ d.state[a] # "failed"
  BY DEF ReservedStates
<1>4. PendingUntouched(u)
  BY <1>c, <1>1 DEF Good, PendingUntouched
<1>5. LiveIn(u)
  BY <1>c, <1>1, <1>2 DEF Good, LiveIn, PendingUntouched
<1>6. AgreeIn(u)
  <2> SUFFICES ASSUME NEW b \in Action
               PROVE /\ u.sched[b] = "none" <=> u.state[b] = "none"
                     /\ u.sched[b] = "active" => u.state[b] \in ReservedStates
                     /\ u.sched[b] = "failed" =>
                           \/ u.state[b] = "failed"
                           \/ u.state[b] = "uncertain" /\ b[2] < u.attempts[b[1]]
                     /\ u.sched[b] = "completed" <=> u.state[b] = "completed"
                     /\ u.state[b] = "completed" =>
                           u.occ[b[1]] = "completed" /\ b[2] = u.attempts[b[1]]
                     /\ u.occ[b[1]] = "completed" /\ b[2] = u.attempts[b[1]] =>
                           u.state[b] = "completed"
    BY DEF AgreeIn
  <2>1. CASE b = a
    BY <1>c, <1>1, <1>2, <2>1
  <2>2. CASE b # a /\ b[1] = a[1]
    BY <1>c, <1>1, <1>2, <2>2 DEF Good, AgreeIn
  <2>3. CASE b[1] # a[1]
    <3>1. b # a /\ u.state[b] = d.state[b] /\ u.sched[b] = d.sched[b]
      BY <1>2, <2>3
    <3> QED
      BY <1>c, <1>1, <1>2, <2>3, <3>1 DEF Good, AgreeIn, PendingUntouched
  <2> QED
    BY <2>1, <2>2, <2>3
<1>7. CancelIn(u) /\ RetiredIn(u)
  BY <1>c, <1>1, <1>2, <1>3 DEF Good, CancelIn, RetiredIn
<1> QED
  BY <1>4, <1>5, <1>6, <1>7 DEF Good

(* A completion keeps the ledger good (complete).                            *)
LEMMA CompleteGood ==
    ASSUME NEW d \in Database, NEW a \in Action, NEW g \in 0 .. MaxGeneration,
           NEW x \in BOOLEAN, Good(d), d.state[a] # "none", can_complete(d, a)
    PROVE  complete(d, a, g, x) \in Database /\ Good(complete(d, a, g, x))
<1> DEFINE c == IF d.state[a] = "completed" THEN d ELSE step_completed(d, a, x)
           r == Row(c, a, "completed", c.failure[a], g)
           t == mark_scheduled_terminal(r, a, "completed")
<1>0. complete(d, a, g, x) = update_active_dispatches(t)
  BY DEF complete, mark_completed
<1>1. /\ c \in Database /\ c.state = d.state /\ c.failure = d.failure
      /\ c.cancel = d.cancel /\ c.sched = d.sched
  BY CompletedShape DEF can_complete
<1>c. d.state[a] # "completed" => c = step_completed(d, a, x)
  OBVIOUS
<1>d. d.state[a] = "completed" => c = d
  OBVIOUS
<1> HIDE DEF c
<1>2. /\ r \in Database /\ r.run = c.run /\ r.occ = c.occ /\ r.attempts = c.attempts
      /\ r.state = [c.state EXCEPT ![a] = "completed"] /\ r.failure = c.failure
      /\ r.cancel = c.cancel /\ r.sched = c.sched
  BY <1>1 DEF Row, Database, DispatchState
<1> HIDE DEF r
<1>3. /\ t \in Database /\ t.run = r.run /\ t.occ = r.occ /\ t.attempts = r.attempts
      /\ t.state = r.state /\ t.failure = r.failure /\ t.cancel = r.cancel
      /\ t.sched = [r.sched EXCEPT ![a] = IF r.sched[a] = "active" THEN "completed"
                                          ELSE r.sched[a]]
  BY <1>2 DEF mark_scheduled_terminal, Database, ScheduleState
<1> HIDE DEF t
<1>4. CASE d.state[a] = "completed"
  <2>1. d.sched[a] = "completed"
    BY <1>4 DEF Good, AgreeIn
  <2>2. t.state = d.state /\ t.sched = d.sched
    BY <1>1, <1>2, <1>3, <1>4, <2>1 DEF Database
  <2>3. Good(t)
    BY <1>1, <1>2, <1>3, <1>d, <1>4, <2>2, GoodSame
  <2> QED
    BY <1>0, <1>3, <2>3, GoodUpdate
<1>5. CASE d.state[a] # "completed"
  <2>1. /\ runtime_accepts(d, a) /\ d.cancel[a] = 0 /\ d.state[a] \in ReservedStates
        /\ c = step_completed(d, a, x)
    BY <1>c, <1>5 DEF can_complete, can_mark_completed, Database, DispatchState
  <2>2. d.sched[a] = "active"
    BY <2>1, HeldIsActive
  <2>3. /\ t.run = c.run /\ t.occ = c.occ /\ t.attempts = c.attempts /\ t.cancel = d.cancel
        /\ t.state = [d.state EXCEPT ![a] = "completed"] /\ t.failure = d.failure
        /\ t.sched = [d.sched EXCEPT ![a] = "completed"]
    BY <1>1, <1>2, <1>3, <2>2 DEF Database
  <2>4. /\ t.run = step_completed(d, a, x).run /\ t.occ = step_completed(d, a, x).occ
        /\ t.attempts = step_completed(d, a, x).attempts
    BY <2>1, <2>3
  <2>5. Good(t)
    BY <1>3, <2>1, <2>3, <2>4, CompleteFirstGood
  <2> QED
    BY <1>0, <1>3, <2>5, GoodUpdate
<1> QED
  BY <1>4, <1>5

(* The operator ends an uncertain attempt with another one ...               *)
LEMMA ResolveRetryGood ==
    ASSUME NEW d \in Database, NEW a \in Action, Good(d), d.state[a] = "uncertain",
           runtime_accepts(d, a), a[2] < MaxAttempts
    PROVE  LET u == step_retried(resolve_uncertain(d, a, "operator_retry_requested"), a)
           IN  u \in Database /\ Good(u)
<1> DEFINE f == "operator_retry_requested"
           u == update_active_dispatches(
                   mark_scheduled_terminal(Row(d, a, "failed", f, d.seen[a]), a, "failed"))
<1>1. f \in Failure /\ f # "cancelled" /\ d.state[a] \in ReservedStates
      /\ d.seen[a] \in 0 .. MaxGeneration /\ d.cancel[a] = 0
  BY DEF Failure, OperatorFailures, ReservedStates, Database, Good, CancelIn, CancellableStates
<1>2. /\ u \in Database /\ Good(u)
      /\ u.run = d.run /\ u.occ = d.occ /\ u.attempts = d.attempts
      /\ u.sched[a] = "failed"
  BY <1>1, FailRow
<1>3. resolve_uncertain(d, a, f) = u
  BY DEF resolve_uncertain
<1> HIDE DEF u, f
<1>4. runtime_accepts(u, a)
  BY <1>2 DEF runtime_accepts
<1> QED
  BY <1>2, <1>3, <1>4, GoodRetry DEF f

(* ... or as a failure of the step.                                          *)
LEMMA ResolveFailedGood ==
    ASSUME NEW d \in Database, NEW a \in Action, Good(d), d.state[a] = "uncertain",
           runtime_accepts(d, a)
    PROVE  LET u == resolve_uncertain(step_failed(d, a), a, "operator_marked_failed")
           IN  u \in Database /\ Good(u)
<1> DEFINE f == "operator_marked_failed"
           u == step_failed(d, a)
<1>1. f \in Failure /\ f # "cancelled" /\ d.state[a] \in ReservedStates /\ d.cancel[a] = 0
  BY DEF Failure, OperatorFailures, ReservedStates, Database, Good, CancelIn, CancellableStates
<1>2. u \in Database /\ Good(u) /\ u.state[a] = d.state[a] /\ u.cancel[a] = d.cancel[a]
  BY StepFailedGood
<1> HIDE DEF u, f
<1>3. u.seen[a] \in 0 .. MaxGeneration
  BY <1>2 DEF Database
<1> QED
  BY <1>1, <1>2, <1>3, FailRow DEF resolve_uncertain, u, f

(* A fresh recovery retires a contract violation, which stays uncertain, and *)
(* asks for another attempt in the same step.                                *)
LEMMA RetireGood ==
    ASSUME NEW d \in Database, NEW a \in Action, Good(d), d.state[a] = "uncertain",
           d.failure[a] = "contract_violation", d.sched[a] = "active",
           runtime_accepts(d, a), a[2] < MaxAttempts
    PROVE  LET u == step_retried(retire_uncertain_schedule(d, a), a)
           IN  u \in Database /\ Good(u)
<1> DEFINE t == [d EXCEPT !.sched[a] = "failed"]
           r == update_active_dispatches(t)
           u == step_retried(r, a)
<1>1. /\ t \in Database /\ t.run = d.run /\ t.occ = d.occ /\ t.attempts = d.attempts
      /\ t.state = d.state /\ t.failure = d.failure /\ t.cancel = d.cancel
      /\ t.sched = [d.sched EXCEPT ![a] = "failed"]
  BY DEF Database, ScheduleState
<1>0. retire_uncertain_schedule(d, a) = r
  BY DEF retire_uncertain_schedule
<1> HIDE DEF t
<1>2. /\ r \in Database /\ r.run = t.run /\ r.occ = t.occ /\ r.attempts = t.attempts
      /\ r.state = t.state /\ r.failure = t.failure /\ r.cancel = t.cancel
      /\ r.sched = t.sched
  BY <1>1, UpdateShape
<1> HIDE DEF r
<1>3. /\ u \in Database /\ u.run = r.run /\ u.occ = r.occ
      /\ u.attempts = [r.attempts EXCEPT ![a[1]] = a[2] + 1]
      /\ u.state = r.state /\ u.failure = r.failure /\ u.cancel = r.cancel
      /\ u.sched = r.sched
  BY <1>2, RetriedShape
<1> HIDE DEF u
<1>4. /\ u.run = d.run /\ u.occ = d.occ /\ u.state = d.state /\ u.failure = d.failure
      /\ u.cancel = d.cancel
      /\ u.sched[a] = "failed" /\ \A b \in Action : b # a => u.sched[b] = d.sched[b]
      /\ d.occ[a[1]] = "dispatched" /\ d.attempts[a[1]] = a[2]
      /\ u.attempts[a[1]] = a[2] + 1 /\ a[1] \in Occurrence
      /\ \A o \in Occurrence : o # a[1] => u.attempts[o] = d.attempts[o]
      /\ \A o \in Occurrence : d.attempts[o] \in Nat
  BY <1>1, <1>2, <1>3, ActionPairs DEF runtime_accepts, Database
<1>5. PendingUntouched(u)
  BY <1>4 DEF Good, PendingUntouched
<1>6. LiveIn(u)
  BY <1>4, ActionPairs DEF Good, LiveIn
<1>7. AgreeIn(u)
  BY <1>4, ActionPairs DEF Good, AgreeIn
<1>8. CancelIn(u) /\ RetiredIn(u)
  BY <1>4 DEF Good, CancelIn, RetiredIn
<1> QED
  BY <1>0, <1>3, <1>5, <1>6, <1>7, <1>8 DEF Good, u

----------------------------------------------------------------------------
(* Least picks a member of a set of naturals.                                *)
LEMMA LeastMember ==
    ASSUME NEW S, S \subseteq Nat, S # {} PROVE Least(S) \in S
<1> DEFINE R == OpToRel(<, Nat)
<1>1. IsWellFoundedOn(R, Nat)
  BY NatLessThanWellFounded
<1>2. \A x, y \in Nat : <<y, x>> \in R <=> y < x
  BY DEF OpToRel
<1> HIDE DEF R
<1>3. \E x \in S : \A y \in S : ~ (<<y, x>> \in R)
  BY <1>1, WFMin
<1>4. PICK x \in S : \A y \in S : ~ (<<y, x>> \in R)
  BY <1>3
<1>5. \A y \in S : x <= y
  <2> SUFFICES ASSUME NEW y \in S PROVE x <= y
    OBVIOUS
  <2>1. x \in Nat /\ y \in Nat /\ ~ (y < x)
    BY <1>2, <1>4
  <2> QED
    BY <2>1
<1> QED
  BY <1>5 DEF Least

----------------------------------------------------------------------------
(* What a handler of a fact of generation g may do to the rows: a terminal   *)
(* row keeps how it ended, and the generation last seen is kept or is g.     *)
Fenced(d, u, g) ==
    \A b \in Action :
        /\ u.seen[b] = d.seen[b] \/ u.seen[b] = g
        /\ d.state[b] \in {"completed", "failed"} =>
              u.state[b] = d.state[b] /\ u.failure[b] = d.failure[b]

(* One row changes, and is not a terminal one or ends as it had.             *)
LEMMA FencedRow ==
    ASSUME NEW d \in Database, NEW a \in Action, NEW s \in DispatchState,
           NEW f \in Failure, NEW g \in 0 .. MaxGeneration,
           d.state[a] \in {"completed", "failed"} => s = d.state[a] /\ f = d.failure[a]
    PROVE  Row(d, a, s, f, g) \in Database /\ Fenced(d, Row(d, a, s, f, g), g)
<1> DEFINE u == Row(d, a, s, f, g)
<1>1. /\ u \in Database
      /\ u.state = [d.state EXCEPT ![a] = s]
      /\ u.failure = [d.failure EXCEPT ![a] = f]
      /\ u.seen = [d.seen EXCEPT ![a] = g]
  BY DEF Row, Database
<1> HIDE DEF u
<1>2. Fenced(d, u, g)
  BY <1>1 DEF Fenced, Database
<1> QED
  BY <1>1, <1>2 DEF u

(* Ending the schedule and refreshing the occupancy touch no row.            *)
LEMMA FencedUpdate ==
    ASSUME NEW d, NEW u \in Database, NEW g, Fenced(d, u, g)
    PROVE  Fenced(d, update_active_dispatches(u), g)
BY UpdateShape DEF Fenced

(* An action that ends for the scheduler keeps the terminal rows.            *)
LEMMA FencedTerminal ==
    ASSUME NEW d, NEW u \in Database, NEW g, Fenced(d, u, g),
           NEW a \in Action, NEW s \in {"completed", "failed"}
    PROVE  Fenced(d, update_active_dispatches(mark_scheduled_terminal(u, a, s)), g)
<1> DEFINE t == mark_scheduled_terminal(u, a, s)
<1>1. t \in Database /\ t.state = u.state /\ t.failure = u.failure /\ t.seen = u.seen
  BY DEF mark_scheduled_terminal, Database, ScheduleState
<1> HIDE DEF t
<1>2. Fenced(d, t, g)
  BY <1>1 DEF Fenced
<1> QED
  BY <1>1, <1>2, FencedUpdate DEF t

(* Doing nothing keeps the terminal rows.                                    *)
LEMMA FencedSelf ==
    ASSUME NEW d, NEW g PROVE Fenced(d, d, g)
BY DEF Fenced

(* The Runtime transitions touch no row.                                     *)
LEMMA FencedStep ==
    ASSUME NEW d \in Database, NEW e \in Database, NEW u, NEW g, Fenced(e, u, g),
           e.state = d.state, e.failure = d.failure, e.seen = d.seen
    PROVE  Fenced(d, u, g)
BY DEF Fenced

(* The facts of a running dispatch keep the terminal rows.                   *)
LEMMA FactsFenced ==
    ASSUME NEW d \in Database, NEW a \in Action, NEW g \in 0 .. MaxGeneration,
           d.state[a] # "none"
    PROVE  /\ Fenced(d, acknowledge(d, a, g), g)
           /\ Fenced(d, mark_running(d, a, g), g)
           /\ \A f \in UncertainFacts : Fenced(d, mark_uncertain(d, a, f, g), g)
<1>0. d.failure[a] \in Failure /\ UncertainFacts \subseteq Failure
  BY DEF Database, Failure, Uncertainties
<1>1. Fenced(d, acknowledge(d, a, g), g)
  <2>1. CASE d.state[a] \in {"claimed", "dispatched"}
    <3>1. "acknowledged" \in DispatchState /\ d.state[a] \notin {"completed", "failed"}
      BY <2>1 DEF DispatchState, ReservedStates
    <3> QED
      BY <1>0, <2>1, <3>1, FencedRow, FencedUpdate DEF acknowledge
  <2>2. CASE d.state[a] \notin {"claimed", "dispatched"}
    BY <2>2, FencedSelf, FencedUpdate DEF acknowledge
  <2> QED
    BY <2>1, <2>2
<1>2. Fenced(d, mark_running(d, a, g), g)
  <2> DEFINE refused == \/ d.state[a] \in {"completed", "failed"}
                        \/ d.state[a] = "uncertain" /\ d.failure[a] # "observation_timeout"
  <2>1. CASE ~ refused
    <3>1. "running" \in DispatchState /\ d.state[a] \notin {"completed", "failed"}
      BY <2>1 DEF DispatchState, ReservedStates
    <3> QED
      BY <1>0, <2>1, <3>1, FencedRow, FencedUpdate DEF mark_running
  <2>2. CASE refused
    BY <2>2, FencedSelf, FencedUpdate DEF mark_running
  <2> QED
    BY <2>1, <2>2
<1>3. ASSUME NEW f \in UncertainFacts PROVE Fenced(d, mark_uncertain(d, a, f, g), g)
  <2>1. CASE d.state[a] \notin {"completed", "failed", "uncertain"}
    <3>1. "uncertain" \in DispatchState /\ d.state[a] \notin {"completed", "failed"}
      BY <2>1 DEF DispatchState, ReservedStates
    <3> QED
      BY <1>0, <2>1, <3>1, FencedRow, FencedUpdate DEF mark_uncertain
  <2>2. CASE d.state[a] \in {"completed", "failed", "uncertain"}
    BY <2>2, FencedSelf, FencedUpdate DEF mark_uncertain
  <2> QED
    BY <2>1, <2>2
<1> QED
  BY <1>1, <1>2, <1>3

(* A row that is failed by mark_failed or resolve_uncertain.                 *)
LEMMA FencedFail ==
    ASSUME NEW d \in Database, NEW a \in Action, NEW g \in 0 .. MaxGeneration,
           NEW f \in Failure, d.state[a] \in ReservedStates
    PROVE  Fenced(d, update_active_dispatches(
                        mark_scheduled_terminal(Row(d, a, "failed", f, g), a, "failed")), g)
<1>1. "failed" \in DispatchState /\ d.state[a] \notin {"completed", "failed"}
  BY DEF DispatchState, ReservedStates
<1>2. LET r == Row(d, a, "failed", f, g) IN r \in Database /\ Fenced(d, r, g)
  BY <1>1, FencedRow
<1> QED
  BY <1>2, FencedTerminal

(* ... and a Runtime transition after it.                                    *)
LEMMA FencedRetry ==
    ASSUME NEW d \in Database, NEW u \in Database, NEW g, Fenced(d, u, g),
           NEW a \in Action, a[2] < MaxAttempts
    PROVE  Fenced(d, step_retried(u, a), g)
<1> DEFINE v == step_retried(u, a)
<1>1. v.state = u.state /\ v.failure = u.failure /\ v.seen = u.seen
  BY RetriedShape
<1> HIDE DEF v
<1>2. Fenced(d, v, g)
  BY <1>1 DEF Fenced
<1> QED
  BY <1>2 DEF v

(* A completion keeps the terminal rows.                                     *)
LEMMA CompleteFenced ==
    ASSUME NEW d \in Database, NEW a \in Action, NEW g \in 0 .. MaxGeneration,
           NEW x \in BOOLEAN, can_complete(d, a)
    PROVE  Fenced(d, complete(d, a, g, x), g)
<1> DEFINE c == IF d.state[a] = "completed" THEN d ELSE step_completed(d, a, x)
           r == Row(c, a, "completed", c.failure[a], g)
<1>0. complete(d, a, g, x) = update_active_dispatches(mark_scheduled_terminal(r, a, "completed"))
  BY DEF complete, mark_completed
<1>1. c \in Database /\ c.state = d.state /\ c.failure = d.failure /\ c.seen = d.seen
  BY CompletedShape DEF can_complete
<1> HIDE DEF c
<1>2. /\ "completed" \in DispatchState /\ c.failure[a] \in Failure
      /\ c.state[a] \in {"completed", "failed"} => "completed" = c.state[a]
  BY <1>1 DEF Database, DispatchState, can_complete, can_mark_completed
<1>3. r \in Database /\ Fenced(c, r, g)
  BY <1>1, <1>2, FencedRow
<1> HIDE DEF r
<1>4. Fenced(c, update_active_dispatches(mark_scheduled_terminal(r, a, "completed")), g)
  BY <1>3, FencedTerminal
<1> QED
  BY <1>0, <1>1, <1>4, FencedStep

(* A recorded failure keeps the terminal rows.                               *)
LEMMA RecordFenced ==
    ASSUME NEW d \in Database, NEW a \in Action, NEW g \in 0 .. MaxGeneration, Good(d),
           NEW f \in FailureFacts, d.state[a] # "none", can_record(d, a, f)
    PROVE  Fenced(d, record(d, a, f, g), g)
<1>1. CASE d.state[a] = "failed"
  BY <1>1, FencedSelf, FencedUpdate DEF record, mark_failed
<1>2. CASE d.state[a] # "failed"
  <2> DEFINE u == update_active_dispatches(
                     mark_scheduled_terminal(Row(d, a, "failed", f, g), a, "failed"))
  <2>1. d.state[a] \in ReservedStates
    BY <1>2 DEF Database, DispatchState, can_record, can_mark_failed
  <2>2. f \in Failure /\ f # "cancelled" /\ d.cancel[a] = 0
    BY DEF Failure, WorkerFailures, can_record, can_mark_failed
  <2>3. u \in Database /\ Fenced(d, u, g)
    BY <2>1, <2>2, FailRow, FencedFail
  <2>4. mark_failed(d, a, f, g) = u
    BY <1>2 DEF mark_failed
  <2> HIDE DEF u
  <2>5. CASE automatic_retry(a, f)
    <3>1. a[2] < MaxAttempts
      BY <1>2, <2>5 DEF can_record
    <3>2. record(d, a, f, g) = step_retried(u, a)
      BY <1>2, <2>4, <2>5 DEF record
    <3> QED
      BY <2>3, <3>1, <3>2, FencedRetry
  <2>6. CASE ~ automatic_retry(a, f)
    BY <2>3, <2>4, <2>6 DEF record
  <2> QED
    BY <2>5, <2>6
<1> QED
  BY <1>1, <1>2

(* A cancellation keeps the terminal rows.                                   *)
LEMMA CancelFenced ==
    ASSUME NEW d \in Database, NEW a \in Action, NEW g \in 0 .. MaxGeneration,
           NEW c \in 0 .. MaxGeneration, d.state[a] # "none", can_cancel(d, a, g, c)
    PROVE  Fenced(d, cancel(d, a, g), g)
<1>1. CASE d.state[a] = "failed"
  BY <1>1, FencedSelf, FencedUpdate DEF cancel, mark_failed
<1>2. CASE d.state[a] # "failed"
  <2> DEFINE u == step_failed(d, a)
  <2>1. d.state[a] \in ReservedStates /\ "cancelled" \in Failure
    BY <1>2 DEF Database, DispatchState, can_cancel, can_mark_failed, Failure
  <2>2. u \in Database /\ u.state = d.state /\ u.failure = d.failure /\ u.seen = d.seen
    BY FailedShape
  <2>3. cancel(d, a, g) = mark_failed(u, a, "cancelled", g)
    BY <1>2 DEF cancel
  <2> HIDE DEF u
  <2>4. mark_failed(u, a, "cancelled", g) =
          update_active_dispatches(
             mark_scheduled_terminal(Row(u, a, "failed", "cancelled", g), a, "failed"))
    BY <1>2, <2>2 DEF mark_failed
  <2>5. Fenced(u, mark_failed(u, a, "cancelled", g), g)
    BY <2>1, <2>2, <2>4, FencedFail
  <2> QED
    BY <2>2, <2>3, <2>5, FencedStep
<1> QED
  BY <1>1, <1>2

(* The operator's decisions speak for no connection: the generation last     *)
(* seen stays, so they are fenced for whichever generation.                  *)
LEMMA FencedResolve ==
    ASSUME NEW d \in Database, NEW a \in Action, NEW f \in Failure, NEW h,
           d.state[a] \in ReservedStates
    PROVE  Fenced(d, resolve_uncertain(d, a, f), h)
<1> DEFINE r == Row(d, a, "failed", f, d.seen[a])
<1>1. "failed" \in DispatchState /\ d.state[a] \notin {"completed", "failed"}
  BY DEF DispatchState, ReservedStates
<1>2. /\ r \in Database
      /\ r.state = [d.state EXCEPT ![a] = "failed"]
      /\ r.failure = [d.failure EXCEPT ![a] = f]
      /\ r.seen = d.seen
  BY <1>1 DEF Row, Database
<1>3. resolve_uncertain(d, a, f) =
        update_active_dispatches(mark_scheduled_terminal(r, a, "failed"))
  BY DEF resolve_uncertain
<1> HIDE DEF r
<1>4. Fenced(d, r, h)
  BY <1>1, <1>2 DEF Fenced, Database
<1> QED
  BY <1>2, <1>3, <1>4, FencedTerminal

(* The resolution of an uncertain outcome keeps the terminal rows.           *)
LEMMA ResolveFenced ==
    ASSUME NEW d \in Database, NEW a \in Action, Good(d), d.state[a] = "uncertain",
           runtime_accepts(d, a), NEW h
    PROVE  /\ a[2] < MaxAttempts =>
                Fenced(d, step_retried(resolve_uncertain(d, a, "operator_retry_requested"), a), h)
           /\ Fenced(d, resolve_uncertain(step_failed(d, a), a, "operator_marked_failed"), h)
<1>0. /\ "operator_retry_requested" \in Failure /\ "operator_marked_failed" \in Failure
      /\ d.state[a] \in ReservedStates /\ d.seen[a] \in 0 .. MaxGeneration
      /\ d.cancel[a] = 0
  BY DEF Failure, OperatorFailures, ReservedStates, Database, Good, CancelIn, CancellableStates
<1>1. ASSUME a[2] < MaxAttempts
      PROVE Fenced(d, step_retried(resolve_uncertain(d, a, "operator_retry_requested"), a), h)
  <2> DEFINE u == resolve_uncertain(d, a, "operator_retry_requested")
  <2>1. u \in Database
    BY <1>0, FailRow DEF resolve_uncertain
  <2>2. Fenced(d, u, h)
    BY <1>0, FencedResolve
  <2> HIDE DEF u
  <2>3. Fenced(d, step_retried(u, a), h)
    BY <1>1, <2>1, <2>2, FencedRetry
  <2> QED
    BY <2>3 DEF u
<1>2. Fenced(d, resolve_uncertain(step_failed(d, a), a, "operator_marked_failed"), h)
  <2> DEFINE u == step_failed(d, a)
  <2>1. u \in Database /\ u.state = d.state /\ u.failure = d.failure /\ u.seen = d.seen
    BY FailedShape
  <2> HIDE DEF u
  <2>2. Fenced(u, resolve_uncertain(u, a, "operator_marked_failed"), h)
    BY <1>0, <2>1, FencedResolve
  <2>3. Fenced(d, resolve_uncertain(u, a, "operator_marked_failed"), h)
    BY <2>1, <2>2, FencedStep
  <2> QED
    BY <2>3 DEF u
<1> QED
  BY <1>1, <1>2

-----------------------------------------------------------------------------
(* The inductive invariant, and the theorems that follow from it.           *)

(* No row was last touched by a connection that does not exist yet.         *)
SeenIsPast == \A a \in Action : db.seen[a] <= generation

IInv == TypeOK /\ Good(db) /\ ReadinessIsFenced /\ SeenIsPast

(* What is left to show of an action that changes the database alone.       *)
LEMMA DatabaseStep ==
    ASSUME IInv, db' \in Database, Good(db'), Fenced(db, db', generation),
           UNCHANGED <<workerVars, scheduleVars, epoch, recovery>>
    PROVE  IInv'
<1>1. TypeOK'
  BY DEF IInv, TypeOK, workerVars, scheduleVars
<1>2. ReadinessIsFenced'
  BY DEF IInv, ReadinessIsFenced, workerVars
<1>3. SeenIsPast'
  BY DEF IInv, TypeOK, SeenIsPast, Fenced, workerVars
<1>4. Good(db)'
  BY DEF Good, PendingUntouched, LiveIn, AgreeIn, CancelIn, RetiredIn
<1> QED
  BY <1>1, <1>2, <1>3, <1>4 DEF IInv

(* The invariant holds of a new Run.                                        *)
LEMMA InitIInv == Init => IInv
<1> SUFFICES ASSUME Init PROVE IInv
  OBVIOUS
<1> USE DEF Init, RowInit
<1>1. db \in Database
  <2>1. /\ "none" \in DispatchState /\ "none" \in Failure /\ "none" \in ScheduleState
        /\ "running" \in RunStatus
        /\ "dispatched" \in OccurrenceStatus /\ "pending" \in OccurrenceStatus
    BY DEF DispatchState, Failure, ScheduleState, RunStatus, OccurrenceStatus
  <2>2. 0 \in 0 .. MaxAttempts /\ 1 \in 0 .. MaxAttempts /\ 0 \in 0 .. MaxGeneration
    BY ActionPairs
  <2> QED
    BY <2>1, <2>2 DEF Database
<1>2. TypeOK
  <2>1. /\ 0 \in 0 .. Capacity - 1 /\ 0 \in 0 .. Members /\ 0 \in 0 .. Allowance
        /\ 0 \in 0 .. MaxGeneration
    BY ActionPairs
  <2>2. /\ generation \in 0 .. MaxGeneration /\ ready \in 0 .. MaxGeneration
        /\ connected \in BOOLEAN /\ channels \in SUBSET Generations
    BY <2>1
  <2>3. /\ slot \in [Action -> 0 .. Capacity - 1]
        /\ member \in [Occurrence -> 0 .. Members]
        /\ lineage \in [Occurrence -> Occurrence \cup {NoOccurrence}]
        /\ epoch \in [Occurrence -> Nat] /\ epochOf \in [Action -> Nat]
        /\ inEpoch \in [Action -> 0 .. Allowance]
        /\ recovery \in [Action -> BOOLEAN]
    BY <2>1
  <2> QED
    BY <1>1, <2>2, <2>3 DEF TypeOK
<1>3. Good(db)
  BY ActionPairs DEF Good, PendingUntouched, LiveIn, AgreeIn, CancelIn, RetiredIn,
     ReservedStates, CancellableStates
<1>4. ReadinessIsFenced
  BY DEF ReadinessIsFenced
<1>5. SeenIsPast
  BY DEF SeenIsPast
<1> QED
  BY <1>2, <1>3, <1>4, <1>5 DEF IInv

(* A fact comes from a generation that exists.                              *)
LEMMA FromWorkerGeneration ==
    ASSUME IInv, NEW g, FromWorker(g)
    PROVE  g \in 0 .. MaxGeneration /\ g = generation
BY DEF FromWorker, IInv, TypeOK

(* The connection row.                                                      *)
LEMMA ConnectionStep ==
    ASSUME IInv, Connection
    PROVE  IInv'
<1>0. /\ TypeOK /\ Good(db) /\ ReadinessIsFenced /\ SeenIsPast /\ MaxGeneration \in Nat
      /\ generation \in 0 .. MaxGeneration /\ channels \in SUBSET Generations
  BY ActionPairs DEF IInv, TypeOK
<1>1. /\ db' = db
      /\ UNCHANGED <<slot, member, lineage, epochOf, inEpoch, epoch, recovery>>
  BY DEF Connection, scheduleVars
<1>2. Good(db)'
  BY <1>0, <1>1
<1>3. CASE Register
  <2>1. TypeOK'
    BY <1>0, <1>1, <1>3 DEF TypeOK, Register, Generations
  <2>2. ReadinessIsFenced'
    BY <1>0, <1>3 DEF ReadinessIsFenced, Register
  <2>3. SeenIsPast'
    BY <1>0, <1>1, <1>3 DEF SeenIsPast, Register, TypeOK, Database
  <2> QED
    BY <1>2, <2>1, <2>2, <2>3 DEF IInv
<1>4. CASE \E g \in Generations : ChannelEnds(g)
  <2>1. TypeOK'
    BY <1>0, <1>1, <1>4 DEF TypeOK, ChannelEnds
  <2>2. ReadinessIsFenced'
    BY <1>0, <1>4 DEF ReadinessIsFenced, ChannelEnds
  <2>3. SeenIsPast'
    BY <1>0, <1>1, <1>4 DEF SeenIsPast, ChannelEnds
  <2> QED
    BY <1>2, <2>1, <2>2, <2>3 DEF IInv
<1>5. CASE \E g \in Generations : Disconnect(g)
  <2>1. TypeOK'
    <3>1. ready' \in 0 .. MaxGeneration
      <4>1. ready' = 0
        BY <1>5 DEF Disconnect
      <4> QED
        BY <1>0, <4>1
    <3>2. connected' \in BOOLEAN
      BY <1>5, Zenon DEF Disconnect
    <3>3. UNCHANGED <<generation, channels>>
      BY <1>5 DEF Disconnect
    <3> QED
      BY <1>0, <1>1, <3>1, <3>2, <3>3 DEF TypeOK
  <2>2. ReadinessIsFenced'
    BY <1>0, <1>5 DEF ReadinessIsFenced, Disconnect
  <2>3. SeenIsPast'
    BY <1>0, <1>1, <1>5 DEF SeenIsPast, Disconnect
  <2> QED
    BY <1>2, <2>1, <2>2, <2>3 DEF IInv
<1>6. CASE \E g \in Generations : MarkReady(g)
  <2>1. TypeOK'
    BY <1>0, <1>1, <1>6 DEF TypeOK, MarkReady, Generations
  <2>2. ReadinessIsFenced'
    BY <1>0, <1>6 DEF ReadinessIsFenced, MarkReady, FromWorker
  <2>3. SeenIsPast'
    BY <1>0, <1>1, <1>6 DEF SeenIsPast, MarkReady
  <2> QED
    BY <1>2, <2>1, <2>2, <2>3 DEF IInv
<1>7. CASE ServerRestarts
  <2>1. TypeOK'
    BY <1>0, <1>1, <1>7 DEF TypeOK, ServerRestarts
  <2>2. ReadinessIsFenced'
    BY <1>0, <1>7 DEF ReadinessIsFenced, ServerRestarts
  <2>3. SeenIsPast'
    BY <1>0, <1>1, <1>7 DEF SeenIsPast, ServerRestarts
  <2> QED
    BY <1>2, <2>1, <2>2, <2>3 DEF IInv
<1> QED
  BY <1>3, <1>4, <1>5, <1>6, <1>7 DEF Connection, RowNext

(* A claim: the slot, the Member and the context are in range, and the row   *)
(* is that of the current attempt, which nothing had touched.                *)
LEMMA ScheduleStep ==
    ASSUME IInv, NEW a \in Action, Schedule(a)
    PROVE  IInv'
<1> DEFINE o == a[1]
<1>0. /\ TypeOK /\ Good(db) /\ ReadinessIsFenced /\ SeenIsPast /\ o \in Occurrence
      /\ UNCHANGED workerVars
  BY ActionPairs DEF IInv, Schedule
<1>1. Least(resolve_member(o)) \in 0 .. Members
  <2>1. resolve_member(o) \subseteq 0 .. Members /\ resolve_member(o) # {}
    BY <1>0, ActionPairs DEF resolve_member, TypeOK, Schedule
  <2>2. resolve_member(o) \subseteq Nat
    BY <2>1
  <2> QED
    BY <2>1, <2>2, LeastMember
<1>2. Least(free_slots) \in 0 .. Capacity - 1
  <2>1. free_slots \subseteq 0 .. Capacity - 1 /\ free_slots # {}
    BY DEF free_slots, Schedule
  <2>2. free_slots \subseteq Nat
    BY <2>1
  <2> QED
    BY <2>1, <2>2, LeastMember
<1>3. attempt_in_epoch(o) \in 0 .. Allowance
  <2> DEFINE S == {b \in Action : b[1] = o /\ inEpoch[b] # 0 /\ epochOf[b] = epoch[o]}
  <2>1. IsFiniteSet(1 .. MaxAttempts)
    BY ActionPairs, FS_Interval
  <2>2. IsFiniteSet(Action)
    BY <2>1, FS_Product DEF Action
  <2>3. Cardinality(S) \in Nat
    BY <2>2, FS_Subset, FS_CardinalityType
  <2>4. attempt_in_epoch(o) = Cardinality(S) + 1
    BY DEF attempt_in_epoch
  <2>5. attempt_in_epoch(o) <= Allowance
    BY DEF Schedule
  <2> HIDE DEF S
  <2> QED
    BY <2>3, <2>4, <2>5, ActionPairs
<1>4. resolve_context(o) \in Occurrence \cup {NoOccurrence}
  BY <1>0 DEF resolve_context, TypeOK
<1>5. /\ db' \in Database /\ db'.run = db.run /\ db'.occ = db.occ
      /\ db'.attempts = db.attempts /\ db'.failure = db.failure /\ db'.cancel = db.cancel
      /\ db'.seen = db.seen
      /\ db'.state = [db.state EXCEPT ![a] = "claimed"]
      /\ db'.sched = [db.sched EXCEPT ![a] = "active"]
  <2>1. db' = [db EXCEPT !.sched[a] = "active", !.state[a] = "claimed"]
    BY DEF Schedule
  <2>2. "claimed" \in DispatchState /\ "active" \in ScheduleState /\ db \in Database
    BY <1>0 DEF DispatchState, ReservedStates, ScheduleState, TypeOK
  <2> QED
    BY <2>1, <2>2 DEF Database
<1>6. TypeOK'
  <2>1. /\ member' \in [Occurrence -> 0 .. Members]
        /\ lineage' \in [Occurrence -> Occurrence \cup {NoOccurrence}]
        /\ slot' \in [Action -> 0 .. Capacity - 1]
        /\ inEpoch' \in [Action -> 0 .. Allowance]
        /\ epochOf' \in [Action -> Nat]
        /\ epoch' = epoch /\ recovery' = recovery
    BY <1>0, <1>1, <1>2, <1>3, <1>4 DEF Schedule, TypeOK
  <2> QED
    BY <1>0, <1>5, <2>1 DEF TypeOK, workerVars
<1>7. /\ db.sched[a] = "none" /\ db.state[a] = "none" /\ db.cancel[a] = 0
      /\ a[2] = db.attempts[a[1]] /\ db.occ[a[1]] # "completed"
  <2>1. db.sched[a] = "none" /\ a[2] <= db.attempts[a[1]]
    BY DEF Schedule, Unscheduled
  <2>2. db.state[a] = "none"
    BY <1>0, <2>1 DEF Good, AgreeIn
  <2>3. a[2] = db.attempts[a[1]]
    <3>1. ~ (a[2] < db.attempts[a[1]])
      BY <1>0, <2>1 DEF Good, LiveIn
    <3>2. db.attempts[a[1]] \in Nat /\ a[2] \in Nat
      BY <1>0, ActionPairs DEF TypeOK, Database
    <3> QED
      BY <2>1, <3>1, <3>2
  <2>4. db.occ[a[1]] # "completed"
    BY <1>0, <2>2, <2>3 DEF Good, AgreeIn
  <2>5. db.cancel[a] = 0
    BY <1>0, <2>2 DEF Good, CancelIn, CancellableStates
  <2> QED
    BY <2>1, <2>2, <2>3, <2>4, <2>5
<1>8. Good(db)'
  <2> DEFINE d == db
             u == db'
  <2>1. /\ u.state[a] = "claimed" /\ u.sched[a] = "active"
        /\ \A b \in Action : b # a => u.state[b] = d.state[b] /\ u.sched[b] = d.sched[b]
        /\ "claimed" \in ReservedStates
    BY <1>0, <1>5 DEF TypeOK, Database, ReservedStates
  <2>2. PendingUntouched(u)
    BY <1>0, <1>5 DEF Good, PendingUntouched
  <2>3. LiveIn(u)
    BY <1>0, <1>5, <1>7, <2>1, ActionPairs DEF Good, LiveIn
  <2>4. AgreeIn(u)
    BY <1>0, <1>5, <1>7, <2>1, ActionPairs DEF Good, AgreeIn
  <2>5. CancelIn(u) /\ RetiredIn(u)
    BY <1>0, <1>5, <1>7, <2>1 DEF Good, CancelIn, RetiredIn
  <2> QED
    BY <2>2, <2>3, <2>4, <2>5 DEF Good
<1>9. ReadinessIsFenced' /\ SeenIsPast'
  BY <1>0, <1>5 DEF ReadinessIsFenced, SeenIsPast, workerVars
<1> QED
  BY <1>6, <1>8, <1>9 DEF IInv

----------------------------------------------------------------------------
(* Delivery and the facts of the Worker.                                     *)

(* A send of a claimed or dispatched row.                                    *)
LEMMA DispatchedShape ==
    ASSUME NEW d \in Database, NEW a \in Action, NEW g \in 0 .. MaxGeneration, Good(d),
           d.state[a] \in {"claimed", "dispatched"}
    PROVE  LET u == Row(d, a, "dispatched", d.failure[a], g)
           IN  u \in Database /\ Good(u) /\ Fenced(d, u, g)
<1>1. /\ d.state[a] \in ReservedStates /\ d.state[a] \notin {"completed", "failed"}
      /\ d.state[a] # "uncertain"
      /\ "dispatched" \in ReservedStates /\ "dispatched" \in DispatchState
      /\ d.failure[a] \in Failure /\ d.cancel[a] = 0
  BY DEF ReservedStates, DispatchState, Database, Good, CancelIn, CancellableStates
<1>2. d.sched[a] = "active"
  BY <1>1, HeldIsActive
<1> QED
  BY <1>1, <1>2, MoveRow, FencedRow

(* What every fact does to the database.                                     *)
LEMMA FactStep ==
    ASSUME IInv, NEW a \in Action, NEW g \in Generations,
           \/ MarkDispatched(a, g)
           \/ Accepted(a, g)
           \/ Running(a, g)
           \/ \E x \in BOOLEAN : CompletedFact(a, g, x)
           \/ \E f \in FailureFacts : FailedFact(a, g, f)
           \/ \E c \in Generations : CancelledFact(a, g, c)
           \/ \E f \in UncertainFacts : UncertainFact(a, g, f)
    PROVE  /\ db' \in Database /\ Good(db') /\ Fenced(db, db', generation)
           /\ UNCHANGED <<workerVars, scheduleVars, epoch, recovery>>
<1>0. db \in Database /\ Good(db)
  BY DEF IInv, TypeOK
<1>1. FromWorker(g) /\ UNCHANGED <<workerVars, scheduleVars, epoch, recovery>>
  BY DEF MarkDispatched, Accepted, Running, CompletedFact, FailedFact, CancelledFact,
     UncertainFact, Fact
<1>2. g \in 0 .. MaxGeneration /\ g = generation
  BY <1>1, FromWorkerGeneration
<1>3. CASE MarkDispatched(a, g)
  BY <1>0, <1>1, <1>2, <1>3, DispatchedShape DEF MarkDispatched
<1>4. CASE Accepted(a, g)
  <2>1. db.state[a] # "none" /\ db' = acknowledge(db, a, g)
    BY <1>4 DEF Accepted, Fact
  <2> QED
    BY <1>0, <1>1, <1>2, <2>1, AcknowledgeGood, FactsFenced
<1>5. CASE Running(a, g)
  <2>1. db.state[a] # "none" /\ db' = mark_running(db, a, g)
    BY <1>5 DEF Running, Fact
  <2> QED
    BY <1>0, <1>1, <1>2, <2>1, RunningGood, FactsFenced
<1>6. CASE \E x \in BOOLEAN : CompletedFact(a, g, x)
  <2>1. PICK x \in BOOLEAN :
          db.state[a] # "none" /\ can_complete(db, a) /\ db' = complete(db, a, g, x)
    BY <1>6 DEF CompletedFact, Fact
  <2> QED
    BY <1>0, <1>1, <1>2, <2>1, CompleteGood, CompleteFenced
<1>7. CASE \E f \in FailureFacts : FailedFact(a, g, f)
  <2>1. PICK f \in FailureFacts :
          db.state[a] # "none" /\ can_record(db, a, f) /\ db' = record(db, a, f, g)
    BY <1>7 DEF FailedFact, Fact
  <2> QED
    BY <1>0, <1>1, <1>2, <2>1, RecordGood, RecordFenced
<1>8. CASE \E c \in Generations : CancelledFact(a, g, c)
  <2>1. PICK c \in Generations :
          db.state[a] # "none" /\ can_cancel(db, a, g, c) /\ db' = cancel(db, a, g)
    BY <1>8 DEF CancelledFact, Fact
  <2>2. c \in 0 .. MaxGeneration
    BY ActionPairs DEF Generations
  <2> QED
    BY <1>0, <1>1, <1>2, <2>1, <2>2, CancelGood, CancelFenced
<1>9. CASE \E f \in UncertainFacts : UncertainFact(a, g, f)
  <2>1. PICK f \in UncertainFacts :
          /\ db.state[a] # "none" /\ can_mark_uncertain(db, a, f)
          /\ db' = mark_uncertain(db, a, f, g)
    BY <1>9 DEF UncertainFact, Fact
  <2> QED
    BY <1>0, <1>1, <1>2, <2>1, UncertainGood, FactsFenced
<1> QED
  BY <1>3, <1>4, <1>5, <1>6, <1>7, <1>8, <1>9

(* A cancellation is requested of an attempt that was acknowledged.          *)
LEMMA RequestShape ==
    ASSUME NEW d \in Database, NEW a \in Action, Good(d), d.state[a] \in CancellableStates,
           NEW h
    PROVE  LET u == [d EXCEPT !.cancel[a] = d.seen[a]]
           IN  u \in Database /\ Good(u) /\ Fenced(d, u, h)
<1> DEFINE u == [d EXCEPT !.cancel[a] = d.seen[a]]
<1>1. /\ u \in Database /\ u.run = d.run /\ u.occ = d.occ /\ u.attempts = d.attempts
      /\ u.state = d.state /\ u.failure = d.failure /\ u.seen = d.seen /\ u.sched = d.sched
      /\ u.cancel = [d.cancel EXCEPT ![a] = d.seen[a]]
  BY DEF Database
<1> HIDE DEF u
<1>2. PendingUntouched(u) /\ LiveIn(u) /\ RetiredIn(u)
  BY <1>1 DEF Good, PendingUntouched, LiveIn, RetiredIn
<1>3. AgreeIn(u)
  BY <1>1 DEF Good, AgreeIn
<1>4. /\ \A b \in Action : b # a => u.cancel[b] = d.cancel[b]
      /\ d.state[a] # "failed"
  BY <1>1 DEF Database, CancellableStates
<1>5. CancelIn(u)
  BY <1>1, <1>4 DEF Good, CancelIn
<1>6. Fenced(d, u, h)
  BY <1>1 DEF Fenced
<1> QED
  BY <1>1, <1>2, <1>3, <1>5, <1>6 DEF Good, u

(* An authorized recovery: the source has failed or is retired.              *)
LEMMA AuthorizeShape ==
    ASSUME NEW a \in Action, NEW fresh \in BOOLEAN, IInv, Authorize(a, fresh)
    PROVE  db' \in Database /\ Good(db') /\ Fenced(db, db', generation)
<1>0. /\ db \in Database /\ Good(db) /\ runtime_accepts(db, a) /\ a[2] < MaxAttempts
      /\ db' = step_retried(retire_uncertain_schedule(db, a), a)
      /\ validate_source(a, fresh)
  BY DEF IInv, TypeOK, Authorize
<1>1. CASE db.state[a] = "uncertain"
  <2>1. db.failure[a] = "contract_violation"
    BY <1>0, <1>1 DEF validate_source, retained_work_recovery
  <2>2. db.sched[a] = "active"
    BY <1>0, <1>1, HeldIsActive DEF ReservedStates
  <2>3. db' \in Database /\ Good(db')
    BY <1>0, <1>1, <2>1, <2>2, RetireGood
  <2> DEFINE t == [db EXCEPT !.sched[a] = "failed"]
             r == update_active_dispatches(t)
  <2>4. retire_uncertain_schedule(db, a) = r
    BY <1>1, <2>2 DEF retire_uncertain_schedule
  <2>5. t \in Database /\ t.state = db.state /\ t.failure = db.failure /\ t.seen = db.seen
    BY <1>0 DEF Database, ScheduleState
  <2> HIDE DEF t
  <2>6. Fenced(db, t, generation)
    BY <2>5 DEF Fenced
  <2>7. r \in Database
    BY <2>5, UpdateShape
  <2>8. Fenced(db, r, generation)
    BY <2>5, <2>6, FencedUpdate
  <2> HIDE DEF r
  <2> QED
    BY <1>0, <2>3, <2>4, <2>7, <2>8, FencedRetry
<1>2. CASE db.state[a] # "uncertain"
  <2>1. db.sched[a] = "failed" /\ db' = step_retried(db, a)
    BY <1>0, <1>2 DEF validate_source, retained_work_recovery, retire_uncertain_schedule
  <2>2. db' \in Database /\ Good(db')
    BY <1>0, <2>1, GoodRetry
  <2>3. Fenced(db, db, generation)
    BY FencedSelf
  <2>4. Fenced(db, step_retried(db, a), generation)
    BY <1>0, <2>3, FencedRetry
  <2> QED
    BY <2>1, <2>2, <2>4
<1> QED
  BY <1>1, <1>2

----------------------------------------------------------------------------
(* Decisions of the operator keep the invariant.                             *)
LEMMA OperatorStep ==
    ASSUME IInv,
           \/ \E a \in Action : RequestCancellation(a)
           \/ \E o \in Occurrence : ResolveRetry(o)
           \/ \E o \in Occurrence : ResolveMarkFailed(o)
    PROVE  /\ db' \in Database /\ Good(db')
           /\ Fenced(db, db', generation)
           /\ UNCHANGED <<workerVars, scheduleVars, epoch, recovery>>
<1>0. /\ db \in Database /\ Good(db) /\ generation \in 0 .. MaxGeneration
      /\ \A a \in Action : db.seen[a] \in 0 .. MaxGeneration /\ db.seen[a] <= generation
  BY DEF IInv, TypeOK, SeenIsPast, Database
<1>1. CASE \E a \in Action : RequestCancellation(a)
  <2>1. PICK a \in Action : RequestCancellation(a)
    BY <1>1
  <2>2. db' \in Database /\ Good(db') /\ Fenced(db, db', generation)
    BY <1>0, <2>1, RequestShape DEF RequestCancellation
  <2> QED
    BY <1>0, <2>1, <2>2, ActionPairs DEF RequestCancellation
<1>2. CASE \E o \in Occurrence : ResolveRetry(o)
  <2>1. PICK a \in Action :
          /\ db.state[a] = "uncertain" /\ runtime_accepts(db, a) /\ a[2] < MaxAttempts
          /\ db' = step_retried(resolve_uncertain(db, a, "operator_retry_requested"), a)
          /\ UNCHANGED <<workerVars, scheduleVars, epoch, recovery>>
    BY <1>2 DEF ResolveRetry, lock_uncertain
  <2>2. db' \in Database /\ Good(db')
    BY <1>0, <2>1, ResolveRetryGood
  <2>3. Fenced(db, db', generation)
    BY <1>0, <2>1, ResolveFenced
  <2> QED
    BY <1>0, <2>1, <2>2, <2>3
<1>3. CASE \E o \in Occurrence : ResolveMarkFailed(o)
  <2>1. PICK a \in Action :
          /\ db.state[a] = "uncertain" /\ runtime_accepts(db, a)
          /\ db' = resolve_uncertain(step_failed(db, a), a, "operator_marked_failed")
          /\ UNCHANGED <<workerVars, scheduleVars, epoch, recovery>>
    BY <1>3 DEF ResolveMarkFailed, lock_uncertain
  <2>2. db' \in Database /\ Good(db')
    BY <1>0, <2>1, ResolveFailedGood
  <2>3. Fenced(db, db', generation)
    BY <1>0, <2>1, ResolveFenced
  <2> QED
    BY <1>0, <2>1, <2>2, <2>3
<1> QED
  BY <1>1, <1>2, <1>3

(* A fresh recovery: the request alone, or the authorized attempt.           *)
LEMMA RecoveryStep ==
    ASSUME IInv,
           \/ \E a \in Action : RequestFreshRecovery(a)
           \/ \E a \in Action, fresh \in BOOLEAN : Authorize(a, fresh)
           \/ \E a, b \in Action : FinalizeRequested(a, b)
    PROVE  /\ db' \in Database /\ Good(db') /\ Fenced(db, db', generation)
           /\ epoch' \in [Occurrence -> Nat] /\ recovery' \in [Action -> BOOLEAN]
           /\ UNCHANGED <<workerVars, scheduleVars>>
<1>0. /\ db \in Database /\ Good(db) /\ epoch \in [Occurrence -> Nat]
      /\ recovery \in [Action -> BOOLEAN]
  BY DEF IInv, TypeOK
<1>1. CASE \E a \in Action : RequestFreshRecovery(a)
  <2>1. PICK a \in Action : RequestFreshRecovery(a)
    BY <1>1
  <2> QED
    BY <1>0, <2>1, FencedSelf DEF RequestFreshRecovery
<1>2. CASE \/ \E a \in Action, fresh \in BOOLEAN : Authorize(a, fresh)
           \/ \E a, b \in Action : FinalizeRequested(a, b)
  <2>1. PICK a \in Action, fresh \in BOOLEAN : Authorize(a, fresh)
    BY <1>2 DEF FinalizeRequested
  <2>2. db' \in Database /\ Good(db') /\ Fenced(db, db', generation)
    BY <2>1, AuthorizeShape
  <2>3. /\ epoch' = [epoch EXCEPT ![a[1]] = @ + 1] /\ recovery' = recovery
        /\ UNCHANGED <<workerVars, scheduleVars>>
    BY <2>1 DEF Authorize
  <2>4. epoch' \in [Occurrence -> Nat]
    <3>1. a[1] \in Occurrence
      BY ActionPairs
    <3>2. epoch[a[1]] + 1 \in Nat
      BY <1>0, <3>1
    <3>3. epoch' = [epoch EXCEPT ![a[1]] = epoch[a[1]] + 1]
      BY <2>3
    <3> QED
      BY <1>0, <3>1, <3>2, <3>3
  <2> QED
    BY <1>0, <2>2, <2>3, <2>4
<1> QED
  BY <1>1, <1>2

(* Every step keeps the invariant.                                           *)
LEMMA NextIInv == IInv /\ [Next]_vars => IInv'
<1> SUFFICES ASSUME IInv, [Next]_vars PROVE IInv'
  OBVIOUS
<1>1. CASE Connection
  BY <1>1, ConnectionStep
<1>2. CASE \E a \in Action : Schedule(a)
  BY <1>2, ScheduleStep
<1>3. CASE \/ \E a \in Action, g \in Generations : MarkDispatched(a, g)
           \/ \E a \in Action, g \in Generations : Accepted(a, g)
           \/ \E a \in Action, g \in Generations : Running(a, g)
           \/ \E a \in Action, g \in Generations, x \in BOOLEAN : CompletedFact(a, g, x)
           \/ \E a \in Action, g \in Generations, f \in FailureFacts : FailedFact(a, g, f)
           \/ \E a \in Action, g, c \in Generations : CancelledFact(a, g, c)
           \/ \E a \in Action, g \in Generations, f \in UncertainFacts : UncertainFact(a, g, f)
  <2>1. PICK a \in Action, g \in Generations :
           \/ MarkDispatched(a, g)
           \/ Accepted(a, g)
           \/ Running(a, g)
           \/ \E x \in BOOLEAN : CompletedFact(a, g, x)
           \/ \E f \in FailureFacts : FailedFact(a, g, f)
           \/ \E c \in Generations : CancelledFact(a, g, c)
           \/ \E f \in UncertainFacts : UncertainFact(a, g, f)
    BY <1>3, Zenon
  <2> QED
    BY <2>1, FactStep, DatabaseStep
<1>4. CASE \/ \E a \in Action : RequestCancellation(a)
           \/ \E o \in Occurrence : ResolveRetry(o)
           \/ \E o \in Occurrence : ResolveMarkFailed(o)
  BY <1>4, OperatorStep, DatabaseStep
<1>5. CASE \/ \E a \in Action : RequestFreshRecovery(a)
           \/ \E a \in Action, fresh \in BOOLEAN : Authorize(a, fresh)
           \/ \E a, b \in Action : FinalizeRequested(a, b)
  <2>1. /\ db' \in Database /\ Good(db') /\ Fenced(db, db', generation)
        /\ epoch' \in [Occurrence -> Nat] /\ recovery' \in [Action -> BOOLEAN]
        /\ UNCHANGED <<workerVars, scheduleVars>>
    BY <1>5, RecoveryStep
  <2>2. TypeOK'
    BY <2>1 DEF IInv, TypeOK, workerVars, scheduleVars
  <2>3. ReadinessIsFenced'
    BY <2>1 DEF IInv, ReadinessIsFenced, workerVars
  <2>4. SeenIsPast'
    BY <2>1 DEF IInv, SeenIsPast, Fenced, workerVars, TypeOK
  <2> QED
    BY <2>1, <2>2, <2>3, <2>4 DEF IInv
<1>6. CASE UNCHANGED vars
  BY <1>6 DEF vars, workerVars, scheduleVars, IInv, TypeOK, ReadinessIsFenced, SeenIsPast
<1> QED
  BY <1>1, <1>2, <1>3, <1>4, <1>5, <1>6 DEF Next

----------------------------------------------------------------------------
(* The theorems.                                                             *)

(* The inductive invariant holds in every reachable state.                   *)
THEOREM Invariance == Spec => []IInv
BY InitIInv, NextIInv, PTL DEF Spec

(* Type correctness: the rows of the stores hold values of the code's        *)
(* enumerations, slots and Members are in range, and no epoch is charged     *)
(* more attempts than its allowance.                                         *)
THEOREM TypeCorrect == Spec => []TypeOK
<1>1. IInv => TypeOK
  BY DEF IInv
<1> QED
  BY <1>1, Invariance, PTL

(* Whatever facts arrive, from however many stale connections, in whichever  *)
(* order: an occurrence has at most one attempt that holds resources, and    *)
(* the schedule of every earlier one has failed.                             *)
THEOREM AtMostOneLiveAttempt == Spec => []OneLiveAttempt
<1>1. IInv => OneLiveAttempt
  BY DEF IInv, Good, LiveIn, OneLiveAttempt
<1> QED
  BY <1>1, Invariance, PTL

(* The Runtime snapshot, the dispatch rows and the scheduled executions of   *)
(* an attempt agree in every state between transactions.                     *)
THEOREM StoresAlwaysAgree == Spec => []StoresAgree
<1>1. IInv => StoresAgree
  BY DEF IInv, Good, AgreeIn, StoresAgree
<1> QED
  BY <1>1, Invariance, PTL

(* A requested cancellation excludes every other end of the execution.       *)
THEOREM CancellationAlwaysFinal == Spec => []CancellationIsFinal
<1>1. IInv => CancellationIsFinal
  BY DEF IInv, Good, CancelIn, CancellationIsFinal
<1> QED
  BY <1>1, Invariance, PTL

(* A Worker is ready only for the connection that is up.                     *)
THEOREM ReadinessAlwaysFenced == Spec => []ReadinessIsFenced
<1>1. IInv => ReadinessIsFenced
  BY DEF IInv
<1> QED
  BY <1>1, Invariance, PTL

(* Every step is fenced by the current generation.                           *)
LEMMA NextFenced ==
    ASSUME IInv, Next PROVE Fenced(db, db', generation)
<1>1. CASE Connection
  <2>1. db' = db
    BY <1>1 DEF Connection
  <2> QED
    BY <2>1, FencedSelf
<1>2. CASE \E a \in Action : Schedule(a)
  <2>1. PICK a \in Action : Schedule(a)
    BY <1>2
  <2>2. db \in Database /\ AgreeIn(db)
    BY DEF IInv, TypeOK, Good
  <2>3. db.sched[a] = "none"
    BY <2>1 DEF Schedule, Unscheduled
  <2>4. db.state[a] = "none"
    BY <2>2, <2>3 DEF AgreeIn
  <2>5. db' = [db EXCEPT !.sched[a] = "active", !.state[a] = "claimed"]
    BY <2>1 DEF Schedule
  <2>6. /\ db'.seen = db.seen /\ db'.failure = db.failure
        /\ db'.state = [db.state EXCEPT ![a] = "claimed"]
    BY <2>2, <2>5 DEF Database
  <2> QED
    BY <2>2, <2>4, <2>6 DEF Fenced, Database
<1>3. CASE \/ \E a \in Action, g \in Generations : MarkDispatched(a, g)
           \/ \E a \in Action, g \in Generations : Accepted(a, g)
           \/ \E a \in Action, g \in Generations : Running(a, g)
           \/ \E a \in Action, g \in Generations, x \in BOOLEAN : CompletedFact(a, g, x)
           \/ \E a \in Action, g \in Generations, f \in FailureFacts : FailedFact(a, g, f)
           \/ \E a \in Action, g, c \in Generations : CancelledFact(a, g, c)
           \/ \E a \in Action, g \in Generations, f \in UncertainFacts : UncertainFact(a, g, f)
  <2>1. PICK a \in Action, g \in Generations :
           \/ MarkDispatched(a, g)
           \/ Accepted(a, g)
           \/ Running(a, g)
           \/ \E x \in BOOLEAN : CompletedFact(a, g, x)
           \/ \E f \in FailureFacts : FailedFact(a, g, f)
           \/ \E c \in Generations : CancelledFact(a, g, c)
           \/ \E f \in UncertainFacts : UncertainFact(a, g, f)
    BY <1>3, Zenon
  <2> QED
    BY <2>1, FactStep
<1>4. CASE \/ \E a \in Action : RequestCancellation(a)
           \/ \E o \in Occurrence : ResolveRetry(o)
           \/ \E o \in Occurrence : ResolveMarkFailed(o)
  BY <1>4, OperatorStep
<1>5. CASE \/ \E a \in Action : RequestFreshRecovery(a)
           \/ \E a \in Action, fresh \in BOOLEAN : Authorize(a, fresh)
           \/ \E a, b \in Action : FinalizeRequested(a, b)
  BY <1>5, RecoveryStep
<1> QED
  BY <1>1, <1>2, <1>3, <1>4, <1>5 DEF Next

(* How a dispatch ended is final, and a fact of an earlier connection never  *)
(* changes a row.                                                            *)
THEOREM FactsAlwaysFenced == Spec => FactsAreFenced
<1> DEFINE A == \A a \in Action :
                  /\ db'.seen[a] >= db.seen[a]
                  /\ db.state[a] \in {"completed", "failed"} =>
                        db'.state[a] = db.state[a] /\ db'.failure[a] = db.failure[a]
<1>1. ASSUME IInv, [Next]_vars PROVE [A]_vars
  <2>1. CASE Next
    <3>1. Fenced(db, db', generation)
      BY <1>1, <2>1, NextFenced
    <3>2. \A a \in Action : /\ db.seen[a] \in Nat /\ generation \in Nat
                            /\ db.seen[a] <= generation
      BY <1>1 DEF IInv, TypeOK, SeenIsPast, Database
    <3> QED
      BY <3>1, <3>2 DEF Fenced
  <2>2. CASE UNCHANGED vars
    BY <2>2
  <2> QED
    BY <1>1, <2>1, <2>2
<1>2. Spec => [][A]_vars
  BY <1>1, Invariance, PTL DEF Spec
<1> QED
  BY <1>2 DEF FactsAreFenced

-----------------------------------------------------------------------------
(* The control plane implements the lifecycle of a Run.                     *)

(* The snapshot is left alone.                                              *)
Unmoved(d, u) == u.run = d.run /\ u.occ = d.occ /\ u.attempts = d.attempts

(* What the handlers do to the snapshot, as predicates of two databases.    *)
RetriedStep(d, u, a) ==
    /\ runtime_accepts(d, a)
    /\ u.run = d.run /\ u.occ = d.occ
    /\ u.attempts = [d.attempts EXCEPT ![a[1]] = a[2] + 1]

FailedStep(d, u, a) ==
    /\ runtime_accepts(d, a)
    /\ u.run = "failed" /\ u.occ = [d.occ EXCEPT ![a[1]] = "failed"]
    /\ u.attempts = d.attempts

CompletedStep(d, u, a) ==
    /\ runtime_accepts(d, a)
    /\ \E x \in BOOLEAN :
          LET c == step_completed(d, a, x)
          IN  u.run = c.run /\ u.occ = c.occ /\ u.attempts = c.attempts

Moved(d, u) ==
    \/ Unmoved(d, u)
    \/ \E a \in Action : RetriedStep(d, u, a) \/ FailedStep(d, u, a) \/ CompletedStep(d, u, a)

----------------------------------------------------------------------------
(* Rows, schedules and occupancy are not the snapshot.                       *)
LEMMA UnmovedRow ==
    ASSUME NEW d \in Database, NEW a \in Action, NEW s \in DispatchState,
           NEW f \in Failure, NEW g \in 0 .. MaxGeneration
    PROVE  Row(d, a, s, f, g) \in Database /\ Unmoved(d, Row(d, a, s, f, g))
BY DEF Row, Database, Unmoved

(* Counting the active dispatches leaves the snapshot alone.                 *)
LEMMA UnmovedUpdate ==
    ASSUME NEW d, NEW u \in Database, Unmoved(d, u)
    PROVE  Unmoved(d, update_active_dispatches(u))
BY UpdateShape DEF Unmoved

(* Doing nothing leaves the snapshot alone.                                  *)
LEMMA UnmovedSelf ==
    ASSUME NEW d PROVE Unmoved(d, d)
BY DEF Unmoved

(* Ending a row leaves the snapshot alone.                                   *)
LEMMA UnmovedEnded ==
    ASSUME NEW d \in Database, NEW a \in Action, NEW s \in {"completed", "failed"},
           NEW f \in Failure, NEW g \in 0 .. MaxGeneration
    PROVE  Unmoved(d, update_active_dispatches(
                         mark_scheduled_terminal(Row(d, a, s, f, g), a, s)))
<1> DEFINE r == Row(d, a, s, f, g)
           t == mark_scheduled_terminal(r, a, s)
<1>1. s \in DispatchState
  BY DEF DispatchState
<1>2. r \in Database /\ Unmoved(d, r)
  BY <1>1, UnmovedRow
<1> HIDE DEF r
<1>3. t \in Database /\ t.run = r.run /\ t.occ = r.occ /\ t.attempts = r.attempts
  BY <1>2 DEF mark_scheduled_terminal, Database, ScheduleState
<1> HIDE DEF t
<1>4. Unmoved(d, t)
  BY <1>2, <1>3 DEF Unmoved
<1> QED
  BY <1>3, <1>4, UnmovedUpdate DEF r, t

(* Facts that tell of no end leave the snapshot alone.                       *)
LEMMA UnmovedFacts ==
    ASSUME NEW d \in Database, NEW a \in Action, NEW g \in 0 .. MaxGeneration
    PROVE  /\ Unmoved(d, acknowledge(d, a, g))
           /\ Unmoved(d, mark_running(d, a, g))
           /\ \A f \in UncertainFacts : Unmoved(d, mark_uncertain(d, a, f, g))
<1>0. /\ d.failure[a] \in Failure /\ UncertainFacts \subseteq Failure
      /\ "acknowledged" \in DispatchState /\ "running" \in DispatchState
      /\ "uncertain" \in DispatchState
  BY DEF Database, Failure, Uncertainties, DispatchState, ReservedStates
<1>1. Unmoved(d, acknowledge(d, a, g))
  BY <1>0, UnmovedRow, UnmovedSelf, UnmovedUpdate DEF acknowledge
<1>2. Unmoved(d, mark_running(d, a, g))
  BY <1>0, UnmovedRow, UnmovedSelf, UnmovedUpdate DEF mark_running
<1>3. ASSUME NEW f \in UncertainFacts PROVE Unmoved(d, mark_uncertain(d, a, f, g))
  BY <1>0, UnmovedRow, UnmovedSelf, UnmovedUpdate DEF mark_uncertain
<1> QED
  BY <1>1, <1>2, <1>3

(* A failure is recorded without a transition, or with a retry.              *)
LEMMA RecordMoves ==
    ASSUME NEW d \in Database, NEW a \in Action, NEW g \in 0 .. MaxGeneration, Good(d),
           NEW f \in FailureFacts, d.state[a] # "none", can_record(d, a, f)
    PROVE  Unmoved(d, record(d, a, f, g)) \/ RetriedStep(d, record(d, a, f, g), a)
<1>1. CASE d.state[a] = "failed"
  BY <1>1, UnmovedSelf, UnmovedUpdate DEF record, mark_failed
<1>2. CASE d.state[a] # "failed"
  <2> DEFINE u == update_active_dispatches(
                     mark_scheduled_terminal(Row(d, a, "failed", f, g), a, "failed"))
  <2>1. d.state[a] \in ReservedStates
    BY <1>2 DEF Database, DispatchState, can_record, can_mark_failed
  <2>2. f \in Failure /\ f # "cancelled" /\ d.cancel[a] = 0
    BY DEF Failure, WorkerFailures, can_record, can_mark_failed
  <2>3. u \in Database
    BY <2>1, <2>2, FailRow
  <2>m. Unmoved(d, u)
    BY <2>2, UnmovedEnded
  <2>4. mark_failed(d, a, f, g) = u
    BY <1>2 DEF mark_failed
  <2> HIDE DEF u
  <2>5. CASE automatic_retry(a, f)
    <3>1. runtime_accepts(d, a) /\ a[2] < MaxAttempts
      BY <1>2, <2>5 DEF can_record
    <3>2. record(d, a, f, g) = step_retried(u, a)
      BY <1>2, <2>4, <2>5 DEF record
    <3> DEFINE v == step_retried(u, a)
    <3>3. /\ v.run = u.run /\ v.occ = u.occ
          /\ v.attempts = [u.attempts EXCEPT ![a[1]] = a[2] + 1]
      BY <2>3, <3>1, RetriedShape
    <3> HIDE DEF v
    <3>4. RetriedStep(d, v, a)
      BY <2>m, <3>1, <3>3 DEF RetriedStep, Unmoved
    <3> QED
      BY <3>2, <3>4 DEF v
  <2>6. CASE ~ automatic_retry(a, f)
    BY <2>m, <2>4, <2>6 DEF record
  <2> QED
    BY <2>5, <2>6
<1> QED
  BY <1>1, <1>2

(* A completion is applied once.                                             *)
LEMMA CompleteMoves ==
    ASSUME NEW d \in Database, NEW a \in Action, NEW g \in 0 .. MaxGeneration,
           NEW x \in BOOLEAN, can_complete(d, a)
    PROVE  Unmoved(d, complete(d, a, g, x)) \/ CompletedStep(d, complete(d, a, g, x), a)
<1> DEFINE c == IF d.state[a] = "completed" THEN d ELSE step_completed(d, a, x)
           u == complete(d, a, g, x)
<1>1. u = update_active_dispatches(
             mark_scheduled_terminal(Row(c, a, "completed", c.failure[a], g), a, "completed"))
  BY DEF complete, mark_completed
<1>2. c \in Database
  BY CompletedShape DEF can_complete
<1>3. /\ d.state[a] = "completed" => c = d
      /\ d.state[a] # "completed" => c = step_completed(d, a, x) /\ runtime_accepts(d, a)
  BY DEF can_complete
<1> HIDE DEF c
<1>4. c.failure[a] \in Failure
  BY <1>2 DEF Database
<1>5. Unmoved(c, u)
  BY <1>1, <1>2, <1>4, UnmovedEnded
<1> HIDE DEF u
<1>6. CASE d.state[a] = "completed"
  BY <1>3, <1>5, <1>6 DEF u
<1>7. CASE d.state[a] # "completed"
  BY <1>3, <1>5, <1>7 DEF u, Unmoved, CompletedStep
<1> QED
  BY <1>6, <1>7

(* A cancellation and an operator's failure end the Run, once.               *)
LEMMA FailureMoves ==
    ASSUME NEW d \in Database, NEW a \in Action, NEW g \in 0 .. MaxGeneration,
           NEW f \in Failure, runtime_accepts(d, a)
    PROVE  FailedStep(d, update_active_dispatches(mark_scheduled_terminal(
                            Row(step_failed(d, a), a, "failed", f, g), a, "failed")), a)
<1> DEFINE c == step_failed(d, a)
           u == update_active_dispatches(
                   mark_scheduled_terminal(Row(c, a, "failed", f, g), a, "failed"))
<1>1. /\ c \in Database /\ c.run = "failed" /\ c.occ = [d.occ EXCEPT ![a[1]] = "failed"]
      /\ c.attempts = d.attempts
  BY FailedShape
<1> HIDE DEF c
<1>2. Unmoved(c, u)
  BY <1>1, UnmovedEnded
<1> HIDE DEF u
<1>3. FailedStep(d, u, a)
  BY <1>1, <1>2 DEF Unmoved, FailedStep
<1> QED
  BY <1>3 DEF u, c

----------------------------------------------------------------------------
(* Every transaction leaves the snapshot alone or moves it once.             *)
LEMMA NextMoves ==
    ASSUME IInv, Next PROVE Moved(db, db')
<1>0. db \in Database /\ Good(db)
  BY DEF IInv, TypeOK
<1>1. CASE Connection \/ \E a \in Action : RequestFreshRecovery(a)
  <2>1. db' = db
    BY <1>1 DEF Connection, RequestFreshRecovery
  <2> QED
    BY <2>1 DEF Moved, Unmoved
<1>2. CASE \E a \in Action : Schedule(a)
  <2>1. PICK a \in Action : db' = [db EXCEPT !.sched[a] = "active", !.state[a] = "claimed"]
    BY <1>2 DEF Schedule
  <2>2. Unmoved(db, db')
    BY <1>0, <2>1 DEF Unmoved, Database
  <2> QED
    BY <2>2 DEF Moved
<1>3. CASE \E a \in Action : RequestCancellation(a)
  <2>1. PICK a \in Action : db' = [db EXCEPT !.cancel[a] = db.seen[a]]
    BY <1>3 DEF RequestCancellation
  <2>2. Unmoved(db, db')
    BY <1>0, <2>1 DEF Unmoved, Database
  <2> QED
    BY <2>2 DEF Moved
<1>4. ASSUME NEW a \in Action, NEW g \in Generations, FromWorker(g),
             \/ MarkDispatched(a, g)
             \/ Accepted(a, g)
             \/ Running(a, g)
             \/ \E f \in UncertainFacts : UncertainFact(a, g, f)
      PROVE  Moved(db, db')
  <2>1. g \in 0 .. MaxGeneration
    BY <1>4, FromWorkerGeneration
  <2>2. CASE MarkDispatched(a, g)
    <3>1. "dispatched" \in DispatchState /\ db.failure[a] \in Failure
      BY <1>0 DEF DispatchState, ReservedStates, Database
    <3> QED
      BY <1>0, <2>1, <2>2, <3>1, UnmovedRow DEF MarkDispatched, Moved
  <2>3. CASE Accepted(a, g)
    BY <1>0, <2>1, <2>3, UnmovedFacts DEF Accepted, Moved
  <2>4. CASE Running(a, g)
    BY <1>0, <2>1, <2>4, UnmovedFacts DEF Running, Moved
  <2>5. CASE \E f \in UncertainFacts : UncertainFact(a, g, f)
    BY <1>0, <2>1, <2>5, UnmovedFacts DEF UncertainFact, Moved
  <2> QED
    BY <1>4, <2>2, <2>3, <2>4, <2>5
<1>5. ASSUME NEW a \in Action, NEW g \in Generations, NEW x \in BOOLEAN, CompletedFact(a, g, x)
      PROVE  Moved(db, db')
  <2>1. FromWorker(g) /\ can_complete(db, a) /\ db' = complete(db, a, g, x)
    BY <1>5 DEF CompletedFact, Fact
  <2>2. g \in 0 .. MaxGeneration
    BY <2>1, FromWorkerGeneration
  <2>3. Unmoved(db, db') \/ CompletedStep(db, db', a)
    BY <1>0, <2>1, <2>2, CompleteMoves
  <2> QED
    BY <2>3 DEF Moved
<1>6. ASSUME NEW a \in Action, NEW g \in Generations, NEW f \in FailureFacts, FailedFact(a, g, f)
      PROVE  Moved(db, db')
  <2>1. /\ FromWorker(g) /\ db.state[a] # "none" /\ can_record(db, a, f)
        /\ db' = record(db, a, f, g)
    BY <1>6 DEF FailedFact, Fact
  <2>2. g \in 0 .. MaxGeneration
    BY <2>1, FromWorkerGeneration
  <2>3. Unmoved(db, db') \/ RetriedStep(db, db', a)
    BY <1>0, <2>1, <2>2, RecordMoves
  <2> QED
    BY <2>3 DEF Moved
<1>7. ASSUME NEW a \in Action, NEW g \in Generations, NEW c \in Generations,
             CancelledFact(a, g, c)
      PROVE  Moved(db, db')
  <2>1. FromWorker(g) /\ can_cancel(db, a, g, c) /\ db' = cancel(db, a, g)
    BY <1>7 DEF CancelledFact, Fact
  <2>2. g \in 0 .. MaxGeneration /\ "cancelled" \in Failure
    BY <2>1, FromWorkerGeneration DEF Failure
  <2>3. CASE db.state[a] = "failed"
    <3>1. db' = update_active_dispatches(db)
      BY <2>1, <2>3 DEF cancel, mark_failed
    <3> QED
      BY <1>0, <3>1, UnmovedSelf, UnmovedUpdate DEF Moved
  <2>4. CASE db.state[a] # "failed"
    <3>1. runtime_accepts(db, a)
      BY <2>1, <2>4 DEF can_cancel
    <3>2. step_failed(db, a).state = db.state
      BY <1>0, FailedShape
    <3>3. db' = update_active_dispatches(mark_scheduled_terminal(
                   Row(step_failed(db, a), a, "failed", "cancelled", g), a, "failed"))
      BY <2>1, <2>4, <3>2 DEF cancel, mark_failed
    <3>4. FailedStep(db, db', a)
      BY <1>0, <2>2, <3>1, <3>3, FailureMoves
    <3> QED
      BY <3>4 DEF Moved
  <2> QED
    BY <2>3, <2>4
<1>8. CASE \E o \in Occurrence : ResolveRetry(o)
  <2>1. PICK a \in Action :
          /\ db.state[a] = "uncertain" /\ runtime_accepts(db, a) /\ a[2] < MaxAttempts
          /\ db' = step_retried(resolve_uncertain(db, a, "operator_retry_requested"), a)
    BY <1>8 DEF ResolveRetry, lock_uncertain
  <2> DEFINE u == resolve_uncertain(db, a, "operator_retry_requested")
  <2>2. /\ "operator_retry_requested" \in Failure /\ db.seen[a] \in 0 .. MaxGeneration
        /\ db.state[a] \in ReservedStates /\ db.cancel[a] = 0
    BY <1>0, <2>1 DEF Failure, OperatorFailures, Database, ReservedStates, Good, CancelIn,
       CancellableStates
  <2>3. Unmoved(db, u)
    BY <1>0, <2>2, UnmovedEnded DEF resolve_uncertain
  <2>4. u \in Database
    BY <1>0, <2>2, FailRow DEF resolve_uncertain
  <2> HIDE DEF u
  <2>5. LET v == step_retried(u, a)
        IN  /\ v.run = u.run /\ v.occ = u.occ
            /\ v.attempts = [u.attempts EXCEPT ![a[1]] = a[2] + 1]
    BY <2>1, <2>4, RetriedShape
  <2>6. RetriedStep(db, db', a)
    BY <2>1, <2>3, <2>5 DEF u, RetriedStep, Unmoved
  <2> QED
    BY <2>6 DEF Moved
<1>9. CASE \E o \in Occurrence : ResolveMarkFailed(o)
  <2>1. PICK a \in Action :
          /\ runtime_accepts(db, a)
          /\ db' = resolve_uncertain(step_failed(db, a), a, "operator_marked_failed")
    BY <1>9 DEF ResolveMarkFailed, lock_uncertain
  <2>2. "operator_marked_failed" \in Failure
    BY DEF Failure, OperatorFailures
  <2>3. step_failed(db, a) \in Database
    BY <1>0, FailedShape
  <2>4. step_failed(db, a).seen[a] \in 0 .. MaxGeneration
    BY <2>3 DEF Database
  <2>5. FailedStep(db, db', a)
    BY <1>0, <2>1, <2>2, <2>4, FailureMoves DEF resolve_uncertain
  <2> QED
    BY <2>5 DEF Moved
<1>10. ASSUME NEW a \in Action, NEW fresh \in BOOLEAN, Authorize(a, fresh)
       PROVE  Moved(db, db')
  <2> DEFINE u == retire_uncertain_schedule(db, a)
  <2>1. /\ runtime_accepts(db, a) /\ a[2] < MaxAttempts /\ db' = step_retried(u, a)
    BY <1>10 DEF Authorize
  <2>2. u \in Database /\ Unmoved(db, u)
    <3> DEFINE t == [db EXCEPT !.sched[a] = "failed"]
    <3>1. t \in Database /\ Unmoved(db, t)
      BY <1>0 DEF Database, ScheduleState, Unmoved
    <3>2. u = update_active_dispatches(t) \/ u = db
      BY DEF retire_uncertain_schedule
    <3> HIDE DEF t, u
    <3>3. update_active_dispatches(t) \in Database
      BY <3>1, UpdateShape
    <3> QED
      BY <1>0, <3>1, <3>2, <3>3, UnmovedUpdate, UnmovedSelf
  <2> HIDE DEF u
  <2>3. LET v == step_retried(u, a)
        IN  /\ v.run = u.run /\ v.occ = u.occ
            /\ v.attempts = [u.attempts EXCEPT ![a[1]] = a[2] + 1]
    BY <2>1, <2>2, RetriedShape
  <2>4. RetriedStep(db, db', a)
    BY <2>1, <2>2, <2>3 DEF RetriedStep, Unmoved
  <2> QED
    BY <2>4 DEF Moved
<1>11. ASSUME NEW a \in Action, NEW b \in Action, FinalizeRequested(a, b)
       PROVE  Moved(db, db')
  BY <1>10, <1>11 DEF FinalizeRequested
<1> QED
  BY <1>1, <1>2, <1>3, <1>4, <1>5, <1>6, <1>7, <1>8, <1>9, <1>10, <1>11
  DEF Next, MarkDispatched, Accepted, Running, UncertainFact, Fact

----------------------------------------------------------------------------
(* A retry is a Retry of the lifecycle ...                                   *)
LEMMA RetriedIsRetry ==
    ASSUME TypeOK, NEW a \in Action, RetriedStep(db, db', a)
    PROVE  Lifecycle!Next
<1>1. a[1] \in Occurrence /\ db.attempts[a[1]] = a[2]
  BY ActionPairs DEF RetriedStep, runtime_accepts
<1>2. Lifecycle!Retry(a[1])
  BY <1>1 DEF RetriedStep, runtime_accepts, Lifecycle!Retry, TypeOK, Database
<1> QED
  BY <1>1, <1>2 DEF Lifecycle!Next

(* ... a failure of a step is a Fail ...                                     *)
LEMMA FailedIsFail ==
    ASSUME TypeOK, NEW a \in Action, FailedStep(db, db', a)
    PROVE  Lifecycle!Next
<1>1. a[1] \in Occurrence
  BY ActionPairs
<1>2. Lifecycle!Fail(a[1])
  BY <1>1 DEF FailedStep, runtime_accepts, Lifecycle!Fail
<1> QED
  BY <1>1, <1>2 DEF Lifecycle!Next

(* ... and a completion is a Complete: it starts only what was pending, and  *)
(* nothing when it ends the Run.                                             *)
LEMMA CompletedIsComplete ==
    ASSUME TypeOK, TypeOK', NEW a \in Action, CompletedStep(db, db', a)
    PROVE  Lifecycle!Next
<1>1. /\ a[1] \in Occurrence /\ db \in Database /\ db' \in Database
      /\ runtime_accepts(db, a)
  BY ActionPairs DEF CompletedStep, TypeOK
<1>2. PICK x \in BOOLEAN :
        /\ db'.run = step_completed(db, a, x).run
        /\ db'.occ = step_completed(db, a, x).occ
        /\ db'.attempts = step_completed(db, a, x).attempts
  BY DEF CompletedStep
<1> DEFINE c == step_completed(db, a, x)
<1>3. /\ c.run = "completed" => \A o \in Occurrence : c.occ[o] # "dispatched"
      /\ c.occ[a[1]] = "completed" /\ c.attempts[a[1]] = db.attempts[a[1]]
      /\ \A o \in Occurrence \ {a[1]} :
           \/ c.occ[o] = db.occ[o] /\ c.attempts[o] = db.attempts[o]
           \/ /\ db.occ[o] = "pending" /\ c.occ[o] = "dispatched"
              /\ c.attempts[o] = 1 /\ c.run = "running"
  BY <1>1, CompletedShape
<1>4. db'.run = c.run /\ db'.occ = c.occ /\ db'.attempts = c.attempts
  BY <1>2
<1> HIDE DEF c
<1>5. /\ db.run = "running" /\ db.occ[a[1]] = "dispatched"
      /\ db'.run \in {"running", "completed", "failed"}
      /\ db'.occ \in [Occurrence -> {"pending", "dispatched", "completed", "failed"}]
      /\ db'.attempts \in [Occurrence -> 0 .. MaxAttempts]
  BY <1>1 DEF Database, RunStatus, OccurrenceStatus, runtime_accepts
<1>6. db'.attempts = [p \in Occurrence |->
                        IF db'.occ[p] # db.occ[p] /\ p # a[1] THEN 1 ELSE db.attempts[p]]
  BY <1>1, <1>3, <1>4, <1>5
<1>7. Lifecycle!Complete(a[1])
  BY <1>3, <1>4, <1>5, <1>6 DEF Lifecycle!Complete, Lifecycle!Status
<1> QED
  BY <1>1, <1>7 DEF Lifecycle!Next

(* Whatever facts and decisions reach the server, in whichever order, the    *)
(* Run it persists only ever moves along the lifecycle: a late, repeated or  *)
(* contradicting fact is refused or changes nothing of it.                   *)
THEOREM Refinement == Spec => ImplementsLifecycle
<1>1. Init => Lifecycle!Init
  BY DEF Init, Lifecycle!Init
<1>2. ASSUME IInv, IInv', [Next]_vars PROVE [Lifecycle!Next]_(Lifecycle!vars)
  <2>0. TypeOK /\ TypeOK'
    BY <1>2 DEF IInv
  <2>1. CASE UNCHANGED vars
    BY <2>1 DEF vars, Lifecycle!vars
  <2>2. CASE Next
    <3>1. Moved(db, db')
      BY <1>2, <2>2, NextMoves
    <3>2. CASE Unmoved(db, db')
      BY <3>2 DEF Unmoved, Lifecycle!vars
    <3>3. CASE \E a \in Action :
                 RetriedStep(db, db', a) \/ FailedStep(db, db', a) \/ CompletedStep(db, db', a)
      BY <2>0, <3>3, RetriedIsRetry, FailedIsFail, CompletedIsComplete
    <3> QED
      BY <3>1, <3>2, <3>3 DEF Moved
  <2> QED
    BY <1>2, <2>1, <2>2
<1> QED
  BY <1>1, <1>2, Invariance, PTL DEF Spec, ImplementsLifecycle, Lifecycle!Spec
=============================================================================
