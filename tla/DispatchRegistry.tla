-------------------------- MODULE DispatchRegistry --------------------------
(***************************************************************************)
(* The Worker's durable dispatch registry (dispatches.sqlite): the rows of  *)
(* `dispatches`, of `harness_lineages` and of physical_process_transitions. *)
(* Every method is one SQLite transaction, so it is an operator from a      *)
(* registry r to the registry after it, and what it throws on is the        *)
(* negation of the operator of its name with can_ before it.                *)
(***************************************************************************)
EXTENDS Naturals, FiniteSets, Sequences

CONSTANTS
    Action,          \* dispatched actions (one attempt each)
    NoAction,        \* active_action_id, source_attempt_id: null
    Lineage,         \* physical lineages, 1 .. n
    Mode,            \* Mode[a]: "fresh", "continue", "retained" (human recovery) or "setup"
    Logical,         \* Logical[a]: the logical lineage the action asks for
    Occurrence,      \* Occurrence[a]: the step occurrence it is an attempt of
    Source           \* Source[a]: the attempt a recovery continues, or NoAction

NoLineage == 0
Retired == "retired"     \* a logical id no action asks for again: retired:<lineage>

RegistryAssumption ==
    /\ NoAction \notin Action
    /\ Lineage \subseteq Nat \ {NoLineage}
    /\ Source \in [Action -> Action \cup {NoAction}]
    /\ \A a \in Action : Mode[a] = "retained" => Source[a] # NoAction
    /\ Retired \notin {Logical[a] : a \in Action}

DispatchState == {"absent", "accepted", "running", "completed", "failed", "uncertain"}
Terminal == {"completed", "failed"}
Open == {"accepted", "running"}

(* what failure_json says, as far as it is ever read again: a cancellation;   *)
(* an observation timeout; a control failure before any prompt; native         *)
(* activity before the authorization; a harness contract violation; what the   *)
(* server asked for (operator); anything else                                  *)
FailureFact == {"none", "cancelled", "observation", "prepare", "preauth", "contract",
                "operator", "backend", "other"}
SessionState == {"absent", "starting", "running", "waiting_for_human", "recovering",
                 "retained", "closed", "unavailable"}

NoDispatch == [state |-> "absent", lineage |-> NoLineage, failure |-> "none",
               intent |-> FALSE, prompted |-> FALSE, native |-> FALSE, settled |-> FALSE,
               authorized |-> FALSE, acked |-> FALSE]
NoLineageRow == [logical |-> Retired, session |-> "absent", active |-> NoAction,
                 handle |-> FALSE, native |-> FALSE]

EmptyRegistry ==
    [d |-> [a \in Action |-> NoDispatch],
     l |-> [x \in Lineage |-> NoLineageRow],
     rows |-> <<>>,                          \* dispatches in rowid order
     moved |-> [a \in Action |-> "none"]]    \* physical_process_transitions.mode

LineageOf(r, a) == r.l[r.d[a].lineage]
Used(r) == {x \in Lineage : r.l[x].session # "absent"}
FreshLineage(r) == CHOOSE x \in Lineage \ Used(r) : \A y \in Lineage \ Used(r) : x <= y
ByLogical(r, g) == {x \in Used(r) : r.l[x].logical = g}

(* a lineage row as it is inserted                                           *)
InsertLineage(r, x, g, a) ==
    [r EXCEPT !.l[x] = [logical |-> g, session |-> "starting", active |-> a,
                        handle |-> FALSE, native |-> FALSE]]

----------------------------------------------------------------------------
(* Lineages reserved by a harness setup, before any action.                  *)

can_reserveSetupLineage(r, x, g) ==
    \/ r.l[x].session = "absent" /\ ByLogical(r, g) = {}
    \/ /\ r.l[x].logical = g /\ r.l[x].active = NoAction
       /\ r.l[x].session \notin {"absent", "closed", "unavailable"}

reserveSetupLineage(r, x, g) ==
    IF r.l[x].session = "absent" THEN InsertLineage(r, x, g, NoAction) ELSE r

retireUnclaimedSetupLineage(r, x) ==
    IF r.l[x].session # "absent" /\ r.l[x].active = NoAction
    THEN [r EXCEPT !.l[x].session = "closed"] ELSE r

----------------------------------------------------------------------------
(* Acceptance.                                                               *)

Attempts(r, o) == SelectSeq(r.rows, LAMBDA a : Occurrence[a] = o)
Previous(r, a) ==
    LET s == Attempts(r, Occurrence[a]) IN IF s = <<>> THEN NoAction ELSE s[Len(s)]

retainedWorkRecovery(r, a, p) ==
    /\ p # NoAction /\ Source[a] = p
    /\ r.d[p].state = "uncertain" /\ r.d[p].failure = "contract"
    /\ r.d[p].lineage \in ByLogical(r, Logical[a])

can_retireResolvedFreshLineage(r, a) ==
    \A x \in ByLogical(r, Logical[a]) :
        \E p \in {Previous(r, a)} :
            /\ p # NoAction
            /\ r.d[p].state = "failed" \/ retainedWorkRecovery(r, a, p)
            /\ r.d[p].lineage = x
            /\ \/ r.l[x].active = NoAction
               \/ retainedWorkRecovery(r, a, p) /\ r.l[x].active = p

(* the logical id is freed for the new attempt; a retained work recovery also *)
(* frees the lineage of the uncertain one                                     *)
retireResolvedFreshLineage(r, a) ==
    [r EXCEPT !.l = [x \in Lineage |->
        IF x \notin ByLogical(r, Logical[a]) THEN r.l[x]
        ELSE IF retainedWorkRecovery(r, a, Previous(r, a)) /\ r.l[x].active = Previous(r, a)
             THEN [r.l[x] EXCEPT !.logical = Retired, !.active = NoAction, !.session = "retained"]
             ELSE [r.l[x] EXCEPT !.logical = Retired]]]

(* the lineage of a setup, or the one a human recovery retains               *)
can_claimLineage(r, a, x) ==
    /\ x \in Lineage /\ r.l[x].logical = Logical[a]
    /\ r.l[x].active = NoAction
    /\ r.l[x].session \notin {"absent", "closed", "unavailable"}

AcceptRow(r, a, x) ==
    [r EXCEPT !.d[a] = [NoDispatch EXCEPT !.state = "accepted", !.lineage = x],
              !.rows = Append(r.rows, a)]

RetainedLineage(r, a) == r.d[Source[a]].lineage

can_accept(r, a) ==
    \/ r.d[a].state # "absent"
    \/ Mode[a] = "continue"
    \/ Mode[a] = "fresh" /\ can_retireResolvedFreshLineage(r, a) /\ Used(r) # Lineage
    \/ Mode[a] = "retained" /\ can_claimLineage(r, a, RetainedLineage(r, a))
    \/ Mode[a] = "setup" /\ \E x \in ByLogical(r, Logical[a]) : can_claimLineage(r, a, x)

(* accepting twice the same action changes nothing                           *)
accept(r, a) ==
    CASE r.d[a].state # "absent" -> r
      [] r.d[a].state = "absent" /\ Mode[a] = "continue" -> AcceptRow(r, a, NoLineage)
      [] r.d[a].state = "absent" /\ Mode[a] = "fresh" ->
            AcceptRow(InsertLineage(retireResolvedFreshLineage(r, a), FreshLineage(r),
                                    Logical[a], NoAction), a, FreshLineage(r))
      [] r.d[a].state = "absent" /\ Mode[a] = "retained" -> AcceptRow(r, a, RetainedLineage(r, a))
      [] r.d[a].state = "absent" /\ Mode[a] = "setup" ->
            AcceptRow(r, a, CHOOSE x \in ByLogical(r, Logical[a]) : can_claimLineage(r, a, x))

----------------------------------------------------------------------------
(* Lineages of an execution.                                                 *)

can_resolveContinuation(r, a) == ByLogical(r, Logical[a]) # {}
resolveContinuation(r, a) == CHOOSE x \in ByLogical(r, Logical[a]) : TRUE

assignLineage(r, a, x) ==
    IF r.d[a].lineage = NoLineage THEN [r EXCEPT !.d[a].lineage = x] ELSE r

can_occupy(r, x, a) == r.l[x].active \in {NoAction, a}

occupy(r, x, a) == [r EXCEPT !.l[x].active = a]

recordExecution(r, x) == [r EXCEPT !.l[x].handle = TRUE]

recordNativeSession(r, x) ==
    [r EXCEPT !.l[x] = [@ EXCEPT !.handle = TRUE, !.native = TRUE]]

updateSession(r, x, state) == [r EXCEPT !.l[x].session = state]

----------------------------------------------------------------------------
(* The transfer of a process that was prepared and never prompted.           *)

sourceLifecycleAbsent(row) ==
    ~row.intent /\ ~row.prompted /\ ~row.native /\ ~row.settled

retainsRecoveryOwnership(r, a) ==
    \/ r.d[a].state \in Open
    \/ /\ r.d[a].state = "uncertain" /\ r.d[a].lineage # NoLineage
       /\ ~ /\ LineageOf(r, a).logical = Retired
            /\ LineageOf(r, a).active = NoAction
            /\ LineageOf(r, a).session = "unavailable"

(* every action of this model runs in the worktree of its one Run            *)
assertPreparedTransfer(r, s, a, x) ==
    /\ r.d[s].state = "failed" /\ r.d[a].state = "accepted"
    /\ r.d[s].lineage = x /\ r.d[a].lineage = x
    /\ Mode[a] = "retained" /\ Source[a] = s /\ Occurrence[s] = Occurrence[a]
    /\ sourceLifecycleAbsent(r.d[s]) /\ sourceLifecycleAbsent(r.d[a])
    /\ ~r.l[x].native /\ r.l[x].session = "retained" /\ r.l[x].active = NoAction
    /\ \A b \in Action \ {a, s} : ~retainsRecoveryOwnership(r, b)

adoptPreparedProcess(r, a, x) ==
    [r EXCEPT !.l[x] = [@ EXCEPT !.active = a, !.session = "starting"], !.moved[a] = "adopted"]

can_replacePreparedProcessWithFresh(r, s, a, x) ==
    assertPreparedTransfer(r, s, a, x) /\ Used(r) # Lineage

replacePreparedProcessWithFresh(r, a, x) ==
    LET y == FreshLineage(r)
    IN  [InsertLineage([r EXCEPT !.l[x].logical = Retired], y, Logical[a], a)
           EXCEPT !.d[a].lineage = y, !.moved[a] = "fallback"]

----------------------------------------------------------------------------
(* Facts of a turn.                                                          *)

authorizePrompt(r, a) ==
    IF r.d[a].state \in Open THEN [r EXCEPT !.d[a].authorized = TRUE] ELSE r

(* Mutant: the intent to prompt is not written down.                        *)
markPromptIntent_unwritten(r, a) == r

markPromptIntent(r, a) == [r EXCEPT !.d[a].intent = TRUE]

Running(state) == IF state = "accepted" THEN "running" ELSE state

markPromptAccepted(r, a) ==
    [r EXCEPT !.d[a] = [@ EXCEPT !.prompted = TRUE, !.state = Running(r.d[a].state)]]

markNativeActivity(r, a) ==
    IF r.d[a].state \in Open
    THEN [r EXCEPT !.d[a] = [@ EXCEPT !.native = TRUE, !.state = Running(r.d[a].state)]] ELSE r

recordObservationFailure(r, a) ==
    IF r.d[a].state \in Terminal THEN r ELSE [r EXCEPT !.d[a].failure = "observation"]

isRecoverableObservationUncertainty(row) ==
    row.state = "uncertain" /\ row.failure = "observation"

resumeObservationUncertainty(r, a) ==
    IF isRecoverableObservationUncertainty(r.d[a]) THEN [r EXCEPT !.d[a].state = "running"] ELSE r

----------------------------------------------------------------------------
(* Terminal facts.  Physical occupancy ends with the execution, whatever the  *)
(* server knows of it.                                                        *)

ReleaseLineage(r, a) ==
    [r EXCEPT !.l = [x \in Lineage |->
        IF x = r.d[a].lineage /\ r.l[x].active = a
        THEN [r.l[x] EXCEPT !.active = NoAction, !.session = "retained"] ELSE r.l[x]]]

can_complete(r, a) == r.d[a].lineage # NoLineage /\ r.d[a].state # "failed"

complete(r, a) ==
    ReleaseLineage([r EXCEPT !.d[a] = [@ EXCEPT !.state = "completed", !.failure = "none",
                                                !.settled = TRUE]], a)

fail(r, a, failure, uncertain) ==
    IF r.d[a].state = "completed" THEN (IF uncertain THEN r ELSE ReleaseLineage(r, a))
    ELSE IF uncertain
         THEN [r EXCEPT !.d[a] = [@ EXCEPT !.state = "uncertain", !.failure = failure]]
         ELSE ReleaseLineage([r EXCEPT !.d[a] = [@ EXCEPT !.state = "failed",
                                                          !.failure = failure]], a)

can_cancel(r, a) == ~(r.d[a].state \in Terminal /\ r.d[a].acked)

cancel(r, a) ==
    IF r.d[a].state = "failed" /\ r.d[a].failure = "cancelled" THEN r
    ELSE ReleaseLineage([r EXCEPT !.d[a] = [@ EXCEPT !.state = "failed", !.failure = "cancelled",
                                                     !.acked = FALSE]], a)

acknowledgeServerTerminal(r, a) ==
    IF r.d[a].state \in Terminal THEN [r EXCEPT !.d[a].acked = TRUE] ELSE r

----------------------------------------------------------------------------
RegistryType ==
    [d : [Action -> [state : DispatchState, lineage : Lineage \cup {NoLineage},
                     failure : FailureFact, intent : BOOLEAN, prompted : BOOLEAN,
                     native : BOOLEAN, settled : BOOLEAN, authorized : BOOLEAN,
                     acked : BOOLEAN]],
     l : [Lineage -> [logical : {Logical[a] : a \in Action} \cup {Retired},
                      session : SessionState, active : Action \cup {NoAction},
                      handle : BOOLEAN, native : BOOLEAN]],
     rows : Seq(Action),
     moved : [Action -> {"none", "adopted", "fallback"}]]
=============================================================================
