------------------------------ MODULE Runtime ------------------------------
(***************************************************************************)
(* The semantic Runtime of a Run (core/runtime.ex): a pure interpreter      *)
(* that takes an immutable execution plan, a Run and one external event,    *)
(* and returns the next Run and the execute-step actions it emits.          *)
(*                                                                          *)
(* The plan is a constant.  Steps and Until regions are the endpoints of    *)
(* the plan; a scope is one activation of the root, of a region's check or  *)
(* of its otherwise subtree, and holds one occurrence per step.  Ids, which *)
(* the code makes from counters, are positions in the sequences of the Run. *)
(*                                                                          *)
(* `transition` is the whole handler: the event, then `advance` repeated    *)
(* until nothing changes.  It is total: an event the code refuses with an   *)
(* error leaves the Run as it was.                                          *)
(***************************************************************************)
EXTENDS Naturals, Sequences, FiniteSets, SequencesExt, TLC

CONSTANTS
    Plan,         \* the compiled execution plan, see the MC modules for instances
    MaxRetries,   \* bound: retries and recoveries requested in one Run
    MaxOccurrences  \* bound: occurrences that the refinement mapping looks at

RuntimeAssumption == MaxRetries \in Nat /\ MaxOccurrences \in Nat

VARIABLES
    run,          \* the %Run{} snapshot
    outbox        \* every action emitted so far (the pending_actions rows)

vars == <<run, outbox>>

Nil == 0
NoSource == [type |-> "none"]

Steps   == Range(Plan.steps)
Regions == Range(Plan.regions)

(***************************************************************************)
(* Results of the code's {:ok, ...} | {:error, ...} functions.              *)
(***************************************************************************)
Ok(r, actions, changed) ==
    [ok |-> TRUE, run |-> r, actions |-> actions, changed |-> changed]
Refused == [ok |-> FALSE, run |-> Nil, actions |-> <<>>, changed |-> FALSE]

Put(f, key, value) == (key :> value) @@ f

----------------------------------------------------------------------------
(* Plan membership: which steps and regions a scope holds directly.         *)

NestedSteps(regions) ==
    UNION {Plan.region[r].check.steps \cup Plan.region[r].otherwise.steps :
             r \in regions}

scope_dependencies(dependencies, endpoints) ==
    {d \in dependencies : d[1] \in endpoints /\ d[2] \in endpoints}

Members(steps, regions, dependencies) ==
    [steps |-> steps, regions |-> regions,
     dependencies |-> scope_dependencies(dependencies, steps \cup regions)]

root_members ==
    Members(Steps \ NestedSteps(Regions),
            {r \in Regions : Plan.region[r].parent = "none"},
            Plan.dependencies)

subtree_members(owner, subtree) ==
    LET nested == {r \in subtree.regions : Plan.region[r].parent = owner}
    IN  Members(subtree.steps \ NestedSteps(nested), nested, subtree.dependencies)

(* endpoint sort order of the code, fixed here as the order of the plan     *)
InPlanOrder(endpoints) ==
    SelectSeq(Plan.steps \o Plan.regions, LAMBDA e : e \in endpoints)

----------------------------------------------------------------------------
(* validate_plan: endpoints are known and dependencies have no cycle.       *)

Reaches(dependencies) ==
    LET nodes == {d[1] : d \in dependencies} \cup {d[2] : d \in dependencies}
        R[n \in 0 .. Cardinality(nodes)] ==
            IF n = 0 THEN dependencies
            ELSE R[n-1] \cup {<<p, q>> \in nodes \X nodes :
                                \E m \in nodes : <<p, m>> \in R[n-1] /\ <<m, q>> \in R[n-1]}
    IN  R[Cardinality(nodes)]

validate_plan ==
    /\ Cardinality(Steps) = Len(Plan.steps)
    /\ Cardinality(Regions) = Len(Plan.regions)
    /\ \A d \in Plan.dependencies : {d[1], d[2]} \subseteq Steps \cup Regions
    /\ \A e \in Steps \cup Regions : <<e, e>> \notin Reaches(Plan.dependencies)

----------------------------------------------------------------------------
(* Scopes: activation and artifact lookup.                                  *)

activate_scope(r, spec) ==
    LET id     == Len(r.scopes) + 1
        keys   == InPlanOrder(spec.members.steps)
        before == Len(r.occurrences)
        occurrence(i) ==
            [step |-> keys[i], scope |-> id, region |-> spec.region,
             phase |-> spec.kind, cycle |-> spec.cycle, status |-> "pending",
             current |-> Nil, attempts |-> <<>>, inputs |-> <<>>, outputs |-> <<>>]
        scope ==
            [kind |-> spec.kind, status |-> "active", region |-> spec.region,
             cycle |-> spec.cycle, members |-> spec.members,
             stepOccurrences |->
                [s \in spec.members.steps |->
                    before + (CHOOSE i \in DOMAIN keys : keys[i] = s)],
             regionOccurrences |-> <<>>,
             stepArtifacts |-> spec.stepArtifacts,
             regionOutputs |-> spec.regionOutputs,
             lineage |-> spec.lineage]
    IN  [r EXCEPT !.scopes = Append(@, scope),
                  !.occurrences = @ \o [i \in DOMAIN keys |-> occurrence(i)]]

RECURSIVE source_ref(_)
source_ref(output) ==
    CASE output.source = "carried" -> NoSource
      [] output.producer.type = "until" -> source_ref(output.producer)
      [] OTHER -> output.producer

(* the artifact a source denotes in a scope, Nil when it cannot be resolved *)
resolve_source(scope, source) ==
    LET exposed(test(_)) ==
            LET i == SelectInSeq(scope.regionOutputs, test)
            IN  IF i = 0 THEN Nil ELSE scope.regionOutputs[i].artifact
    IN  CASE source.type = "until" ->
                exposed(LAMBDA out : out.output = source)
          [] source.type = "ref" ->
                IF /\ source.step \in DOMAIN scope.stepArtifacts
                   /\ source.output \in DOMAIN scope.stepArtifacts[source.step]
                THEN scope.stepArtifacts[source.step][source.output]
                ELSE exposed(LAMBDA out : source_ref(out.output) = source)
          [] OTHER -> Nil

----------------------------------------------------------------------------
(* Dispatching one occurrence.                                              *)

LineageOf(scope, step) == IF step \in DOMAIN scope.lineage THEN scope.lineage[step] ELSE Nil

resolve_inputs(r, o) ==
    LET occurrence == r.occurrences[o]
        scope == r.scopes[occurrence.scope]
        fixed == {b \in Plan.bindings : b.consumer = occurrence.step}
        current ==
            IF occurrence.region = Nil THEN {}
            ELSE {b \in Plan.region[r.regions[occurrence.region].id].bindings :
                    b.consumer = occurrence.step /\ b.phase = occurrence.phase}
        carried(kind) ==
            LET artifacts == r.regions[occurrence.region].currentArtifacts
            IN  IF kind \in DOMAIN artifacts THEN artifacts[kind] ELSE Nil
    IN  [i \in {b.input : b \in fixed \cup current} |->
            IF \E b \in current : b.input = i
            THEN carried((CHOOSE b \in current : b.input = i).kind)
            ELSE resolve_source(scope, (CHOOSE b \in fixed : b.input = i).source)]

NoContract == [output |-> "none", gate |-> "none", subject |-> Nil]

acceptance_contract(step, inputs) ==
    LET i == SelectInSeq(Plan.produces[step], LAMBDA out : out.kind = "review_verdict")
    IN  IF i = 0 THEN NoContract
        ELSE LET out == Plan.produces[step][i]
             IN  IF out.subject \in DOMAIN inputs
                 THEN [output |-> out.name, gate |-> out.gate, subject |-> inputs[out.subject]]
                 ELSE NoContract

Action(r, o, attempt, inputs) ==
    LET occurrence == r.occurrences[o]
        scope == r.scopes[occurrence.scope]
        step == occurrence.step
    IN  [occurrence |-> o, attempt |-> attempt, step |-> step, inputs |-> inputs,
         affinity |-> LineageOf(scope, Plan.sameAs[step]),
         contextLineage |-> LineageOf(scope, Plan.continueFrom[step]),
         contract |-> acceptance_contract(step, inputs)]

dispatch_occurrence(r, o) ==
    LET inputs == resolve_inputs(r, o)
        next == [r EXCEPT !.occurrences[o] =
                    [@ EXCEPT !.status = "dispatched", !.current = 1,
                              !.attempts = <<"dispatched">>, !.inputs = inputs]]
    IN  IF \E i \in DOMAIN inputs : inputs[i] = Nil THEN Refused
        ELSE Ok(next, <<Action(r, o, 1, inputs)>>, TRUE)

----------------------------------------------------------------------------
(* Until regions.                                                           *)

(* Mutants: a check forgets the lineage in which the region was entered; a   *)
(* remediation starts from the entering scope instead of the check.          *)
activate_check_scope_afresh(r, g, cycle) ==
    LET region == r.regions[g]
    IN  activate_scope(r,
            [kind |-> "check", region |-> g, cycle |-> cycle,
             members |-> subtree_members(region.id, Plan.region[region.id].check),
             stepArtifacts |-> region.enteringStepArtifacts,
             regionOutputs |-> region.enteringRegionOutputs,
             lineage |-> <<>>])

activate_otherwise_scope_entering(r, g, cycle, check) ==
    LET region == r.regions[g]
    IN  activate_scope(r,
            [kind |-> "otherwise", region |-> g, cycle |-> cycle,
             members |-> subtree_members(region.id, Plan.region[region.id].otherwise),
             stepArtifacts |-> region.enteringStepArtifacts,
             regionOutputs |-> region.enteringRegionOutputs,
             lineage |-> check.lineage])

activate_check_scope(r, g, cycle) ==
    LET region == r.regions[g]
    IN  activate_scope(r,
            [kind |-> "check", region |-> g, cycle |-> cycle,
             members |-> subtree_members(region.id, Plan.region[region.id].check),
             stepArtifacts |-> region.enteringStepArtifacts,
             regionOutputs |-> region.enteringRegionOutputs,
             lineage |-> region.enteringLineage])

activate_otherwise_scope(r, g, cycle, check) ==
    LET region == r.regions[g]
    IN  activate_scope(r,
            [kind |-> "otherwise", region |-> g, cycle |-> cycle,
             members |-> subtree_members(region.id, Plan.region[region.id].otherwise),
             stepArtifacts |-> check.stepArtifacts,
             regionOutputs |-> check.regionOutputs,
             lineage |-> check.lineage])

(* the carried artifacts after every carry is read from the scope           *)
Carries(scope, id, producer, current) ==
    [k \in {c.kind : c \in Plan.region[id].carries} |->
        resolve_source(scope, (CHOOSE c \in Plan.region[id].carries : c.kind = k)[producer])]
    @@ current

Unresolved(artifacts) == \E k \in DOMAIN artifacts : artifacts[k] = Nil

enter_region(r, s, id) ==
    LET parent  == r.scopes[s]
        g       == Len(r.regions) + 1
        carries == Carries(parent, id, "initial", <<>>)
        region  == [id |-> id, parent |-> s, status |-> "checking", remediations |-> 0,
                    checks |-> <<Len(r.scopes) + 1>>, otherwises |-> <<>>,
                    currentArtifacts |-> carries,
                    enteringStepArtifacts |-> parent.stepArtifacts,
                    enteringRegionOutputs |-> parent.regionOutputs,
                    enteringLineage |-> parent.lineage,
                    outputs |-> <<>>, verdict |-> Nil]
        entered == [r EXCEPT !.regions = Append(@, region),
                             !.scopes[s].regionOccurrences = Put(@, id, g)]
    IN  IF Unresolved(carries) THEN Refused
        ELSE Ok(activate_check_scope(entered, g, 0), <<>>, TRUE)

(* Mutant: the verdict's subject is not compared.                           *)
condition_true_any_subject(r, g, artifact) ==
    r.artifacts[artifact].value.status = Plan.region[r.regions[g].id].expected

(* ReviewVerdict.accepted_for?/4 for the exact current subject, and the     *)
(* region's field condition                                                 *)
condition_true(r, g, artifact) ==
    LET region  == Plan.region[r.regions[g].id]
        current == r.regions[g].currentArtifacts
        value   == r.artifacts[artifact].value
    IN  /\ value.status = region.expected
        /\ region.gate # "none" =>
              /\ region.subject \in DOMAIN current
              /\ value.status = "accepted"
              /\ value.gate = region.gate
              /\ value.subject = current[region.subject]

merge_lineage(parent, check) == check @@ parent

complete_region(r, g, s, verdict) ==
    LET region  == r.regions[g]
        check   == r.scopes[s]
        source(out) == IF out.source = "check" THEN resolve_source(check, out.producer)
                       ELSE IF out.kind \in DOMAIN region.currentArtifacts
                            THEN region.currentArtifacts[out.kind] ELSE Nil
        declared == Plan.region[region.id].outputs
        outputs == [i \in DOMAIN declared |->
                      [output |-> declared[i], artifact |-> source(declared[i])]]
    IN  IF \E i \in DOMAIN outputs : outputs[i].artifact = Nil THEN Refused
        ELSE Ok([r EXCEPT !.regions[g].status = "completed",
                          !.regions[g].outputs = outputs,
                          !.regions[g].verdict = verdict,
                          !.scopes[region.parent].regionOutputs = @ \o outputs,
                          !.scopes[region.parent].lineage = merge_lineage(@, check.lineage)],
                <<>>, TRUE)

(* Mutant: one remediation too many.                                        *)
remediations_left_inclusive(region) == region.remediations <= Plan.region[region.id].max

remediations_left(region) == region.remediations < Plan.region[region.id].max

continue_or_exhaust_region(r, g, s) ==
    LET region == r.regions[g]
        remediating ==
            [r EXCEPT !.regions[g].status = "remediating",
                      !.regions[g].otherwises = Append(@, Len(r.scopes) + 1)]
        exhausted ==
            [r EXCEPT !.regions[g].status = "exhausted",
                      !.status = "failed", !.failure = "until_exhausted"]
    IN  IF remediations_left(region)
        THEN Ok(activate_otherwise_scope(remediating, g, region.remediations + 1, r.scopes[s]),
                <<>>, TRUE)
        ELSE Ok(exhausted, <<>>, TRUE)

----------------------------------------------------------------------------
(* Scope completion, by kind of scope.                                      *)

(* Mutant: the Run is not completed.                                        *)
complete_root_silently(r, s) == Ok(r, <<>>, TRUE)

complete_root(r, s) ==
    IF \E x \in Plan.exports : resolve_source(r.scopes[s], x) = Nil THEN Refused
    ELSE Ok([r EXCEPT !.status = "completed"], <<>>, TRUE)

complete_check(r, s) ==
    LET g        == r.scopes[s].region
        artifact == resolve_source(r.scopes[s], Plan.region[r.regions[g].id].condition)
    IN  IF artifact = Nil THEN Refused
        ELSE IF condition_true(r, g, artifact) THEN complete_region(r, g, s, artifact)
        ELSE continue_or_exhaust_region(r, g, s)

(* Mutant: the artifacts the remediation made are not carried on.           *)
update_carries_not(r, g, s) == r.regions[g].currentArtifacts

update_carries(r, g, s) ==
    Carries(r.scopes[s], r.regions[g].id, "remediation",
            r.regions[g].currentArtifacts)

complete_otherwise(r, s) ==
    LET g       == r.scopes[s].region
        region  == r.regions[g]
        carries == update_carries(r, g, s)
        done    == region.remediations + 1
        next    == [r EXCEPT !.regions[g].status = "checking",
                             !.regions[g].remediations = done,
                             !.regions[g].currentArtifacts = carries,
                             !.regions[g].checks = Append(@, Len(r.scopes) + 1)]
    IN  IF Unresolved(carries) THEN Refused
        ELSE Ok(activate_check_scope(next, g, done), <<>>, TRUE)

handle_scope_completion(r, s) ==
    CASE r.scopes[s].kind = "root"      -> complete_root(r, s)
      [] r.scopes[s].kind = "check"     -> complete_check(r, s)
      [] r.scopes[s].kind = "otherwise" -> complete_otherwise(r, s)

----------------------------------------------------------------------------
(* advance: start what is runnable, complete what is finished, repeat.      *)

endpoint_unstarted(r, s, e) ==
    LET scope == r.scopes[s]
    IN  IF e \in Steps THEN r.occurrences[scope.stepOccurrences[e]].status = "pending"
        ELSE e \notin DOMAIN scope.regionOccurrences

endpoint_completed(r, s, e) ==
    LET scope == r.scopes[s]
    IN  IF e \in Steps THEN r.occurrences[scope.stepOccurrences[e]].status = "completed"
        ELSE /\ e \in DOMAIN scope.regionOccurrences
             /\ r.regions[scope.regionOccurrences[e]].status = "completed"

(* Mutant: one completed prerequisite is enough.                            *)
prerequisites_any(r, s, e) ==
    LET before == {d \in r.scopes[s].members.dependencies : d[2] = e}
    IN  before # {} => \E d \in before : endpoint_completed(r, s, d[1])

prerequisites_completed(r, s, e) ==
    \A d \in r.scopes[s].members.dependencies :
        d[2] = e => endpoint_completed(r, s, d[1])

Endpoints(r, s) == r.scopes[s].members.steps \cup r.scopes[s].members.regions

start_endpoint(r, s, e) ==
    IF e \in Steps THEN dispatch_occurrence(r, r.scopes[s].stepOccurrences[e])
    ELSE enter_region(r, s, e)

(* Enum.reduce_while over {:ok, run, actions, changed?}                      *)
AddTo(acc, next) ==
    IF ~next.ok THEN Refused
    ELSE Ok(next.run, acc.actions \o next.actions, acc.changed \/ next.changed)

Reduce(step(_, _), start, items) ==
    LET then(acc, item) == IF ~acc.ok THEN acc ELSE AddTo(acc, step(acc.run, item))
    IN  FoldLeft(then, start, items)

start_runnable_endpoints(r, s) ==
    LET runnable == {e \in Endpoints(r, s) :
                        endpoint_unstarted(r, s, e) /\ prerequisites_completed(r, s, e)}
    IN  Reduce(LAMBDA q, e : start_endpoint(q, s, e), Ok(r, <<>>, FALSE),
               InPlanOrder(runnable))

maybe_complete_scope(r, s) ==
    IF /\ r.scopes[s].status = "active"
       /\ \A e \in Endpoints(r, s) : endpoint_completed(r, s, e)
    THEN handle_scope_completion([r EXCEPT !.scopes[s].status = "completed"], s)
    ELSE Ok(r, <<>>, FALSE)

advance_scope(r, s) ==
    IF r.scopes[s].status = "completed" THEN Ok(r, <<>>, FALSE)
    ELSE LET started == start_runnable_endpoints(r, s)
         IN  Reduce(maybe_complete_scope, started, <<s>>)

advance_once(r) ==
    LET active == SelectSeq([i \in DOMAIN r.scopes |-> i],
                            LAMBDA s : r.scopes[s].status = "active")
    IN  Reduce(advance_scope, Ok(r, <<>>, FALSE), active)

RECURSIVE advance(_, _)

(* Mutant: a single pass over the scopes.                                   *)
repeat_never(once, actions) ==
    IF once.ok THEN Ok(once.run, actions \o once.actions, TRUE) ELSE Refused

repeat(once, actions) ==
    IF ~once.ok THEN Refused
    ELSE IF once.changed THEN advance(once.run, actions \o once.actions)
    ELSE Ok(once.run, actions \o once.actions, TRUE)

advance(r, actions) ==
    IF r.status # "running" THEN Ok(r, actions, TRUE)
    ELSE repeat(advance_once(r), actions)

----------------------------------------------------------------------------
(* Events.                                                                  *)

(* What a step supplies for an output with a status field, which conditions *)
(* read.  For a review verdict put_new keeps its own gate and subject.       *)
Judgements == {"review_verdict", "result"}
NoVerdict == [status |-> "none", gate |-> "none", subject |-> Nil]

SetAttempt(attempts, n, status) == [attempts EXCEPT ![n] = status]

(* scope_verdict, DocumentArtifact.normalize and the version chain          *)
build_artifact(r, o, out, event) ==
    LET occurrence == r.occurrences[o]
        contract == acceptance_contract(occurrence.step, occurrence.inputs)
        scope    == IF contract.output = out.name THEN contract ELSE NoContract
        supplied == IF out.kind \in Judgements THEN event.verdict ELSE NoVerdict
        value    == [status  |-> supplied.status,
                     gate    |-> IF supplied.gate = "none" THEN scope.gate ELSE supplied.gate,
                     subject |-> IF supplied.subject = Nil THEN scope.subject
                                 ELSE supplied.subject]
        same     == {occurrence.inputs[i] : i \in {j \in DOMAIN occurrence.inputs :
                        r.artifacts[occurrence.inputs[j]].kind = out.kind}}
        previous == IF same = {} THEN Nil ELSE CHOOSE a \in same : TRUE
        document == out.kind \in Plan.documents
    IN  [kind |-> out.kind, producer |-> o, value |-> value,
         supersedes |-> IF document THEN previous ELSE Nil,
         version |-> IF ~document THEN 0
                     ELSE IF previous = Nil THEN 1 ELSE r.artifacts[previous].version + 1]

ValidVerdict(artifact) ==
    artifact.kind = "review_verdict" =>
        /\ artifact.value.status \in {"accepted", "rejected"}
        /\ artifact.value.gate # "none" /\ artifact.value.subject # Nil

(* Mutant: the artifact counter is one ahead.                               *)
artifact_ids_ahead(r, outs) ==
    [name \in {outs[i].name : i \in DOMAIN outs} |->
        Len(r.artifacts) + 1 + (CHOOSE i \in DOMAIN outs : outs[i].name = name)]

artifact_ids(r, outs) ==
    [name \in {outs[i].name : i \in DOMAIN outs} |->
        Len(r.artifacts) + (CHOOSE i \in DOMAIN outs : outs[i].name = name)]

complete_occurrence(r, o, event) ==
    LET occurrence == r.occurrences[o]
        outs   == Plan.produces[occurrence.step]
        built  == [i \in DOMAIN outs |-> build_artifact(r, o, outs[i], event)]
        ids    == artifact_ids(r, outs)
        scope  == occurrence.scope
    IN  IF \E i \in DOMAIN built : ~ValidVerdict(built[i]) THEN Refused
        ELSE Ok([r EXCEPT
                   !.artifacts = @ \o built,
                   !.occurrences[o] =
                      [@ EXCEPT !.status = "completed", !.outputs = ids,
                                !.attempts = SetAttempt(@, occurrence.current, "completed")],
                   !.scopes[scope].stepArtifacts = Put(@, occurrence.step, ids),
                   !.scopes[scope].lineage = Put(@, occurrence.step, o)],
                <<>>, TRUE)

(* Mutant: the retry takes the number of the attempt before.                *)
next_attempt_same(occurrence) == Len(occurrence.attempts)

next_attempt(occurrence) == Len(occurrence.attempts) + 1

retry_occurrence(r, o, preserve) ==
    LET occurrence == r.occurrences[o]
        number   == next_attempt(occurrence)
        previous == IF preserve THEN occurrence.attempts
                    ELSE SetAttempt(occurrence.attempts, occurrence.current, "failed")
        next == [r EXCEPT !.occurrences[o] =
                    [@ EXCEPT !.status = "dispatched", !.current = number,
                              !.attempts = Append(previous, "dispatched")]]
    IN  Ok(next, <<Action(r, o, number, occurrence.inputs)>>, TRUE)

(* Mutant: the Run goes on after a failed step.                             *)
fail_occurrence_only(r, o) ==
    Ok([r EXCEPT !.occurrences[o].status = "failed"], <<>>, TRUE)

fail_occurrence(r, o) ==
    LET occurrence == r.occurrences[o]
    IN  Ok([r EXCEPT !.status = "failed", !.failure = "step_failed",
                     !.occurrences[o] =
                        [@ EXCEPT !.status = "failed",
                                  !.attempts = SetAttempt(@, occurrence.current, "failed")]],
           <<>>, TRUE)

(* fetch_completable_occurrence and validate_attempt                        *)
completable(r, event) ==
    /\ event.occurrence \in DOMAIN r.occurrences
    /\ r.occurrences[event.occurrence].status = "dispatched"
    /\ r.occurrences[event.occurrence].current = event.attempt

validate_outputs(r, event) ==
    LET outs == Plan.produces[r.occurrences[event.occurrence].step]
    IN  event.outputs = {outs[i].name : i \in DOMAIN outs}

transition(r, event) ==
    CASE r.status # "running" -> Refused
      [] ~completable(r, event) -> Refused
      [] event.type = "step_completed" ->
            IF ~validate_outputs(r, event) THEN Refused
            ELSE LET done == complete_occurrence(r, event.occurrence, event)
                 IN  IF done.ok THEN advance(done.run, <<>>) ELSE Refused
      [] event.type = "step_retry_requested"    -> retry_occurrence(r, event.occurrence, FALSE)
      [] event.type = "step_recovery_requested" -> retry_occurrence(r, event.occurrence, TRUE)
      [] event.type = "step_failed"             -> fail_occurrence(r, event.occurrence)

----------------------------------------------------------------------------
start ==
    LET empty == [status |-> "running", failure |-> "none", occurrences |-> <<>>,
                  regions |-> <<>>, scopes |-> <<>>, artifacts |-> <<>>]
    IN  advance(activate_scope(empty,
                    [kind |-> "root", region |-> Nil, cycle |-> 0,
                     members |-> root_members, stepArtifacts |-> <<>>,
                     regionOutputs |-> <<>>, lineage |-> <<>>]), <<>>)

Init ==
    /\ validate_plan
    /\ \E started \in {start} : run = started.run /\ outbox = Range(started.actions)

(* RuntimeStore.apply_transition commits the snapshot and the emitted       *)
(* actions in one transaction; a refused event changes neither.             *)
Apply(event) ==
    \E result \in {transition(run, event)} :
        /\ result.ok
        /\ run' = result.run
        /\ outbox' = outbox \cup Range(result.actions)

Event(type, o, outputs, verdict) ==
    [type |-> type, occurrence |-> o, attempt |-> run.occurrences[o].current,
     outputs |-> outputs, verdict |-> verdict]

DeclaredOutputs(o) ==
    LET outs == Plan.produces[run.occurrences[o].step]
    IN  {outs[i].name : i \in DOMAIN outs}

Judges(o, kind) ==
    \E i \in DOMAIN Plan.produces[run.occurrences[o].step] :
        Plan.produces[run.occurrences[o].step][i].kind = kind

(* A judging step accepts or rejects; a reviewer may also name a gate or a   *)
(* subject itself: any version of a document it was given.                   *)
Verdicts(o) ==
    LET inputs == Range(run.occurrences[o].inputs)
        versions == {a \in DOMAIN run.artifacts :
                        \E b \in inputs : run.artifacts[a].kind = run.artifacts[b].kind}
        verdict(status, gate, subject) ==
            [status |-> status, gate |-> gate, subject |-> subject]
    IN  CASE Judges(o, "review_verdict") ->
                {verdict(x, "none", a) : x \in {"accepted", "rejected"}, a \in {Nil} \cup versions}
                \cup {verdict("accepted", "other", Nil)}
          [] Judges(o, "result") -> {verdict(x, "none", Nil) : x \in {"accepted", "rejected"}}
          [] OTHER -> {NoVerdict}

StepCompleted(o) ==
    \E v \in Verdicts(o) : Apply(Event("step_completed", o, DeclaredOutputs(o), v))

Retries == Cardinality({a \in outbox : a.attempt > 1})

StepRetryRequested(o) ==
    /\ Retries < MaxRetries
    /\ Apply(Event("step_retry_requested", o, {}, NoVerdict))

StepRecoveryRequested(o) ==
    /\ Retries < MaxRetries
    /\ Apply(Event("step_recovery_requested", o, {}, NoVerdict))

StepFailed(o) == Apply(Event("step_failed", o, {}, NoVerdict))

Next ==
    \/ \E o \in DOMAIN run.occurrences : StepCompleted(o)
    \/ \E o \in DOMAIN run.occurrences : StepRetryRequested(o)
    \/ \E o \in DOMAIN run.occurrences : StepRecoveryRequested(o)
    \/ \E o \in DOMAIN run.occurrences : StepFailed(o)

(* The performers of dispatched work eventually report; nothing makes an    *)
(* operator retry, recover or fail a step.  This is weak fairness of         *)
(* \E o : StepCompleted(o) with its enabling condition written out (the      *)
(* invariant CompletionsAreNeverRefused says that it is the condition).      *)
Outstanding ==
    /\ run.status = "running"
    /\ \E o \in DOMAIN run.occurrences : run.occurrences[o].status = "dispatched"

Reported ==
    \E o \in DOMAIN run.occurrences :
        /\ run.occurrences[o].status = "dispatched"
        /\ run'.occurrences[o].status = "completed"

Fairness == []<>(~Outstanding) \/ []<><<Reported>>_vars

Spec == Init /\ [][Next]_vars
FairSpec == Spec /\ Fairness

----------------------------------------------------------------------------
(* Properties.                                                              *)

Occurrences == DOMAIN run.occurrences

Status == {"pending", "dispatched", "completed", "failed"}

(* The statuses and cross references of the Run snapshot are well formed:    *)
(* every id stored in an occurrence, region, scope or artifact of the Run    *)
(* names an existing one (what the code fetches with Map.fetch!).            *)
TypeOK ==
    /\ run.status \in {"running", "completed", "failed"}
    /\ run.failure \in {"none", "until_exhausted", "step_failed"}
    /\ \A o \in Occurrences :
         LET occurrence == run.occurrences[o]
         IN  /\ occurrence.step \in Steps /\ occurrence.status \in Status
             /\ occurrence.scope \in DOMAIN run.scopes
             /\ occurrence.region \in {Nil} \cup DOMAIN run.regions
             /\ Range(occurrence.inputs) \cup Range(occurrence.outputs)
                    \subseteq DOMAIN run.artifacts
    /\ \A s \in DOMAIN run.scopes :
         /\ Range(run.scopes[s].stepOccurrences) \subseteq Occurrences
         /\ Range(run.scopes[s].regionOccurrences) \subseteq DOMAIN run.regions
         /\ Range(run.scopes[s].lineage) \subseteq Occurrences
    /\ \A g \in DOMAIN run.regions :
         Range(run.regions[g].checks \o run.regions[g].otherwises) \subseteq DOMAIN run.scopes

(* In every scope a step is dispatched, and an Until region entered, only    *)
(* after all its prerequisites there completed (prerequisites_completed?),   *)
(* whatever the order in which parallel steps report.                        *)
PrerequisitesRespected ==
    \A s \in DOMAIN run.scopes : \A d \in run.scopes[s].members.dependencies :
        ~endpoint_unstarted(run, s, d[2]) => endpoint_completed(run, s, d[1])

(* A region runs one check more than it has completed remediations, never    *)
(* more than max_remediations of them, and gives up - failing the Run - only *)
(* when all of them are spent (continue_or_exhaust_region).                  *)
RemediationBound ==
    \A g \in DOMAIN run.regions :
        LET region == run.regions[g]
            max == Plan.region[region.id].max
        IN  /\ Len(region.checks) = region.remediations + 1
            /\ Len(region.otherwises) <= max
            /\ Len(region.otherwises) =
                  region.remediations + (IF region.status = "remediating" THEN 1 ELSE 0)
            /\ region.status = "exhausted" =>
                  region.remediations = max /\ run.failure = "until_exhausted"

(* A running Run always has outstanding work: advance never stops at a point *)
(* where no step is dispatched, so no Run waits for an event nobody sends.   *)
RunningHasWork ==
    run.status = "running" => \E o \in Occurrences : run.occurrences[o].status = "dispatched"

(* Whatever a performer of a dispatched step reports with the declared       *)
(* outputs and a well formed verdict is accepted: no completion is refused   *)
(* because an input, a carry, a condition artifact, an Until output or a     *)
(* tactic output of the next scope cannot be resolved.                       *)
CompletionsAreNeverRefused ==
    run.status = "running" =>
        \A o \in Occurrences : run.occurrences[o].status = "dispatched" =>
            \A v \in Verdicts(o) :
                transition(run, Event("step_completed", o, DeclaredOutputs(o), v)).ok

(* A gated region completes only on a verdict of its own last check that     *)
(* accepts exactly the artifact the region hands on: what a later step       *)
(* receives as the accepted document is the document that was accepted, not  *)
(* an earlier or a later version (condition_true?, accepted_for?/4).         *)
AcceptedSubjectIsReleased ==
    \A g \in DOMAIN run.regions :
        LET region == run.regions[g]
            plan   == Plan.region[region.id]
            verdict == run.artifacts[region.verdict]
        IN  region.status = "completed" /\ plan.gate # "none" =>
              /\ run.occurrences[verdict.producer].scope = Last(region.checks)
              /\ verdict.value.status = "accepted" /\ verdict.value.gate = plan.gate
              /\ \A i \in DOMAIN region.outputs :
                    region.outputs[i].output.kind = plan.subject =>
                        region.outputs[i].artifact = verdict.value.subject

(* After the first remediation, a carried document that a step of a region   *)
(* reads is one that a remediation of that very region made; and a check     *)
(* reads what the remediation just before it made, a remediation the verdict *)
(* of the check just before it (update_carries, resolve_inputs).             *)
InputsAreOfThisIteration ==
    \A o \in Occurrences :
        LET occurrence == run.occurrences[o]
            done == IF occurrence.phase = "check" THEN occurrence.cycle ELSE occurrence.cycle - 1
            carried == {c.kind : c \in {d \in Plan.region[run.regions[occurrence.region].id].carries :
                                            d.remediation.type = "ref"}}
        IN  occurrence.region # Nil => \A i \in DOMAIN occurrence.inputs :
              LET artifact == run.artifacts[occurrence.inputs[i]]
                  producer == run.occurrences[artifact.producer]
              IN  /\ artifact.kind \in carried /\ done > 0 =>
                        producer.region = occurrence.region /\ producer.phase = "otherwise"
                  /\ producer.region = occurrence.region =>
                        CASE occurrence.phase = "check" -> producer.cycle = occurrence.cycle
                          [] producer.phase = "check" -> producer.cycle = done
                          [] producer.phase = "otherwise" -> producer.cycle >= done

(* Versions of a document form one chain: a new version is one more than the *)
(* version it supersedes, and no two versions supersede the same one, so a   *)
(* remediation never silently drops the remediation before it.               *)
VersionsNeverFork ==
    \A a, b \in DOMAIN run.artifacts :
        LET A == run.artifacts[a]
            B == run.artifacts[b]
        IN  A.supersedes # Nil =>
              /\ A.supersedes < a
              /\ A.version = run.artifacts[A.supersedes].version + 1
              /\ A.supersedes = B.supersedes => a = b

(* Every attempt of the Run was announced by exactly one execute-step action *)
(* and every action belongs to an attempt: no dispatch is lost and none is   *)
(* invented, whatever is retried while parallel steps complete.              *)
OneActionPerAttempt ==
    /\ \A a, b \in outbox : a.occurrence = b.occurrence /\ a.attempt = b.attempt => a = b
    /\ {<<a.occurrence, a.attempt>> : a \in outbox} =
       UNION {{o} \X DOMAIN run.occurrences[o].attempts : o \in Occurrences}

(* A step that continues from, or shares the performer of, another step is   *)
(* given an occurrence of exactly that step, which has completed, and a      *)
(* retry is given the same work as the first attempt: the lineage survives   *)
(* the boundaries of Until regions (complete_region merges it).              *)
ContinuationsAreResolved ==
    /\ \A a \in outbox :
         /\ Plan.continueFrom[a.step] # "none" =>
              /\ a.contextLineage # Nil
              /\ run.occurrences[a.contextLineage].step = Plan.continueFrom[a.step]
              /\ run.occurrences[a.contextLineage].status = "completed"
         /\ Plan.sameAs[a.step] # "none" =>
              /\ a.affinity # Nil
              /\ run.occurrences[a.affinity].step = Plan.sameAs[a.step]
    /\ \A a, b \in outbox :
         a.occurrence = b.occurrence => [a EXCEPT !.attempt = b.attempt] = b

(* Every Run reaches completed or failed: bounded remediation and finitely   *)
(* many retries leave no infinite execution.                                 *)
RunTerminates == <>(run.status # "running")

(* The Run as the rest of the system sees it: scopes, regions, artifacts and *)
(* plan are hidden, and ids beyond those activated so far are pending.       *)
Lifecycle == INSTANCE RunLifecycle WITH
    Occurrence <- 1 .. MaxOccurrences,
    runStatus  <- run.status,
    occurrence <- [o \in 1 .. MaxOccurrences |->
                     IF o \in Occurrences THEN run.occurrences[o].status ELSE "pending"],
    attempts   <- [o \in 1 .. MaxOccurrences |->
                     IF o \in Occurrences THEN run.occurrences[o].current ELSE 0]

(* The interpreter implements the lifecycle of a Run: every event completes, *)
(* retries or fails exactly one dispatched occurrence, starts only           *)
(* occurrences that were never started, and starts nothing when it ends the  *)
(* Run, however the regions nest.                                            *)
ImplementsLifecycle == Lifecycle!Spec
=============================================================================
