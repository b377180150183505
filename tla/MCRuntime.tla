----------------------------- MODULE MCRuntime -----------------------------
(***************************************************************************)
(* Execution plans, as the compiler makes them, on which TLC runs the       *)
(* Runtime: Init chooses one of three, and the Run follows it.              *)
(***************************************************************************)
EXTENDS Naturals, Sequences, TLC

NoSource == [type |-> "none"]

Ref(step, output) == [type |-> "ref", step |-> step, output |-> output]
Until(region, kind, source, producer) ==
    [type |-> "until", region |-> region, kind |-> kind, source |-> source,
     producer |-> producer]
Out(name, kind) == [name |-> name, kind |-> kind, gate |-> "none", subject |-> "none"]
Verdict(gate, subject) ==
    [name |-> "verdict", kind |-> "review_verdict", gate |-> gate, subject |-> subject]
Bind(consumer, input, source) == [consumer |-> consumer, input |-> input, source |-> source]
Current(consumer, phase) ==
    [consumer |-> consumer, input |-> "doc", kind |-> "document", phase |-> phase]
Carry(initial, remediation) ==
    [kind |-> "document", initial |-> initial, remediation |-> remediation]
Steps_(steps) == [steps |-> steps, regions |-> {}, dependencies |-> {}]

(***************************************************************************)
(* implement, then Until review accepts (otherwise repair, at most twice),  *)
(* then ship the accepted document; docs runs beside all of it and must      *)
(* only be over before ship starts.                                         *)
(***************************************************************************)
Released == Until("until", "document", "carried", NoSource)
Reviewed == Until("until", "review_verdict", "check", Ref("review", "verdict"))

ReviewRegion ==
    [parent |-> "none", check |-> Steps_({"review"}), otherwise |-> Steps_({"repair"}),
     condition |-> Ref("review", "verdict"), expected |-> "accepted",
     gate |-> "quality", subject |-> "document", max |-> 2,
     bindings |-> {Current("review", "check"), Current("repair", "otherwise")},
     carries |-> {Carry(Ref("implement", "doc"), Ref("repair", "doc"))},
     outputs |-> <<Reviewed, Released>>]

ReviewSteps == {"docs", "implement", "repair", "review", "ship"}

ReviewPlan ==
    [steps |-> <<"docs", "implement", "repair", "review", "ship">>,
     regions |-> <<"until">>,
     produces |-> [s \in ReviewSteps |->
                     CASE s = "review" -> <<Verdict("quality", "doc")>>
                       [] s \in {"implement", "repair"} -> <<Out("doc", "document")>>
                       [] OTHER -> <<Out("note", "note")>>],
     dependencies |-> {<<"implement", "until">>, <<"until", "ship">>, <<"docs", "ship">>},
     bindings |-> {Bind("repair", "verdict", Ref("review", "verdict")),
                   Bind("ship", "doc", Released),
                   Bind("ship", "verdict", Reviewed)},
     region |-> [until |-> ReviewRegion],
     exports |-> {Released},
     documents |-> {"document"},
     sameAs |-> [s \in ReviewSteps |-> IF s = "repair" THEN "implement" ELSE "none"],
     continueFrom |-> [s \in ReviewSteps |->
                         CASE s = "repair" -> "implement"
                           [] s = "ship" -> "review"
                           [] OTHER -> "none"]]

(***************************************************************************)
(* The remediation is itself a sequence that ends in an Until: repair, then *)
(* Until test passes (otherwise debug, at most once).                       *)
(***************************************************************************)
Tested == Until("tests", "result", "check", Ref("test", "result"))

NestedSteps_ == {"debug", "docs", "implement", "repair", "review", "test"}

NestedPlan ==
    [steps |-> <<"debug", "docs", "implement", "repair", "review", "test">>,
     regions |-> <<"tests", "until">>,
     produces |-> [s \in NestedSteps_ |->
                     CASE s = "review" -> <<Verdict("quality", "doc")>>
                       [] s = "test" -> <<Out("result", "result")>>
                       [] s \in {"implement", "repair"} -> <<Out("doc", "document")>>
                       [] OTHER -> <<Out("note", "note")>>],
     dependencies |-> {<<"implement", "until">>, <<"repair", "tests">>},
     bindings |-> {Bind("repair", "verdict", Ref("review", "verdict")),
                   Bind("test", "doc", Ref("repair", "doc")),
                   Bind("debug", "result", Ref("test", "result"))},
     region |->
        [until |-> [ReviewRegion EXCEPT
                      !.otherwise = [steps |-> {"repair", "test", "debug"},
                                     regions |-> {"tests"},
                                     dependencies |-> {<<"repair", "tests">>}]],
         tests |-> [parent |-> "until", check |-> Steps_({"test"}),
                    otherwise |-> Steps_({"debug"}),
                    condition |-> Ref("test", "result"), expected |-> "accepted",
                    gate |-> "none", subject |-> "none", max |-> 1,
                    bindings |-> {}, carries |-> {}, outputs |-> <<Tested>>]],
     exports |-> {Released},
     documents |-> {"document"},
     sameAs |-> [s \in NestedSteps_ |-> IF s = "debug" THEN "repair" ELSE "none"],
     continueFrom |-> [s \in NestedSteps_ |->
                         CASE s = "debug" -> "repair"
                           [] s = "test" -> "implement"
                           [] OTHER -> "none"]]

(***************************************************************************)
(* The remediation is an Until of its own that revises the same document:   *)
(* Until test accepts it, otherwise fix.                                    *)
(***************************************************************************)
Fixed == Until("inner", "document", "carried", NoSource)

RevisionSteps == {"fix", "implement", "review", "test"}

RevisionPlan ==
    [steps |-> <<"fix", "implement", "review", "test">>,
     regions |-> <<"inner", "until">>,
     produces |-> [s \in RevisionSteps |->
                     CASE s = "review" -> <<Verdict("quality", "doc")>>
                       [] s = "test" -> <<Verdict("tests", "doc")>>
                       [] OTHER -> <<Out("doc", "document")>>],
     dependencies |-> {<<"implement", "until">>},
     bindings |-> {},
     region |->
        [until |-> [ReviewRegion EXCEPT
                      !.otherwise = [steps |-> {"test", "fix"}, regions |-> {"inner"},
                                     dependencies |-> {}],
                      !.bindings = {Current("review", "check")},
                      !.carries = {Carry(Ref("implement", "doc"), Fixed)}],
         inner |-> [ReviewRegion EXCEPT
                      !.parent = "until", !.max = 1, !.gate = "tests",
                      !.check = Steps_({"test"}), !.otherwise = Steps_({"fix"}),
                      !.condition = Ref("test", "verdict"),
                      !.bindings = {Current("test", "check"), Current("fix", "otherwise")},
                      !.carries = {Carry(Ref("implement", "doc"), Ref("fix", "doc"))},
                      !.outputs = <<Until("inner", "review_verdict", "check",
                                          Ref("test", "verdict")), Fixed>>]],
     exports |-> {Released},
     documents |-> {"document"},
     sameAs |-> [s \in RevisionSteps |-> "none"],
     continueFrom |-> [s \in RevisionSteps |-> "none"]]
(***************************************************************************)
(* The Runs.                                                                *)
(***************************************************************************)
VARIABLES
    plan,         \* the plan this behaviour follows
    run, outbox

Review   == INSTANCE Runtime WITH Plan <- ReviewPlan, MaxRetries <- 1, MaxOccurrences <- 20
Nested   == INSTANCE Runtime WITH Plan <- NestedPlan, MaxRetries <- 0, MaxOccurrences <- 20
Revision == INSTANCE Runtime WITH Plan <- RevisionPlan, MaxRetries <- 0, MaxOccurrences <- 20

vars == <<plan, run, outbox>>

Init ==
    \/ plan = "review" /\ Review!Init
    \/ plan = "nested" /\ Nested!Init
    \/ plan = "revision" /\ Revision!Init

Next ==
    \/ plan = "review" /\ Review!Next /\ UNCHANGED plan
    \/ plan = "nested" /\ Nested!Next /\ UNCHANGED plan
    \/ plan = "revision" /\ Revision!Next /\ UNCHANGED plan

(* Runtime's fairness, which does not depend on the plan.                   *)
Fairness == []<>(~Review!Outstanding) \/ []<><<Review!Reported>>_vars

Spec == Init /\ [][Next]_vars /\ Fairness

-----------------------------------------------------------------------------
(* Runtime's properties, under the plan of the behaviour.                   *)

(* A report that follows the protocol is applied                            *)
(* (Runtime.CompletionsAreNeverRefused).                                    *)
CompletionsAreNeverRefused ==
    /\ plan = "review" => Review!CompletionsAreNeverRefused
    /\ plan = "nested" => Nested!CompletionsAreNeverRefused
    /\ plan = "revision" => Revision!CompletionsAreNeverRefused

(* What an Until releases is what its verdict accepted                      *)
(* (Runtime.AcceptedSubjectIsReleased).                                     *)
AcceptedSubjectIsReleased ==
    /\ plan = "review" => Review!AcceptedSubjectIsReleased
    /\ plan = "nested" => Nested!AcceptedSubjectIsReleased
    /\ plan = "revision" => Revision!AcceptedSubjectIsReleased

(* A step reads the revision of the current iteration                       *)
(* (Runtime.InputsAreOfThisIteration).                                      *)
InputsAreOfThisIteration ==
    /\ plan = "review" => Review!InputsAreOfThisIteration
    /\ plan = "nested" => Nested!InputsAreOfThisIteration
    /\ plan = "revision" => Revision!InputsAreOfThisIteration

(* A step that continues another one's conversation finds it                *)
(* (Runtime.ContinuationsAreResolved).                                      *)
ContinuationsAreResolved ==
    /\ plan = "review" => Review!ContinuationsAreResolved
    /\ plan = "nested" => Nested!ContinuationsAreResolved
    /\ plan = "revision" => Revision!ContinuationsAreResolved

(* One latest version of a document (Runtime.VersionsNeverFork). The         *)
(* documents of the first two plans are revised by steps, those of the third *)
(* by a nested region.                                                      *)
VersionsNeverFork ==
    /\ plan = "review" => Review!VersionsNeverFork
    /\ plan = "nested" => Nested!VersionsNeverFork

(* The same where the revision is another Until's output: refuted.          *)
RegionRevisionsNeverFork == plan = "revision" => Revision!VersionsNeverFork

(* The Run's status refines RunLifecycle (Runtime.ImplementsLifecycle).     *)
ImplementsLifecycle == Review!ImplementsLifecycle

(* Every Run comes to an end when its actions do (Runtime.RunTerminates).    *)
RunTerminates == Review!RunTerminates
=============================================================================
