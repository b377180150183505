SPECIFICATION Spec
INVARIANTS
    CompletionsAreNeverRefused
    AcceptedSubjectIsReleased
    InputsAreOfThisIteration
    VersionsNeverFork
    ContinuationsAreResolved
PROPERTIES
    ImplementsLifecycle
    RunTerminates
CHECK_DEADLOCK FALSE
