CONSTANTS
    Occurrence <- Pair
    NoOccurrence = 0
    Needs <- PairNeeds
    ContinueFrom <- PairContinues
    Allowance = 1
    Capacity = 2
    Members = 2
    MaxAttempts = 2
    MaxGeneration = 1
    FailureFacts = {"auto_retryable", "operator_recovery_required"}
    UncertainFacts = {"contract_violation"}
SPECIFICATION Spec
INVARIANT ResourcesAreExclusive
PROPERTY ImplementsLifecycle
CHECK_DEADLOCK FALSE
