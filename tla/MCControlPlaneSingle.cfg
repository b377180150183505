CONSTANTS
    Occurrence <- Single
    NoOccurrence = 0
    Needs <- SingleNeeds
    ContinueFrom <- SingleContinues
    Allowance = 2
    Capacity = 1
    Members = 1
    MaxAttempts = 3
    MaxGeneration = 2
    FailureFacts = {"auto_retryable", "operator_recovery_required", "terminal_not_recoverable"}
    UncertainFacts = {"observation_timeout", "contract_violation", "unknown"}
SPECIFICATION Spec
INVARIANTS
    OneLiveAttempt
    StoresAgree
    CancellationIsFinal
    AllowanceHolds
PROPERTIES
    FactsAreFenced
    NeverDuplicatedAutomatically
CHECK_DEADLOCK FALSE
