CONSTANTS
    Occurrence <- Single
    NoOccurrence = 0
    Needs <- SingleNeeds
    ContinueFrom <- SingleContinues
    Allowance = 2
    Capacity = 1
    Members = 1
    MaxAttempts = 2
    MaxGeneration = 1
    FailureFacts = {}
    UncertainFacts = {"contract_violation", "unknown"}
SPECIFICATION Spec
INVARIANT UncertaintyIsResolvable
CHECK_DEADLOCK FALSE
