CONSTANTS
    Cases = {"contended", "executor"}
    MaxGeneration = 2
    MaxMessages = 1
    Action <- Two
    NoAction = "none"
    Lineage = {1, 2, 3}
    Mode <- TwoMode
    Logical <- TwoLogical
    Occurrence <- TwoOccurrence
    Source <- TwoSource
    Gated = {}
    Observes = TRUE
    Commands = {"cancel"}
    Faults <- AllFaults
    MaxCrashes = 1
    MaxDisconnects = 0
    MaxRecoveries = 1
SPECIFICATION Spec
INVARIANTS
    PromptedAtMostOnce
    OneDriverPerLineage
    AcknowledgedOrWithdrawn
CHECK_DEADLOCK FALSE
