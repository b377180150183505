CONSTANTS
    Cases = {"executor"}
    MaxGeneration = 2
    MaxMessages = 1
    Action <- Two
    NoAction = "none"
    Lineage = {1, 2}
    Mode <- PairMode
    Logical <- PairLogical
    Occurrence <- PairOccurrence
    Source <- PairSource
    Gated = {}
    Observes = FALSE
    Commands = {"retire"}
    Faults = {}
    MaxCrashes = 0
    MaxDisconnects = 1
    MaxRecoveries = 0
SPECIFICATION FairSpec
PROPERTY AcceptableFactsAreAcknowledged
CHECK_DEADLOCK FALSE
