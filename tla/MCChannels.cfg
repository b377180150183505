CONSTANTS
    Binding = {b1}
    NoBinding = none
    MaxGeneration = 3
    MaxRestarts = 1
    None = None
    Runs = {r1, r2}
    One = {r3}
    FirstTerminal = 2
    MaxVersion = 2
    MaxVersions = 3
    MaxSelects = 2
    MaxCommands = 0
    MaxDrops = 0
    MaxFailures = 0
    MaxOpenings = 2
    MaxDetaches = 2
SPECIFICATION ChannelsSpec
SYMMETRY Symmetry
INVARIANTS
    UsableBindingsAreTold
    OneActiveChannel
    InterestHasItsChannel
    AnnouncedChangesAreFetched
    OverIsShown
PROPERTY ImplementsRow
CHECK_DEADLOCK FALSE
