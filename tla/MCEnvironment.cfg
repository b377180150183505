CONSTANTS
    None = None
    Workers = {w1, w2}
    MaxRecords = 2
    MaxBoxes = 1
    MaxStops = 1
    MaxCrashes = 1
    Streams = {out}
    Pair = {o1, o2}
    BufferItems = 1
    PipeFrames = 1
    MaxWrites = 1
    MaxChunks = 1
SPECIFICATION Spec
SYMMETRY Symmetry
INVARIANTS
    NoOrphanedSandbox
    StreamsAreComplete
    CertaintyIsTrue
CHECK_DEADLOCK FALSE
