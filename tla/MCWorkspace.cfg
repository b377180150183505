CONSTANTS
    None = None
    Lineages = {a, b}
    MaxActions = 3
    MaxEdits = 2
    MaxIncarnations = 2
    MaxRestarts = 0
    Calls = {c1, c2}
    MaxCommands = 3
    MaxStarts = 2
    Contents = {base, edited}
    Base = base
    Jobs = {j1, j2}
    MaxChanges = 2
    Sessions = {1, 2}
    Requests = {m1, m2}
    Mutations = {m1, m2}
    Lone = {m3}
    MaxActive = 2
    MaxGenerations = 1
    Streamed = TRUE
SPECIFICATION Spec
SYMMETRY Symmetry
INVARIANTS
    VerifiedWorkIsKept
    CompletedWorkWasPublished
    MutationsAreAccountedFor
PROPERTY
    RepositoryGoesLast
CHECK_DEADLOCK FALSE
