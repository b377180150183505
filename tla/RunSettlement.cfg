\* A verdict given while the Worker is away: no registration ever completes.
SPECIFICATION Spec
CONSTANTS
    Actions = {a1, a2}
    MaxRestarts = 1
    MaxDrops = 1
PROPERTY EventuallyRegistered
CHECK_DEADLOCK FALSE
