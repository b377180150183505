CONSTANTS
    None = None
    MaxRequests = 2
    MaxBinds = 4
    MaxRestarts = 2
    MaxContexts = 3
    ContextRestarts = 1
    MaxStopEnforcements = 2
    Attempts = 2
    HumanTypes = TRUE
    MaxLog = 3
    MaxProcess = 2
    PromptRestarts = 2
    Turns = 3
    MaxWrapper = 5
    TurnRestarts = 3
    SetupCommands = 6
    SetupRestarts = 2
    Cancels = {1, 2}
    AccountCommands = 2
    AccountRestarts = 1
SPECIFICATION Spec
INVARIANTS
    AnswerDeliveredAtMostOnce
    OneResultPerAttempt
    RefusalHadNoSideEffect
    OneWrapperPerSession
    LoginIsUndisturbed
PROPERTY
    LoginBegunAtMostOnce
CHECK_DEADLOCK FALSE
