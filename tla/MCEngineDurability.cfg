SPECIFICATION Spec
CONSTANTS
    MaxSteps = 2
    MaxToolCalls = 2
    MaxTokens = 1
    MaxBatch = 2
    HasDeadline = TRUE
    HasReducer = TRUE
    HasApproval = TRUE
    Repositories <- Settling
    ControlKinds <- NoControls
    ReusesIds = TRUE
    MaxCallsPerTurn = 2
    MaxTurnTokens = 1
    KeepsUpTo = 1
    MaxControls = 1
    MaxInvocations = 2
INVARIANTS ReloadsCleanly OnlyReuseEscapes StopsAtHead
PROPERTIES ProviderTurnAdjacent ExecutesOnce ImplementsLifecycle
CHECK_DEADLOCK FALSE
