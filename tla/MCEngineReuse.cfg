SPECIFICATION Spec
CONSTANTS
    MaxSteps = 2
    MaxToolCalls = 2
    MaxTokens = 1
    MaxBatch = 2
    HasDeadline = TRUE
    HasReducer = FALSE
    HasApproval = FALSE
    Repositories <- Settling
    ControlKinds <- NoControls
    ReusesIds = TRUE
    MaxCallsPerTurn = 2
    MaxTurnTokens = 1
    KeepsUpTo = 1
    MaxControls = 1
    MaxInvocations = 1
INVARIANT TraceEndsWithStop
CHECK_DEADLOCK FALSE
