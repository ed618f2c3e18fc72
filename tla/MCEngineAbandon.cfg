SPECIFICATION Spec
CONSTANTS
    MaxSteps = 2
    MaxToolCalls = 2
    MaxTokens = 1
    MaxBatch = 2
    HasDeadline = FALSE
    HasReducer = FALSE
    HasApproval = FALSE
    Repositories <- Settling
    ControlKinds <- NoControls
    ReusesIds = FALSE
    MaxCallsPerTurn = 2
    MaxTurnTokens = 1
    KeepsUpTo = 1
    MaxControls = 1
    MaxInvocations = 1
INVARIANT AbandonmentCancels
CHECK_DEADLOCK FALSE
