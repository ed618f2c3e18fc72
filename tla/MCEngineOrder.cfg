SPECIFICATION Spec
CONSTANTS
    MaxSteps = 2
    MaxToolCalls = 2
    MaxTokens = 1
    MaxBatch = 2
    HasDeadline = FALSE
    HasReducer = FALSE
    HasApproval = FALSE
    Repositories <- Settling
    ControlKinds <- Inserts
    ReusesIds = FALSE
    MaxCallsPerTurn = 1
    MaxTurnTokens = 1
    KeepsUpTo = 1
    MaxControls = 2
    MaxInvocations = 1
INVARIANT InsertsInArrivalOrder
CHECK_DEADLOCK FALSE
