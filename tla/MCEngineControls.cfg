SPECIFICATION FairSpec
CONSTANTS
    MaxSteps = 2
    MaxToolCalls = 2
    MaxTokens = 1
    MaxBatch = 2
    HasDeadline = TRUE
    HasReducer = TRUE
    HasApproval = TRUE
    Repositories <- BothRepositories
    ControlKinds <- AllControls
    ReusesIds = FALSE
    MaxCallsPerTurn = 1
    MaxTurnTokens = 0
    KeepsUpTo = 9
    MaxControls = 2
    MaxInvocations = 1
INVARIANTS TypeOK ControlsConserved
PROPERTIES ProviderTurnAdjacent NoWorkAfterDeadline PauseSettles DeadlineSettles
CHECK_DEADLOCK FALSE
