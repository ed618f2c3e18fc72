CONSTANTS
    Kinds = {"pause", "insert", "cancel"}
    MaxControls = 2
    Requests <- MCRequests
    HasApproval = TRUE
    Stubborn = TRUE
    Outcomes = {"success", "waiting"}
    MaxBuffered = 1
    MaxSteps = 1
    StartCalls = 2
    MaxCalls = 1
    ControlsOf <- MCControls
    MaxLossy = 2
    MaxLag = 1
SPECIFICATION FairSpec
CHECK_DEADLOCK FALSE
INVARIANTS ControlsInOrder ClosedStaysEmpty TracesVerify LossyAccounted
PROPERTY StreamEnds
