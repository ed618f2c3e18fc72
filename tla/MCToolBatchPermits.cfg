SPECIFICATION Spec
CONSTANTS
    Size = 3
    Concurrency = 2
    Buffer = 1
    HasDeadline = TRUE
    MaxReports = 2
    MaxControls = 0
INVARIANT PermitWaitsForFinish
CHECK_DEADLOCK FALSE
