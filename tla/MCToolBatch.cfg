SPECIFICATION FairSpec
CONSTANTS
    Size = 3
    Concurrency = 2
    Buffer = 1
    HasDeadline = TRUE
    MaxReports = 2
    MaxControls = 1
INVARIANTS TypeOK PermitSpansCall ProgressSettles CancelsWhatRuns
PROPERTY BatchEnds
CHECK_DEADLOCK FALSE
