SPECIFICATION PortsSpec
CONSTANTS
    MaxAttempts = 3
    BackoffInitial = 1
    BackoffMax = 2
    Multiplier = 2
    JitterRatio = 1
    Deadline = 3
    MaxClock = 5
    RetryAfters = {2, 3}
    DecoderFrames <- MCFrames
    DecoratedFrames = 3
    SseBytes = 7
    MaxSseLine = 2
    MaxSseEvent = 6
    MaxOriginal = 5
    MaxOld = 2
    MaxNew = 1
    Mutations = {m1, m2}
    OutsideWrites = 1
    OutputLimit = 2
    MaxOutput = 3
    MaxTaskCancels = 2
    AgentCalls = {c1, c2, c3}
    MaxAgents = 1
    MaxTries = 2
    Numbers <- MCNumbers
    MaxAnswerChars = 2
    Callers = {t1, t2}
    ToolAttempts = 2
    FailureThreshold = 2
    RecoveryTimeout = 1
    Delays = {0, 1}
    MaxToolClock = 2
    MaxHistory = 24
    MaxAppended = 3
INVARIANTS
    OneAttemptStreams
    LiveViewAgrees
    FramesMatchBody
    EditKeepsTheRest
    NoToolWriteLost
    OutcomesTellTheTruth
    NothingLeftRunning
    CaptureIsHonest
    AgentReportsAgree
    WaitingQuestionsHaveAnswers
    CircuitRecovers
    HistoryIsASequence
PROPERTIES
    HostErrorsAreFinal
    AttemptsAreTimely
CHECK_DEADLOCK FALSE
