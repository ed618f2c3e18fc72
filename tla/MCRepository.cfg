SPECIFICATION FairSpec
CONSTANTS
    Adapters = {"memory", "ephemeral", "sqlite", "mysql", "redis", "cluster"}
    Hosts = {w1, w2}
    States <- MCStates
    CommandsInOrder = TRUE
    ChunkSize = 2
    MaxTries = 3
    MaxReads = 1
    MaxEvents = 4
    MaxFaults = 2
INVARIANT ReadsSeeOneHead
PROPERTIES ImplementsChain QuietAfterClose CommitsAreAnswered
CHECK_DEADLOCK FALSE
