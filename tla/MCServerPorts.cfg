SPECIFICATION Spec
CONSTANTS
    Workers = {w1}
    MaxRequests = 1
    NULL = NULL
    LastFd = 7
    MaxUsers = 2
    Lifetime = 1
    PipeCap = 1
    Ports <- AllPorts
    Sends <- AllInput
    Signals <- AllSignals
    Backlog = 1
INVARIANTS
    TypeOK
    TimersMatchUsers
    NoRequestLost
PROPERTIES
    ImplementsQueue
CHECK_DEADLOCK FALSE
