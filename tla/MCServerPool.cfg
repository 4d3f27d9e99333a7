SPECIFICATION LiveSystem
CONSTANTS
    Workers = {w1}
    MaxRequests = 1
    NULL = NULL
    LastFd = 7
    MaxUsers = 3
    Lifetime = 1
    PipeCap = 1
    Ports <- HttpOnly
    Sends <- DataOnly
    Signals <- Sigterms
    Backlog = 1
    Connections = {c1, c2}
INVARIANTS
    NoRequestLost
    AnswersUseUpConnections
PROPERTIES
    ImplementsPool
    QueuedIsAnswered
CHECK_DEADLOCK FALSE
