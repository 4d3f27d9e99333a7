SPECIFICATION Spec
CONSTANTS
    Workers = {w1}
    MaxRequests = 1
    NULL = NULL
    LastFd = 5
    MaxUsers = 1
    Lifetime = 1
    PipeCap = 1
    Ports <- HttpOnly
    Sends <- AllInput
    Signals <- AllSignals
    Backlog = 1
PROPERTIES
    OnlyStopsWhenTold
CHECK_DEADLOCK FALSE
