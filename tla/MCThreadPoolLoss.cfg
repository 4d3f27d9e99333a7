SPECIFICATION Spec
CONSTANTS
    Workers = {w1, w2}
    Handlers = {h1, h2, h3}
    Connections = {c1, c2}
    MaxRequests = 1
    NULL = NULL
INVARIANTS
    EveryWorkerGetsConnection
