SPECIFICATION FairSpec
CONSTANTS
    Loggers = {l1, l2}
    MaxLines = 2
    MaxDay = 1
    split_lines = 2
    max_size = 2
    Items <- Lines
    Consumers <- TheWriter
    NULL = NULL
INVARIANTS
    TypeOK
    LineWrittenOnce
    FilesBounded
    NoLostWakeup
    LinesInOrder
PROPERTIES
    ImplementsFifo
    QueuedIsWritten
CHECK_DEADLOCK FALSE
