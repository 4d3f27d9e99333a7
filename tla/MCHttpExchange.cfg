SPECIFICATION FairSpec
CONSTANTS
    Requests <- GetsAndPosts
    Targets <- AllTargets
    READ_BUFFER_SIZE = 16
    TriedTimes = 4
    HeadBytes = 2
    FileBytes = 3
    RecordBytes = 2
INVARIANTS
    TypeOK
    PageNeedsWholeRequest
    RefusedForItsTail
    AnswerIsWhole
    NeverSpins
PROPERTIES
    ExchangeEnds
CHECK_DEADLOCK FALSE
