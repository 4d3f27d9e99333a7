SPECIFICATION Spec
CONSTANTS
    Requests <- Posts
    Targets <- AllTargets
    READ_BUFFER_SIZE = 16
    TriedTimes = 4
    HeadBytes = 2
    FileBytes = 2
    RecordBytes = 2
INVARIANTS
    FormIsChecked
CHECK_DEADLOCK FALSE
