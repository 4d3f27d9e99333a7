SPECIFICATION Spec
CONSTANTS
    Timers = {t1, t2, t3, t4}
    Lifetime = 2
    MaxTime = 5
    NULL = NULL
    Freed = Freed
INVARIANTS
    TypeOK
    WellLinked
PROPERTIES
    ImplementsSortedTimers
SYMMETRY Symmetry
