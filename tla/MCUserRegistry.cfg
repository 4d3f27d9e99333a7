SPECIFICATION Spec
CONSTANTS
    Workers = {w1, w2}
    Names = {n1, n2}
    Passwords = {p1, p2}
    None = None
INVARIANTS
    TypeOK
    MapMatchesTable
    ToldIsStored
PROPERTIES
    ImplementsAccounts
SYMMETRY Symmetry
