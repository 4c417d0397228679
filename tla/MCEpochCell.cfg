SPECIFICATION Spec
CONSTANTS
    Thread = {t1, t2}
    Addr = {a1, a2, a3, a4}
    None = none
    MaxWrites = 3
SYMMETRY Symmetry
INVARIANTS
    ReadsAreSafe
    NoUpdateLost
    HeapAccounted
CHECK_DEADLOCK FALSE
