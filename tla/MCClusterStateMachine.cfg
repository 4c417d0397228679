SPECIFICATION Spec
CONSTANTS
    Node = {n1, n2}
    Command <- MCCommand
    v1 = v1
    v2 = v2
    Absent = absent
    Bad = bad
    Value <- MCValue
    MaxWork = 4
    MaxCrashes = 1
SYMMETRY Symmetry
INVARIANTS
    Converges
    ServedSnapshotSound
CHECK_DEADLOCK FALSE
