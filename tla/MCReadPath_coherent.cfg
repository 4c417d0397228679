CONSTANTS
    r1 = r1
    r2 = r2
    v1 = v1
    v2 = v2
    Readers = {r1, r2}
    Values = {v1, v2}
    Tombstone = Tombstone
    Absent = Absent
    MaxWrites = 2
    MaxFlushes = 2
    MaxFaults = 1
    MaxReads = 3
    MaxNeighbours = 1
SPECIFICATION Spec
SYMMETRY ReadSymmetry
CHECK_DEADLOCK FALSE
INVARIANTS RegularUnlessCaught HotCoherent
