CONSTANTS
    k1 = k1
    v1 = v1
    v2 = v2
    Keys = {k1}
    Values = {v1, v2}
    Tombstone = Tombstone
    Absent = Absent
    MergeMin = 2
    MaxWrites = 3
    MaxSst = 5
    MaxFaults = 1
    MaxCrashes = 0
SPECIFICATION AbortSpec
SYMMETRY AbortSymmetry
CHECK_DEADLOCK FALSE
INVARIANTS ReadsLatest
