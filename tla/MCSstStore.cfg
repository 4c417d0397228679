CONSTANTS
    k1 = k1
    k2 = k2
    v1 = v1
    Keys = {k1, k2}
    Values = {v1}
    Tombstone = Tombstone
    Absent = Absent
    MergeMin = 2
    MaxWrites = 3
    MaxSst = 4
    MaxFaults = 1
    MaxCrashes = 1
SPECIFICATION Spec
SYMMETRY StoreSymmetry
CHECK_DEADLOCK FALSE
INVARIANTS TypeOK ReadsLatest CrashSafe
PROPERTIES ImplementsKVStore
