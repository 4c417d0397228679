CONSTANTS
    w1 = w1
    w2 = w2
    w3 = w3
    Writers = {w1, w2, w3}
    MaxLeaderBatches = 1
    SegmentCap = 2
    MaxWrites = 3
    MaxFaults = 1
    MaxCrashes = 1
    MaxExports = 1
SPECIFICATION Spec
SYMMETRY WriterSymmetry
CHECK_DEADLOCK FALSE
INVARIANTS AckedDurable AckedReadable AckedShown WalOrder OneLeader QueueAttended
    RestartOpensCleanly
PROPERTIES VerdictStable ExportIsolated ImplementsDurableLog
