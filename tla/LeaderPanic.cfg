CONSTANTS
    w1 = w1
    w2 = w2
    Writers = {w1, w2}
    MaxLeaderBatches = 1
    SegmentCap = 1
    MaxWrites = 4
    MaxFaults = 1
    MaxCrashes = 0
    MaxExports = 0
SPECIFICATION PanicSpec
INVARIANTS AckedReadable
PROPERTIES WriterReturns
