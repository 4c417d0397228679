CONSTANTS
    w1 = w1
    w2 = w2
    Writers = {w1, w2}
    MaxLeaderBatches = 1
    SegmentCap = 2
    MaxWrites = 2
    MaxFaults = 0
    MaxCrashes = 0
    MaxExports = 1
SPECIFICATION FairSpec

CHECK_DEADLOCK FALSE
PROPERTIES WriterReturns
