CONSTANTS
    MergeMin = 3
    MaxSstCount = 3
    FlushSizes = {1, 2, 3}
    MaxRecords = 12
SPECIFICATION ListSpec
CHECK_DEADLOCK FALSE
INVARIANTS RunIsTier LogAmplification
