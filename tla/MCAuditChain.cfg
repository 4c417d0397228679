SPECIFICATION Spec
CONSTANTS
    a1 = a1
    a2 = a2
    NoHead = NoHead
    Appenders = {a1, a2}
    Archives <- MCArchives
    ImportChunk = 1
    PruneBatch = 1
    MaxTime = 1
    MaxAppends = 2
    MaxImports = 2
    MaxPrunes = 1
    MaxFaults = 1
    MaxCrashes = 1
SYMMETRY AppenderSymmetry
INVARIANTS TypeOK ChainVerifies CacheCurrent AckedKept NoDuplicates LossDetected
CHECK_DEADLOCK FALSE
