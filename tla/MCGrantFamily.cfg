SPECIFICATION Spec
CONSTANTS
    n1 = n1
    n2 = n2
    r1 = r1
    r2 = r2
    r3 = r3
    Node = {n1, n2}
    Req = {r1, r2, r3}
    Issued = issued
    Nobody = nobody
    MaxRevocations = 2
    MaxFaults = 1
SYMMETRY Symmetry
INVARIANTS TypeOK SingleUse RevokedChainEnds RevocationRecorded LocksAreOrdered
PROPERTIES SessionLostOnlyAcrossNodes
CHECK_DEADLOCK FALSE
