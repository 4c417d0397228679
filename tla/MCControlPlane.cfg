SPECIFICATION Spec
CONSTANTS
    Node = {n1, n2}
    Here = n1
    Writer = {w1, w2}
    Control = {jkt, jti, session}
    Session = session
    Projected = {jti}
    Nobody = nobody
    MaxParked = 1
    MaxEvents = 3
SYMMETRY Symmetry
INVARIANTS
    AppliedCovered
    SessionEvicted
    CachesInStep
CHECK_DEADLOCK FALSE
