CONSTANTS
    r1 = r1
    r2 = r2
    r3 = r3
    s1 = s1
    s2 = s2
    m1 = m1
    m2 = m2
    Requests <- PairRequests
    Streaming <- PairRequests
    Leavers <- PairRequests
    SessionOf <- PairSessionOf
    ModelOf <- MixedModelOf
    Sessions = {s1}
    Models = {m1, m2}
    Workers = {w1, w2}
    Loop = loop
    None = none
    MaxPending = 1
    MaxModelQueue = 1
SPECIFICATION Spec
INVARIANTS
    SessionSerial
