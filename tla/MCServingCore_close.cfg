CONSTANTS
    r1 = r1
    r2 = r2
    r3 = r3
    s1 = s1
    s2 = s2
    m1 = m1
    m2 = m2
    Requests <- PairRequests
    Streaming <- PairStreaming
    Leavers <- PairRequests
    SessionOf <- PairSessionOf
    ModelOf <- PairModelOf
    Sessions = {s1}
    Models = {m1}
    Workers = {w1, w2}
    Loop = loop
    None = none
    MaxPending = 1
    MaxModelQueue = 1
SPECIFICATION SlowEngineSpec
PROPERTIES
    CloseWakesWaiter
