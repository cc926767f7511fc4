CONSTANTS
    r1 = r1
    r2 = r2
    r3 = r3
    s1 = s1
    s2 = s2
    m1 = m1
    m2 = m2
    Requests <- MCRequests
    Streaming <- MCStreaming
    Leavers <- MCLeavers
    SessionOf <- MCSessionOf
    ModelOf <- MCModelOf
    Sessions = {s1, s2}
    Models = {m1}
    Workers = {w1, w2}
    Loop = loop
    None = none
    MaxPending = 2
    MaxModelQueue = 1
SPECIFICATION Spec
INVARIANTS
    TypeOK
    NoStrandedQueue
    OneServer
    NotLost
    FinishOnce
    InFlightExact
    ErrorStatus
    EngineExclusive
SYMMETRY MCSymmetry
PROPERTIES
    OutcomeSettled
    OrderKept
    SerialSafeSpec
