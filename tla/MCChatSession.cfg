CONSTANTS
    r1 = r1
    r2 = r2
    r3 = r3
    Requests <- MCRequests
    Streaming <- MCStreaming
    MaxPending = 1
    MaxPieces = 2
    KvLimit = 5
    None = none
SPECIFICATION Spec
INVARIANTS
    TypeOK
    GeneratesFromClient
    HistoryOfOneRequest
    CacheNotShared
