CONSTANTS
    c1 = c1
    q1 = q1
    q2 = q2
    Conns = {c1}
    Requests = {q1, q2}
    Threads = {q1, q2}
    WakeupChannel = wakeupChannel
    None = none
    Kind <- MCKind
    Input <- MCInput
    Text <- MCText
SPECIFICATION FairSpec
INVARIANTS
    TypeOK
    NoLostWakeup
    WireIsPrefix
    ChunksAreText
    SoonCancelled
    RemovedOnce
PROPERTIES
    NothingAfterFin
    AnswerDelivered
