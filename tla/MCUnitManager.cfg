SPECIFICATION FairSpec
CONSTANTS
    c1 = c1
    c2 = c2
    None = None
    Clients = {c1, c2}
    Script <- MCScript
    MaxWork = 3
    NPorts = 5
    TaskCount = 1
    Chunks = 2
    MaxTimeouts = 1
    Leavers = {c2}
INVARIANTS
    TypeOK
    PortsExclusive
    
    DeletedAfterTask
    TaskLimit
    AnswersRouted
PROPERTIES
    EveryActionAnswered
CHECK_DEADLOCK FALSE
