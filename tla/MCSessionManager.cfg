CONSTANTS
    r1 = r1
    r2 = r2
    r3 = r3
    r4 = r4
    i1 = i1
    i2 = i2
    i3 = i3
    Ids = {i1, i2, i3}
    Requests = {r1, r2, r3, r4}
    IdOf <- MCIdOf
    MaxSessions = 2
    GcBatch = 2
    IdleTtl = 1
    MaxTime = 2
    None = none
    End = end
SPECIFICATION FairSpec
INVARIANTS
    TypeOK
    TableAgrees
    SizeBounded
    OrderedByUse
PROPERTIES
    NewcomerStays
    GcSparesFresh
    DroppedStaysOut
    GcReleasesLock
