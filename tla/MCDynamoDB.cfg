SPECIFICATION Spec
CONSTANTS
    k1 = k1
    k2 = k2
    Keys = {k1, k2}
    Writers = {w1, w2}
    NoWriter = NoWriter
    Getters = {g1}
    Requests <- MCRequests
    Tokens = {t1}
    NoToken = NoToken
    Limits = {1, 2}
    MaxRecords = 2
    Window = 1
    MaxWrites = 3
    MaxSeq = 4
    MaxClock = 2
SYMMETRY WriterSymmetry
CHECK_DEADLOCK FALSE
INVARIANTS
    TypeOK
    PlansStayCurrent
    AppliedOncePerWindow
    StreamRebuildsTable
    DeliveredOnce
    InOrderUnlessOverlap
    ReaderDrainsStream
