SPECIFICATION Spec
CONSTANTS
    Callers = {c1, c2}
    Tokens = {t1, t2}
    Ids = {i1, i2, i3}
    LockIds = {k1, k2}
    NoToken = NoToken
    NoId = NoId
    NoLock = NoLock
    TTL = 1
    MaxClock = 2
SYMMETRY NameSymmetry
INVARIANTS
    TypeOK
    LockTableExact
    OneResourcePerWindow
    FindableForItsWindow
PROPERTIES
    ImplementsIdempotentCreate
