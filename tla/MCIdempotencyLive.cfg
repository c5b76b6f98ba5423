SPECIFICATION FairSpec
CONSTANTS
    Callers = {c1, c2, c3}
    Tokens = {t1}
    Ids = {i1}
    LockIds = {k1, k2}
    NoToken = NoToken
    NoId = NoId
    NoLock = NoLock
    TTL = 1
    MaxClock = 0
PROPERTY
    EveryCallReturns
