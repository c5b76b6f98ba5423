SPECIFICATION Spec
CONSTANTS
    Callers = {c1, c2}
    Workers = {w1}
    ClientTokens = {ct1, ct2}
    Groups = {default}
    DefaultGroup = default
    Names = {sch}
    Tokens <- MCTokens
    Ids <- MCIds
    LockIds = {k1, k2}
    NoToken = NoToken
    NoId = NoId
    NoLock = NoLock
    TTL = 1
    MaxClock = 2
    MaxMade = 2
INVARIANT
    ReplaysOwnSchedule
