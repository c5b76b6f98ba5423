SPECIFICATION FairSpec
CONSTANTS
    i1 = i1
    i2 = i2
    v1 = v1
    t1 = t1
    l1 = l1
    l2 = l2
    c1 = c1
    c2 = c2
    a1 = a1
    d1 = d1
    Insts = {i1, i2}
    NoInst = NoInst
    UserVols = {v1}
    NoVol = NoVol
    Tokens = {t1}
    NoToken = NoToken
    Launchers = {l1, l2}
    Terminators = {c1, c2}
    Attachers = {a1}
    Deleters = {d1}
    Setups <- MCSetups
    Launches <- MCLaunches
    Batches <- MCBatches
CHECK_DEADLOCK FALSE
INVARIANTS
    TypeOK
    ReleasedUnlessRaced
    DetachedVolumeSurvives
    EndAnnouncedOnce
    OneLaunchPerToken
PROPERTY EveryLaunchReturns
