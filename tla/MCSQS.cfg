SPECIFICATION Spec
CONSTANTS
    mainQ = mainQ
    deadQ = deadQ
    Queues = {mainQ, deadQ}
    NoQueue = NoQueue
    Dlq <- MCDlq
    Setups <- MCSetups
    Groups = {g}
    DedupIds = {x, y}
    NoDedup = NoDedup
    Senders = {s1}
    Movers = {m1}
    Timeouts = {1}
    DedupWindow = 1
    MaxReceive = 1
    Batch = {1, 2}
    MaxMsgs = 3
    MaxCount = 1
    MaxClock = 1
SYMMETRY NameSymmetry
CHECK_DEADLOCK FALSE
INVARIANTS
    TypeOK
    NoMessageLost
    OneCopy
    FifoDeliveryInOrder
    NoDuplicateInWindow
