SPECIFICATION Spec
CONSTANTS
    mainQ = mainQ
    deadQ = deadQ
    Queues = {mainQ, deadQ}
    NoQueue = NoQueue
    Dlq <- MCDlq
    Setups <- MCSetups
    Groups = {g}
    DedupIds = {x}
    NoDedup = NoDedup
    Senders = {s1}
    Movers = {m1, m2}
    Timeouts = {1}
    DedupWindow = 1
    MaxReceive = 1
    Batch = {1, 2}
    MaxMsgs = 3
    MaxCount = 1
    MaxClock = 1
CHECK_DEADLOCK FALSE
INVARIANT
    MovedOnce
