SPECIFICATION FairSpec
CONSTANTS
    Ops = {o1, o2}
    Services = {s1}
    Configured = {"scheduled", "on-request"}
    Inputs = {"request", "reset"}
    MaxVersion = 2
    MaxGen = 1
    MaxFails = 1
CHECK_DEADLOCK FALSE
PROPERTY
    EventuallySavedOrFailed
