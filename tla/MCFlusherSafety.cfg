SPECIFICATION Spec
CONSTANTS
    Ops = {o1, o2}
    Services = {s1}
    Configured = {"scheduled", "on-request", "on-shutdown", "manual"}
    Inputs = {"request", "tick", "restore", "snapshot"}
    MaxVersion = 2
    MaxGen = 1
    MaxFails = 1
SYMMETRY NameSymmetry
CHECK_DEADLOCK FALSE
INVARIANTS
    TypeOK
    NoLostMutation
    SingleFlight
    ExportReadsOpenProviders
    GracefulStopSavesAll
PROPERTIES
    DiskNeverRegresses
