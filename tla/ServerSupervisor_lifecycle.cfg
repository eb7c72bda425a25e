SPECIFICATION MCSpec
CONSTANTS
    MaxFailures = 2
    MaxQueue = 1
    MaxProbes = 3
    MaxGen = 2
    Faults = {"hang", "full", "exit", "spawn", "shutdown"}
INVARIANTS
    TypeOK
    StatusAgrees
    RestartNeedsFailures
PROPERTIES
    HungRestarted
    ExitRecovered
    ShutdownCompletes
