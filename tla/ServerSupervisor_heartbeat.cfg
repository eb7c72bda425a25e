SPECIFICATION MCSpec
CONSTANTS
    MaxFailures = 2
    MaxQueue = 1
    MaxProbes = 3
    MaxGen = 2
    Faults = {}
INVARIANTS
    FailuresGenuine
