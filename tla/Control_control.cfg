SPECIFICATION MCSpec
CONSTANTS
    Tasks = {t1, t2}
    MaxVersions = 2
    Services = {s1, s2}
    Observed = s1
    Clients = {"tray", "cockpit", "menu"}
    MAX_CONCURRENT = 1
    Capacity = 1
    MaxAttempts = 2
    MaxCrashes = 1
    MaxRequests = 2
    MaxNotes = 1
    Daemons = {"d1", "d2"}
    CommandLines <- MCCommandLines
    ConfigFiles <- MCConfigFiles
CHECK_DEADLOCK FALSE
INVARIANTS
    TypeOK
    
    EventsInOrder
    ControlReachable
    RepliesBeforeExit
    ServiceReachable
    ConfiguredReached
PROPERTIES
    TrayCatchesUp
    TraySettles
    MenuSettles
    ProxyEnds
