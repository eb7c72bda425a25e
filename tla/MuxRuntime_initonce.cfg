SPECIFICATION MCSpec
CONSTANTS
    Client = {c1, c2}
    Kinds <- Freely
    Faults = {}
    MaxMsgs = 1
    MaxClients = 2
    MaxPending = 2
    MaxQueue = 1
    MaxRestarts = 0
    MaxGen = 1
    MaxCopies = 1
    MaxNotes = 0
    LazyStart = FALSE
INVARIANTS
    InitializeOnce
