SPECIFICATION MCSpec
CONSTANTS
    Client = {c1}
    Kinds <- Freely
    Faults = {"exit"}
    MaxMsgs = 3
    MaxClients = 2
    MaxPending = 2
    MaxQueue = 2
    MaxRestarts = 0
    MaxGen = 2
    MaxCopies = 1
    MaxNotes = 0
    LazyStart = FALSE
INVARIANTS
    ChildHandshakeFirst
