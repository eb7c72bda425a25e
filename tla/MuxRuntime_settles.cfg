SPECIFICATION FairSpec
CONSTANTS
    Client = {c1}
    Kinds <- Handshaking
    Faults = {"exit", "decode", "spawn", "stdin"}
    MaxMsgs = 4
    MaxClients = 1
    MaxPending = 1
    MaxQueue = 1
    MaxRestarts = 0
    MaxGen = 2
    MaxCopies = 1
    MaxNotes = 0
    LazyStart = TRUE
PROPERTIES
    RequestSettles
CHECK_DEADLOCK FALSE
