SPECIFICATION FairSpec
CONSTANTS
    Client = {c1}
    Kinds <- Freely
    Faults = {"exit"}
    MaxMsgs = 1
    MaxClients = 1
    MaxPending = 2
    MaxQueue = 1
    MaxRestarts = 1
    MaxGen = 2
    MaxCopies = 1
    MaxNotes = 0
    LazyStart = FALSE
PROPERTIES
    ForwardedSettles
CHECK_DEADLOCK FALSE
