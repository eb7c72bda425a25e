SPECIFICATION MCSpec
CONSTANTS
    Client = {c1}
    Kinds <- Freely
    Faults = {"exit", "write", "heartbeat", "spawn", "stdout"}
    MaxMsgs = 3
    MaxClients = 2
    MaxPending = 2
    MaxQueue = 1
    MaxRestarts = 2
    MaxGen = 3
    MaxCopies = 2
    MaxNotes = 0
    LazyStart = FALSE
INVARIANTS
    AtMostOneReply
    RequestAccounted
    LostIsReset
    CachedFresh
    CallOrder
