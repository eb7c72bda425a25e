SPECIFICATION MCSpec
CONSTANTS
    Client = {c1, c2}
    Kinds <- Sharing
    Faults = {"close"}
    MaxMsgs = 2
    MaxClients = 2
    MaxPending = 2
    MaxQueue = 1
    MaxRestarts = 0
    MaxGen = 1
    MaxCopies = 1
    MaxNotes = 1
    LazyStart = FALSE
SYMMETRY Symmetry
INVARIANTS
    TypeOK
    OneOwner
    NoCrossTalk
    HandshakeFirst
PROPERTIES
    BrokerPromise
