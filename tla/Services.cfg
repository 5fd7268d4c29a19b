SPECIFICATION ServicesSpec
CONSTANTS
    c1 = c1
    c2 = c2
    Clients = {c1, c2}
    Slots = {s1}
    NoSlot = NoSlot
    ToServer <- RPCToServer
    ToClient <- ServicesToClient
    IdSpan = 4
    IdLimit = 3
    UpCap = 1
    DownCap = 1
    ServerEnd = server
    Offers <- OffersMC
    Procs = {p}
    CallLimit <- CallLimitMC
    StateLimit = 2
    Unseen = Unseen
    Garbage = Garbage
INVARIANTS ServicesTypeOK AnswersComeHome CallsKept SnapshotsKept
PROPERTIES ImplementsReplica
