SPECIFICATION LobbySpec
CONSTANTS
    Clients = {c1, c2}
    Slots = {s1, s2}
    NoSlot = NoSlot
    ToServer <- LobbyToServer
    ToClient <- LobbyToClient
    IdSpan = 4
    IdLimit = 3
    UpCap = 1
    DownCap = 2
    Names = {}
    DefaultName = DefaultName
    NoPlayer = NoPlayer
    HostMayStart = FALSE
SYMMETRY Symmetric
INVARIANTS LobbyTypeOK LatestStateOnTheWire StartSeenAllReady ConnectedArePlayers GhostsPredateClose RequestsAreOwn
