SPECIFICATION LobbyFairSpec
CONSTANTS
    Clients = {c1}
    Slots = {s1}
    NoSlot = NoSlot
    ToServer <- LobbyToServer
    ToClient <- LobbyToClient
    IdSpan = 4
    IdLimit = 3
    UpCap = 2
    DownCap = 2
    Names = {n}
    DefaultName = DefaultName
    NoPlayer = NoPlayer
    HostMayStart = TRUE
PROPERTIES ViewsConverge
