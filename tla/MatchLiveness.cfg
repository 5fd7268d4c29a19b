SPECIFICATION MMFairSpec
CONSTANTS
    Clients = {c1, c2}
    Slots = {s1, s2}
    NoSlot = NoSlot
    ToServer <- MMToServer
    ToClient <- MMToClient
    IdSpan = 4
    IdLimit = 3
    UpCap = 1
    DownCap = 1
    MatchSizes = {2}
PROPERTIES WaitingGetMatched
