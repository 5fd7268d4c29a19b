SPECIFICATION MMSpec
CONSTANTS
    Clients = {c1, c2}
    Slots = {s1, s2}
    NoSlot = NoSlot
    ToServer <- MMToServer
    ToClient <- MMToClient
    IdSpan = 4
    IdLimit = 3
    UpCap = 2
    DownCap = 2
    MatchSizes = {1, 3}
INVARIANTS MMTypeOK NobodyTwice WaitingPredateClose NobodyForgotten OutMeansOut
SYMMETRY Symmetric
