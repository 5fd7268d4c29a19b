SPECIFICATION VarFairSpec
CONSTANTS
    Clients = {c1}
    Slots = {s1}
    NoSlot = NoSlot
    ToServer = {}
    ToClient <- Report
    IdSpan = 4
    IdLimit = 3
    UpCap = 0
    DownCap = 1
    Keys = {k1, k2}
    Values = {0, 1}
    Zero = 0
    Nothing = Nothing
INVARIANT ToldAreInStep
PROPERTIES ToldConverge
