SPECIFICATION TransformSpec
CONSTANTS
    Clients = {c1}
    Slots = {s1}
    NoSlot = NoSlot
    ToServer = {}
    ToClient <- Report
    IdSpan = 4
    IdLimit = 2
    UpCap = 0
    DownCap = 2
    Keys = {k1, k2}
    Values = {0, 1, 2}
    Zero = 0
    Nothing = Nothing
SYMMETRY Symmetric
INVARIANT RestIsSeen
