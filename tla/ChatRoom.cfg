SPECIFICATION ChatSpec
CONSTANTS
    c1 = c1
    c2 = c2
    Clients = {c1, c2}
    Slots = {s1, s2}
    NoSlot = NoSlot
    ToServer <- Message
    ToClient <- Message
    IdSpan = 4
    IdLimit = 3
    UpCap = 2
    DownCap = 2
    Host = Host
    Cap = 2
    TextLimit <- Texts
SYMMETRY Symmetric
INVARIANTS AllHearTheSame NobodyHearsTwice HistoryIsEnd SaidAsWritten
