SPECIFICATION HostSpec
CONSTANTS
    Clients = {c1, c2}
    Server = Server
    Null = Null
    HostLimit = 4
SYMMETRY Symmetric
INVARIANTS HostTypeOK ServicesExist PointersLive StateTells InitialisedWhileUsed NothingLeftBehind
CHECK_DEADLOCK FALSE
