SPECIFICATION FairSpec
CONSTANTS
    Clients = {c1, c2}
    Slots = {s1, s2}
    NoSlot = NoSlot
    ToServer = {m}
    ToClient = {m}
    IdSpan = 6
    IdLimit = 4
    UpCap = 1
    DownCap = 1
INVARIANTS TypeOK PeersMatchSlots LinksAgree
PROPERTIES IdentityStable ImplementsRoster NoPhantomClient NoPhantomPlayer
