\* Three clients, two of them behind one address.
CONSTANTS
    c1 = c1
    c2 = c2
    c3 = c3
    ip1 = ip1
    ip2 = ip2
    NoAddress = no_address
    None = None
    Clients <- MCClients
    Address <- MCAddress
    Weathers <- MCWeathers
    MaxKeys = 3
SPECIFICATION FairSpec
INVARIANTS KeyUsedOnce Readable NoneLeftBehind
PROPERTIES HandshakeEnds SignedOn HoldersGetIn
CHECK_DEADLOCK FALSE
