\* Two clients, one stream, two starts.
CONSTANTS
    c1 = c1
    c2 = c2
    Clients <- MCTwoClients
    Streams = 1
    None = None
    MaxStarts = 2
SPECIFICATION FairSpec
INVARIANTS ContextInUse NothingLeft
PROPERTIES StopReturns ListenerFree
CHECK_DEADLOCK FALSE
