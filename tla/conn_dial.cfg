CONSTANTS
    g1 = g1
    g2 = g2
    g3 = g3
    a1 = a1
    a2 = a2
    Goroutines = {g1, g2, g3}
    Addrs = {a1, a2}
    To <- ToOneAndTwo
    Context <- Contents
    LatePeers = {a2}
SPECIFICATION FairSpec
INVARIANTS MessagesIntact
PROPERTIES SilentAfterFailedDial AllDelivered
CHECK_DEADLOCK FALSE
