\* One client on three connections with full buffers of one message, a hold that comes and
\* goes, and one fault of any kind.
SPECIFICATION FairSpec
CONSTANTS
    None = None
    Seats = {s1}
    Claims = {h1}
    Clients = {b1}
    Conns = {k1, k2, k3}
    Capacity = 1
    FaultKinds = {"publishLost", "subscriptionEnds", "disconnect", "restError", "crash"}
    MaxFaults = 1
INVARIANTS
    TypeOK
    SettledClientsFollowTheFeed
    FeedInv
PROPERTIES
    ClientsSettle
CHECK_DEADLOCK FALSE
