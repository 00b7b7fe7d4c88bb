\* Two holds of one seat, and nothing fails.
SPECIFICATION FairSpec
CONSTANTS
    None = None
    Seats = {s1}
    Claims = {h1, h2}
    Clients = {b1}
    Conns = {k1, k2}
    Capacity = 2
    FaultKinds = {}
    MaxFaults = 0
PROPERTIES
    FeedRepairs
CHECK_DEADLOCK FALSE
