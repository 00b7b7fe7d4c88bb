\* Liveness of expiry: two workers with a sweep limit of 1 that fail or crash once.
SPECIFICATION FairSpec
CONSTANTS
    None = None
    Users = {u1}
    Seats = {s1}
    IdemKeys = {k1, k2}
    HoldCalls = {h1, h2}
    Owners = {h1, h2}
    ConfirmCalls = {}
    ReleaseCalls = {}
    Workers = {w1, w2}
    TTL = 1
    StartTime = 2
    SweepLimit = 1
    FaultKinds = {"mongoError", "commitUnknown", "crash"}
    MaxFaults = 1
PROPERTIES
    HoldsEnd
