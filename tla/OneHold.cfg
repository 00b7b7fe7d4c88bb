\* Two confirmations, a release and two workers race for one hold; two faults of any kind.
SPECIFICATION Spec
CONSTANTS
    None = None
    Users = {u1, u2}
    Seats = {s1}
    IdemKeys = {k1}
    HoldCalls = {h1}
    Owners = {h1}
    ConfirmCalls = {c1, c2}
    ReleaseCalls = {d1}
    Workers = {w1, w2}
    TTL = 1
    StartTime = 2
    SweepLimit = 1
    FaultKinds = {"redisError", "mongoError", "commitUnknown", "crash", "redisLoss"}
    MaxFaults = 2
SYMMETRY Symmetry
INVARIANTS
    OneEndPerHold
    EndAnswersHonest
