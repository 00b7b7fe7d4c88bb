\* Two holds of overlapping seats, one confirmation, one release, one worker; nothing fails.
SPECIFICATION Spec
CONSTANTS
    None = None
    Users = {u1, u2}
    Seats = {s1, s2}
    IdemKeys = {k1}
    HoldCalls = {h1, h2}
    Owners = {h1, h2}
    ConfirmCalls = {c1}
    ReleaseCalls = {d1}
    Workers = {w1}
    TTL = 1
    StartTime = 2
    SweepLimit = 1
    FaultKinds = {}
    MaxFaults = 0
SYMMETRY Symmetry
INVARIANTS
    SeatsFollowHolds
    BookingsOwnSeats
    RedisBacksLiveHolds
    KeysInv
PROPERTIES
    NothingIsTakenBack
    ImplementsLedger
