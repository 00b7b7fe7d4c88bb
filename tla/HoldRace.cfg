\* Three hold requests for overlapping seats, with and without the same key, and a worker.
SPECIFICATION Spec
CONSTANTS
    None = None
    Users = {u1, u2}
    Seats = {s1, s2}
    IdemKeys = {k1, k2}
    HoldCalls = {h1, h2, h3}
    Owners = {h1, h2, h3}
    ConfirmCalls = {}
    ReleaseCalls = {}
    Workers = {w1}
    TTL = 1
    StartTime = 2
    SweepLimit = 1
    FaultKinds = {}
    MaxFaults = 0
SYMMETRY Symmetry
INVARIANTS
    LiveHoldOwnsSeats
    KeysAreUnique
    HoldAnswersHonest
    NoOrphanKeys
