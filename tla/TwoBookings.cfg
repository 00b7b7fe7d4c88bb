\* Two confirmations, of one hold or of two, with equal and different keys and users; one commit
\* may be reported as failed.  Without a worker the system rests once every request is answered.
SPECIFICATION Spec
CONSTANTS
    None = None
    Users = {u1, u2}
    Seats = {s1, s2}
    IdemKeys = {k1, k2}
    HoldCalls = {h1, h2}
    Owners = {h1, h2}
    ConfirmCalls = {c1, c2}
    ReleaseCalls = {}
    Workers = {}
    TTL = 1
    StartTime = 1
    SweepLimit = 1
    FaultKinds = {"commitUnknown"}
    MaxFaults = 1
SYMMETRY Symmetry
INVARIANTS
    KeysAreUnique
    EndAnswersHonest
CHECK_DEADLOCK FALSE
