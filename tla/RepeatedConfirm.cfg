\* Two confirmations of one hold.
SPECIFICATION Spec
CONSTANTS
    None = None
    Users = {u1}
    Seats = {s1}
    IdemKeys = {k1}
    HoldCalls = {h1}
    Owners = {h1}
    ConfirmCalls = {c1, c2}
    ReleaseCalls = {}
    Workers = {w1}
    TTL = 1
    StartTime = 2
    SweepLimit = 1
    FaultKinds = {}
    MaxFaults = 0
PROPERTIES
    RepeatedConfirmFindsBooking
