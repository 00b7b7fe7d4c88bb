\* Two workers that claim one booking's row from each other; three faults of any kind.
SPECIFICATION FairSpec
CONSTANTS
    None = None
    Events = {e1}
    Workers = {w1, w2}
    FaultKinds = {"mongoError", "smtpError", "smtpLateError", "confirmTimeout", "brokerNack", "connectionLost", "crash", "slowWorker"}
    MaxFaults = 3
INVARIANTS
    DeliveryInv
PROPERTIES
    EveryBookingIsHandled
CHECK_DEADLOCK FALSE
