\* One worker, one booking, and faults enough for every retry to fail.
SPECIFICATION Spec
CONSTANTS
    None = None
    Events = {e1}
    Workers = {w1}
    FaultKinds = {"mongoError", "smtpError", "smtpLateError", "confirmTimeout", "brokerNack", "connectionLost", "crash"}
    MaxFaults = 4
INVARIANTS
    TypeOK
    NoBookingForgotten
    MailsRepeatOnlyAcrossFailures
CHECK_DEADLOCK FALSE
