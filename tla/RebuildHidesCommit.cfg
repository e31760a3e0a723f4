SPECIFICATION Spec
CONSTANTS
    Workers = {w1}
    Sessions = {}
    Rebuilders = {r1}
    Redacted = Redacted
    NoHolder = NoHolder
    NoId = NoId
    Modes = {"full"}
    MaxAttempts = 1
    NumFiles = 1
    WritesPerSession = 1
    MaxFaults = 1
    LateDelivery = FALSE
INVARIANT
    FailureReceiptTrue
