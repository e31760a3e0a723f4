SPECIFICATION FairSpec
CONSTANTS
    Workers = {w1, w2}
    Sessions = {}
    Rebuilders = {}
    Redacted = Redacted
    NoHolder = NoHolder
    NoId = NoId
    Modes = {"full", "clean"}
    MaxAttempts = 2
    NumFiles = 1
    WritesPerSession = 1
    MaxFaults = 1
    LateDelivery = TRUE
PROPERTY
    Recovery
