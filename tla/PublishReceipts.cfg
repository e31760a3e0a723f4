SPECIFICATION Spec
CONSTANTS
    Workers = {w1, w2}
    Sessions = {s1}
    Rebuilders = {}
    Redacted = Redacted
    NoHolder = NoHolder
    NoId = NoId
    Modes = {"full", "suggest"}
    MaxAttempts = 1
    NumFiles = 2
    WritesPerSession = 2
    MaxFaults = 3
    LateDelivery = FALSE
SYMMETRY WorkerSymmetry
INVARIANTS
    LegacyCovered
    FailureReceiptTrue
