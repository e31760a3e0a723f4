SPECIFICATION Spec
CONSTANTS
    Workers = {w1, w2}
    Sessions = {s1}
    Rebuilders = {r1}
    Redacted = Redacted
    NoHolder = NoHolder
    NoId = NoId
    Modes = {"full"}
    MaxAttempts = 2
    NumFiles = 1
    WritesPerSession = 1
    MaxFaults = 1
    LateDelivery = TRUE
SYMMETRY WorkerSymmetry
INVARIANTS
    TypeOK
    LeaseExclusive
    HolderKeepsLease
    CommittedComplete
    PublishedWasCommitted
PROPERTY
    HistorySpec
