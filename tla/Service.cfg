SPECIFICATION ServiceSpec
CONSTANTS
    MaxRows = 2
    MaxGroups = 1
    Processes = {p1, p2}
    Logins = {l1, l2}
    MaxTokens = 2
    Requests = {q1, q2, q3, q4}
    Limit = 1
    Window = 2
    SweepEvery = 3
    MaxClock = 5
    Readers = {a1, a2}
    Rebuilders = {b1, b2}
    MaxManifests = 1
    Pages = {1, 2, 3}
    BodyPages = {1}
    Criteria = {"place", "era"}
    Kind <- TheKinds
    HardCriteria = {"place"}
    QueryWords = {"place"}
    Attempts = {a1, a2}
    SelectionLimit = 2
    ExplorationSlots = 1
    EvidenceThreshold = 2
    RareDocumentFrequency = 1
    Secret <- TheSecret
    Chunks <- TheChunks
    MaxLog = 6
    Held = 3
    FrameBytes = 6
    MaxWrites = 4
    MaxTasks = 2
    MaxPipelineRuns = 2
    MinQueries = 1
    MaxLegacyQueries = 1
    RequiredQueries = 2
    MaxConcepts = 1
    Concepts = {0, 1, 2}
    MaxChipRuns = 2
SYMMETRY ServiceSymmetry
CHECK_DEADLOCK FALSE
INVARIANTS
    DecodersAgree
    EnrichSound
    OneTokenPerLogin
    AcceptedInWindow
    OneViewPerRequest
    RoutingNotOlderThanAnswer
    RebuildsExclusive
    HardCriteriaKept
    CitationsBacked
    LiveStreamFaithful
    StoredLogHonest
    SyntoStartsSafely
    PublishedIsAdopted
    GeneratedIsShown
PROPERTIES
    LastKnownGoodKept
