SPECIFICATION ContentSpec
CONSTANTS
    Raws = {r1, r2}
    Texts = {y1, y2}
    Bodies = {empty, b1}
    Empty = empty
    None = None
    Clients = {x1, x2}
    MaxRuns = 3
    MaxEdits = 3
    Removable = {r1}
    Skippable = {}
    RunKinds = {"full", "clean"}
    Slugs = {x1, x2}
    LegacyIds = {y1, y2}
    Entities = {e1, e2}
    NoSlug = NoSlug
    NoId = NoId
    NoEntity = NoEntity
    Inits = {x1, x2}
    Deletions = {y1, y2}
    IdParts <- TheIdParts
    Owners <- TheOwners
    LegacyProject <- TheLegacyProject
    Label <- TheLabel
    ProjectIds <- TheProjects
    IdempotencyKeys <- TheKeys
    InitRequests <- TheInits
    LegacyDocIds <- TheLegacy
    MaxChanges = 1
CHECK_DEADLOCK FALSE
SYMMETRY ContentSymmetry
INVARIANTS
    ReceiptsTrue
    ReceiptsAccepted
    NoWorkMeansIngested
    RedirectsSound
    OneProjectPerKey
    DocumentsAnchorData
PROPERTIES
    ReceiptedIdsKept
    AnnotationsNotLost
    LinksKept
    OnlyTargetsDeleted
