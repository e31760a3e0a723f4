SPECIFICATION SourceSpec
CONSTANTS
    Raws = {r1}
    Texts = {t1, t2}
    Bodies = {empty}
    Empty = empty
    None = None
    Clients = {c1}
    MaxRuns = 2
    MaxEdits = 2
    Removable = {}
    Skippable = {}
    RunKinds = {"full", "suggested-queries"}
CHECK_DEADLOCK FALSE
INVARIANT ReceiptsTrue
