SPECIFICATION Spec
CONSTANTS
    Surface = {"wiki", "cache"}
    Rank <- WikiFirst
    Wiki = "wiki"
    Record = {r1, r2}
    MaxRuns = 3
    CrashAt = {"recover", "compile", "stage", "journal", "promote", "project", "remove"}
    FailAt = {"remove"}
    Unrecorded = {}
    RestoreFails = {}
    LateWriters = FALSE
    None = None
PROPERTY ImplementsSurfaceSwap
CHECK_DEADLOCK FALSE
