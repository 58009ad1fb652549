SPECIFICATION Spec
CONSTANTS
    Surface = {"wiki", "cache"}
    Rank <- WikiFirst
    Wiki = "wiki"
    Record = {r1, r2}
    MaxRuns = 3
    CrashAt = {"recover", "compile", "stage", "journal", "journal3", "project", "remove"}
    FailAt = {"promote", "unpromote", "remove"}
    Unrecorded = {"cache"}
    RestoreFails = {"cache"}
    LateWriters = TRUE
    None = None
INVARIANT TypeOK
INVARIANT CanonicalSurvives
CHECK_DEADLOCK FALSE
