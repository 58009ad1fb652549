SPECIFICATION Spec
CONSTANTS
    Surface = {"wiki", "cache"}
    Rank <- WikiFirst
    Wiki = "wiki"
    Record = {r1, r2}
    MaxRuns = 2
    CrashAt = {"move"}
    FailAt = {}
    Unrecorded = {}
    RestoreFails = {}
    LateWriters = FALSE
    None = None
INVARIANT CanonicalSurvives
CHECK_DEADLOCK FALSE
