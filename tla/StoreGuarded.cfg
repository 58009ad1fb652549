SPECIFICATION Spec
CONSTANTS
    Compiler = {c1, c2}
    s1 = s1
    s2 = s2
    s3 = s3
    x = x
    y = y
    Snap = {s1, s2, s3}
    Source = {x, y}
    Input <- OneSourceEach
    MaxOps = 4
    Guarded = TRUE
    CrashAt = {"begin", "open", "stage", "staged", "index", "commit", "already", "advance", "verify", "promote", "rename", "sidecar", "mirror", "publish", "point", "record", "reread", "clean", "rmtemp", "keep", "prune", "close", "drop", "unjournal", "reconcile"}
    FailAt = {"stage", "staged", "index", "commit", "already", "advance", "verify", "promote", "rename", "sidecar", "mirror", "publish", "point", "record"}
    None = None
INVARIANT TypeOK
INVARIANT PointerServes
INVARIANT PreviousKept
PROPERTY NoLostUpdate
PROPERTY RecoveredReadable
PROPERTY EndsTidy
CHECK_DEADLOCK FALSE
