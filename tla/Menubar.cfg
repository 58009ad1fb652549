SPECIFICATION Spec
CONSTANTS
    Pair = {"app", "build_stamp", "action_script", "launch_agent"}
    Rank <- PlanOrder
    MaxGen = 3
    StopAt = {"staged", "apply", "renamed", "applied", "undo", "tidy", "cleanup"}
    None = None
INVARIANT TypeOK
INVARIANT RecoverySucceeds
INVARIANT NothingStranded
PROPERTY ImplementsAtomicGenerations
CHECK_DEADLOCK FALSE
