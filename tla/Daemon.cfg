SPECIFICATION FairSpec
CONSTANTS
    Proc = {p, q}
    MaxKills = 1
    None = None
    Dead = Dead
INVARIANTS TypeOK OneDaemonUnlessRobbed
PROPERTIES ImplementsHookService DaemonComesBack OldCodeRetires
