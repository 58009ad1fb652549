SPECIFICATION Spec
CONSTANTS
    a = a  b = b  c = c
    pa = pa  pb = pb  pc1 = pc1  kid = kid
    None = None
    Actor = {a, b, c}
    Pid = {pa, pc1, kid}
    PidOf <- SharedProcess
    Child = {kid}
    MayDie = {pa, kid}
    Persistent = {a}
    Beating = {a, c}
    Timely = TRUE
INVARIANTS TypeOK MutualExclusion ProtectedChildBlocksReclaim
PROPERTIES ReleaseSparesSuccessor ReclaimsOnlyAbandoned ImplementsMutex
CHECK_DEADLOCK FALSE
