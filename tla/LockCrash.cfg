SPECIFICATION FairSpec
CONSTANTS
    a = a  b = b  c = c
    pa = pa  pb = pb  pc1 = pc1  kid = kid
    None = None
    Actor = {a, b, c}
    Pid = {pa, pc1, kid}
    PidOf <- SharedProcess
    Child = {kid}
    MayDie = {pa, kid}
    Persistent = {b, c}
    Beating = {}
    Timely = TRUE
PROPERTIES PersistentCallServed
CHECK_DEADLOCK FALSE
