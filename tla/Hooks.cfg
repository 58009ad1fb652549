SPECIFICATION FairSpec
CONSTANTS
    Proc = {p, q}
    Caller = {c1, c2}
    Worker = {c2}
    Foreign = {c1}
    None = None
INVARIANT EvaluatedOnce
PROPERTIES EveryCallAnswered
