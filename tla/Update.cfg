SPECIFICATION Spec
CONSTANTS
    Call = {c1, c2, c3}
    Project = {p1, p2}
    MaxVersion = 3
    MaxOutside = 1
    None = None
SYMMETRY Alike
INVARIANTS TypeOK ReceiptsTrue ConfirmedCanBeUndone
PROPERTIES DowngradeIsUndo
CHECK_DEADLOCK FALSE
