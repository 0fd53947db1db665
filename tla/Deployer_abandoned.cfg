SPECIFICATION Spec
CONSTANTS
    Projects = {"p"}
    Profiles = {"release"}
    Callers = {t1, w1}
    Workers = {w1}
    Images = {i1, i2}
    NoImage = NoImage
    None = None
    PortStart = 1
    PortEnd = 4
    Ops = {"queue"}
    MaxStarts = 2
    MaxCrashes = 0
SYMMETRY Symmetric
INVARIANTS
    NoAbandonedRow
CHECK_DEADLOCK FALSE
