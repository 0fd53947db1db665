SPECIFICATION FairSpec
CONSTANTS
    Callers = {h1, h2}
    None = None
    Limit = 2
    MaxRows = 3
    Faults = {"early", "daemon", "proxy"}
INVARIANTS
    TypeOK
    LimitKept
    NothingOutlivesRow
PROPERTIES
    Reclaimed
