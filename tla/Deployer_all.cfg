SPECIFICATION Spec
CONSTANTS
    Projects = {"p"}
    Profiles = {"release", "development"}
    Callers = {t1, t2, w1}
    Workers = {w1}
    Images = {i1, i2}
    NoImage = NoImage
    None = None
    PortStart = 1
    PortEnd = 3
    Ops = {"deploy", "queue", "rollback", "stop", "daemon", "proxy", "reload"}
    MaxStarts = 3
    MaxCrashes = 1
SYMMETRY Symmetric
INVARIANTS
    TypeOK
    CleanFailure
    LockExclusion
    SingleWriter
    RunningUnique
    
PROPERTIES
    ImplementsLog
    
CHECK_DEADLOCK FALSE
