SPECIFICATION FairSpec
CONSTANTS
    Projects = {"p"}
    Profiles = {"release", "development"}
    Callers = {t1, w1}
    Workers = {w1}
    Images = {i1, i2}
    NoImage = NoImage
    None = None
    PortStart = 1
    PortEnd = 3
    Ops = {"deploy", "queue", "daemon"}
    MaxStarts = 3
    MaxCrashes = 0
INVARIANTS
    RouteServes
    

    
    
CHECK_DEADLOCK FALSE
