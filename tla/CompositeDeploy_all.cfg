SPECIFICATION MCSpec
CONSTANTS
    Callers = {h1, h2}
    Images = {i1, i2}
    NoImage = NoImage
    None = None
    PortEnd = 3
    MaxAttempts = 4
    MaxCrashes = 1
    Ops = {"deploy", "queue", "rollback", "escape", "stop"}
    Breaks = {"backend", "frontend"}
SYMMETRY Symmetric
INVARIANTS
    
    RouteServesCalmly
    RunningOnceCalmly
PROPERTIES
    RestoreKeepsImageCalmly
CHECK_DEADLOCK FALSE
