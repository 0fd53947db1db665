SPECIFICATION MCSpec
CONSTANTS
    Callers = {h1, h2}
    Units = {u1, u2}
    PortEnd = 3
    MaxCalls = 3
    MaxEvents = 1
    MaxManifest = 2
    Modes = {"gitops", "cluster", "files"}
    MaxStarts = 3
SYMMETRY Symmetric

    
    
    
PROPERTIES
    SlotsServe
CHECK_DEADLOCK FALSE
