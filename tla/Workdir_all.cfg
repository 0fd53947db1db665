SPECIFICATION Spec
CONSTANTS
    Callers = {h1, h2}
    None = None
    Changes = {c1, c2}
    New = {c2}
    Chat = {"chat", "main"}
    Ops = {"deploy", "pin", "preview", "apply", "view", "reject"}
    Faults = {"git"}
    MaxPushes = 1
    MaxCrashes = 1
SYMMETRY Symmetric
INVARIANTS
    ImageIsItsCommit
    DeploysPushed
    DeploysLatest
