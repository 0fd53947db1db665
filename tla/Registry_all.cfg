SPECIFICATION Spec
CONSTANTS
    Orgs = {"acme", "admin"}
    Names = {"shop", "paas-console", "Shop"}
    BadNames = {"Shop"}
    SelfOrg = "admin"
    Console = "paas-console"
    Requests = {r1, r2}
    Gitea = Gitea
    User = User
    None = None
    Asked = {"shop"}
    MaxEvents = 3
    MaxSyncs = 1
    Faults = {"gitea", "raise", "clone", "reject"}
SYMMETRY Symmetric
INVARIANTS
    Converged
    HasRepository
    UploadedWhole
PROPERTIES
    DeletesOnlyMissing
CHECK_DEADLOCK FALSE
