SPECIFICATION Spec
CONSTANTS
    Requests = {r1, r2}
    Orders = {o1, o2}
    Keys = {k1, k2}
    Amounts = {1, 2}
    NoKey = NoKey
    Attempts = 3
    Faults = {"unreachable", "timeout", "raise"}
    MaxRequests = 4
    MaxCrashes = 1
SYMMETRY Symmetric
INVARIANTS
    ProviderAgrees
    OneCallCharges
PROPERTIES
    Settled
CHECK_DEADLOCK FALSE
