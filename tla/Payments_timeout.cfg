SPECIFICATION Spec
CONSTANTS
    Requests = {r1}
    Orders = {o1}
    Keys = {k1}
    Amounts = {1}
    NoKey = NoKey
    Attempts = 3
    Faults = {"timeout"}
    MaxRequests = 1
    MaxCrashes = 0
SYMMETRY Symmetric
INVARIANTS
    ChargedOnce
CHECK_DEADLOCK FALSE
