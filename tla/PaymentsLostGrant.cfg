SPECIFICATION Spec
CONSTANTS
    Purchases = {p1}
    Users = {u1}
    Requests = {r1}
    NoPurchase = NoPurchase
    MaxFaults = 1
    Owner <- MCOwner
INVARIANT MarkedMeansGranted
CHECK_DEADLOCK FALSE
