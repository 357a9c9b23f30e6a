SPECIFICATION Spec
CONSTANTS
    Purchases = {p1}
    Users = {u1}
    Requests = {r1, r2}
    NoPurchase = NoPurchase
    MaxFaults = 0
    Owner <- MCOwner
INVARIANT RefundRevokes
CHECK_DEADLOCK FALSE
