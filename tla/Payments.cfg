SPECIFICATION Spec
CONSTANTS
    Purchases = {p1, p2}
    Users = {u1}
    Requests = {r1, r2}
    NoPurchase = NoPurchase
    MaxFaults = 0
    Owner <- MCOwner
SYMMETRY Symmetry
INVARIANTS
    TypeOK
PROPERTIES
    RefundNotUndone
    LedgerSpec
CHECK_DEADLOCK FALSE
