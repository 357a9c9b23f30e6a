SPECIFICATION FairSpec
CONSTANTS
    Purchases = {p1}
    Users = {u1}
    Requests = {r1, r2}
    NoPurchase = NoPurchase
    MaxFaults = 2
    Owner <- MCOwner
INVARIANTS
    AtMostOneGrant
    ProcessedIsCredited
PROPERTIES
    CapturedIsCredited
CHECK_DEADLOCK FALSE
