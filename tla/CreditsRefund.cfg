\* A paid booking that two requests cancel at the same time.
SPECIFICATION Spec
CONSTANTS
    BookingIds = {b1}
    Slots = {s1}
    Requests = {r1, r2}
    None = None
    TrialCredits = 4
    FirstSession = 2
    LaterSession = 1
    SubSession = 2
    PlanCredits = 3
    GrantedCredits = 1
    MaxTopUps = 1
    MaxFaults = 0
INVARIANTS
    RefundedOnce
CHECK_DEADLOCK FALSE
