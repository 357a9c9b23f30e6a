\* A subscription that ends and is renewed before midnight.
SPECIFICATION Spec
CONSTANTS
    BookingIds = {b1}
    Slots = {s1}
    Requests = {r1, r2}
    None = None
    TrialCredits = 4
    FirstSession = 2
    LaterSession = 1
    SubSession = 2
    PlanCredits = 3
    GrantedCredits = 1
    MaxTopUps = 2
    MaxFaults = 0
PROPERTIES
    OnlyEndedExpire
CHECK_DEADLOCK FALSE
