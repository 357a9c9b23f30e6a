\* Two bookings, two requests, two purchases or admin grants; the package pays a
\* session and a half.
SPECIFICATION Spec
CONSTANTS
    BookingIds = {b1, b2}
    Slots = {s1}
    Requests = {r1, r2}
    None = None
    TrialCredits = 4
    FirstSession = 2
    LaterSession = 1
    SubSession = 2
    PlanCredits = 3
    GrantedCredits = 1
    MaxTopUps = 2
    MaxFaults = 1
SYMMETRY Symmetry
INVARIANTS
    TypeOK
    NoLostUpdate
    NotOverdrawn
    BookedIsCharged
    
CHECK_DEADLOCK FALSE
