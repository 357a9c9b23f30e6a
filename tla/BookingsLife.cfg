\* One booking from its creation to its end, with a failed request or none.
SPECIFICATION FairSpec
CONSTANTS
    BookingIds = {b1}
    Tutors = {t1, t2}
    Requests = {r1, r2}
    None = None
    Horizon = 2
    MaxSessions = 2
    MaxAdmin = 1
    MaxFaults = 1
    Start <- MCStart
    End <- MCEnd
INVARIANTS
    ConfirmedHasSession
PROPERTIES
    EventuallySettled
CHECK_DEADLOCK FALSE
