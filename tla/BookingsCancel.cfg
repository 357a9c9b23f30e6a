\* One booking, cancelled while it is created or claimed; nothing fails.
SPECIFICATION Spec
CONSTANTS
    BookingIds = {b1}
    Tutors = {t1}
    Requests = {r1, r2}
    None = None
    Horizon = 2
    MaxSessions = 2
    MaxAdmin = 0
    MaxFaults = 0
    Start <- MCStart
    End <- MCEnd
INVARIANTS
    CancelledHasNoSession
CHECK_DEADLOCK FALSE
