\* Two bookings of one slot, two tutors; nothing fails.
SPECIFICATION Spec
CONSTANTS
    BookingIds = {b1, b2}
    Tutors = {t1, t2}
    Requests = {r1, r2}
    None = None
    Horizon = 1
    MaxSessions = 2
    MaxAdmin = 1
    MaxFaults = 0
    Start <- MCStart
    End <- MCEnd
SYMMETRY Symmetry
INVARIANTS
    TypeOK
    NoDoubleBooking
PROPERTIES
    AutoAssignsActive
    AssignmentsSpec
CHECK_DEADLOCK FALSE
