---------------------------- MODULE Assignments ----------------------------
(***************************************************************************)
(* What the platform promises about who teaches a booking, with every      *)
(* assignment one step: no requests, no locks, no sessions.                *)
(*                                                                         *)
(* A booking gets a tutor by the one automatic assignment its creation     *)
(* tries, by a claim while it has none or is offered to everybody, or by   *)
(* an admin; the first two give it to a tutor who is free at that moment.  *)
(* What has been deleted stays deleted.  Bookings implements this.         *)
(***************************************************************************)

CONSTANTS
    BookingIds,
    Tutors,
    None,
    Clashing      \* the bookings whose slots overlap a booking's, its own too

VARIABLES
    assignment,   \* what stands of each booking, its tutor, and whether it is offered
    active,       \* the tutors who work here
    pending       \* bookings whose automatic assignment is still to come

boardVars == <<assignment, active, pending>>

Absent == [state |-> "absent", tutor |-> None, offered |-> FALSE]
Deleted == [state |-> "deleted", tutor |-> None, offered |-> FALSE]

Init ==
    /\ assignment = [b \in BookingIds |-> Absent]
    /\ active = [t \in Tutors |-> TRUE]
    /\ pending = {}

Exists(b) == assignment[b].state \in {"standing", "over"}
Holds(t, b) == assignment[b].tutor = t /\ assignment[b].state = "standing"
Busy(t, b) == \E c \in Clashing[b] : Holds(t, c)

Becomes(b, row) == assignment' = [assignment EXCEPT ![b] = row]
Standing(b, t) ==
    [state |-> "standing", tutor |-> t, offered |-> assignment[b].offered]

Book(b) ==
    /\ assignment[b] = Absent
    /\ Becomes(b, Standing(b, None))
    /\ pending' = pending \union {b}
    /\ UNCHANGED active

\* Nobody is free, the assignment fails, or what creates the booking does.
GiveUp(b) ==
    /\ b \in pending
    /\ pending' = pending \ {b}
    /\ UNCHANGED <<assignment, active>>

\* The booking could not be paid.
Delete(b) ==
    /\ b \in pending
    /\ Becomes(b, Deleted)
    /\ pending' = pending \ {b}
    /\ UNCHANGED active

\* Whatever has become of the booking since: a tutor who claimed it is replaced.
AutoAssign(b, t) ==
    /\ b \in pending
    /\ Exists(b)
    /\ active[t] /\ ~ Busy(t, b)
    /\ Becomes(b, Standing(b, t))
    /\ pending' = pending \ {b}
    /\ UNCHANGED active

\* A booking that is over can be claimed, too.
Claim(b, t) ==
    /\ Exists(b)
    /\ assignment[b].tutor = None \/ assignment[b].offered
    /\ ~ Busy(t, b)
    /\ Becomes(b, Standing(b, t))
    /\ UNCHANGED <<active, pending>>

\* An admin assigns anybody to anything, or to a booking he makes for him.
Choose(b, t) ==
    /\ assignment[b] = Absent \/ Exists(b)
    /\ Becomes(b, Standing(b, t))
    /\ UNCHANGED <<active, pending>>

\* All bookings of a tutor are open again, those that were over as well.
Release(t) ==
    /\ active[t]
    /\ assignment' = [b \in BookingIds |->
                         IF assignment[b].tutor = t THEN Standing(b, None)
                         ELSE assignment[b]]
    /\ UNCHANGED <<active, pending>>

Dismiss(t) ==
    /\ active' = [active EXCEPT ![t] = FALSE]
    /\ UNCHANGED <<assignment, pending>>

Offer(b) ==
    /\ Exists(b)
    /\ Becomes(b, [assignment[b] EXCEPT !.offered = TRUE])
    /\ UNCHANGED <<active, pending>>

\* Cancelled, expired or archived.
Close(bs) ==
    /\ \A b \in bs : assignment[b].state = "standing"
    /\ assignment' = [b \in BookingIds |->
                         IF b \in bs THEN [assignment[b] EXCEPT !.state = "over"]
                         ELSE assignment[b]]
    /\ UNCHANGED <<active, pending>>

Next ==
    \/ \E b \in BookingIds :
          \/ Book(b) \/ GiveUp(b) \/ Delete(b) \/ Offer(b)
          \/ \E t \in Tutors : AutoAssign(b, t) \/ Claim(b, t) \/ Choose(b, t)
    \/ \E t \in Tutors : Release(t) \/ Dismiss(t)
    \/ \E bs \in SUBSET BookingIds : Close(bs)

Spec == Init /\ [][Next]_boardVars

=============================================================================
