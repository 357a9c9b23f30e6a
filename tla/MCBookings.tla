----------------------------- MODULE MCBookings -----------------------------
(***************************************************************************)
(* Bookings with one slot for every booking, from 0 to 1: all of them      *)
(* overlap, and the clock still passes into and beyond them.               *)
(***************************************************************************)
EXTENDS Bookings, TLC

MCStart == [b \in BookingIds |-> 0]
MCEnd == [b \in BookingIds |-> 1]

Symmetry ==
    Permutations(BookingIds) \union Permutations(Tutors)
        \union Permutations(Requests)

=============================================================================
