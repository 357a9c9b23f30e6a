-------------------------- MODULE MCStudentCredits --------------------------
(***************************************************************************)
(* StudentCredits with the credits of the code in half hours: a trial of   *)
(* 120 minutes with sessions of 60 and 30, other sessions of 60.           *)
(***************************************************************************)
EXTENDS StudentCredits, TLC

Symmetry == Permutations(BookingIds) \union Permutations(Requests)

=============================================================================
