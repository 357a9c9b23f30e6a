----------------------------- MODULE MCPayments -----------------------------
(***************************************************************************)
(* Payments with one customer who buys every purchase: the case where the  *)
(* purchases share a balance.                                              *)
(* Only the safety run uses the symmetry: liveness must not.               *)
(***************************************************************************)
EXTENDS Payments, TLC

MCOwner == [p \in Purchases |-> CHOOSE u \in Users : TRUE]

Symmetry == Permutations(Purchases) \union Permutations(Requests)

=============================================================================
