---------------------------- MODULE PaymentLedger ----------------------------
(***************************************************************************)
(* What the payments component promises to a customer, whatever the order  *)
(* in which the browser, the provider's webhooks and the two servers act:  *)
(* the credits of a purchase are given at most once, never before the      *)
(* provider has authorized the payment, and they are taken away only       *)
(* because a purchase of that customer has been refunded.  A later grant   *)
(* replaces the balance (plans do not stack), so a balance is named by the *)
(* purchase that set it.                                                   *)
(***************************************************************************)
EXTENDS Naturals

CONSTANTS Purchases, Users, Owner, NoPurchase

VARIABLES
    taken,      \* purchases whose payment the provider has authorized
    refunded,   \* purchases whose money the provider has given back
    grants,     \* grants[p]: how often the credits of p have been given
    holder      \* holder[u]: the purchase that set the balance of user u

ledgerVars == <<taken, refunded, grants, holder>>

Init ==
    /\ taken = {}
    /\ refunded = {}
    /\ grants = [p \in Purchases |-> 0]
    /\ holder = [u \in Users |-> NoPurchase]

Take(p) ==
    /\ p \notin taken
    /\ taken' = taken \union {p}
    /\ UNCHANGED <<refunded, grants, holder>>

GiveBack(p) ==
    /\ p \in taken \ refunded
    /\ refunded' = refunded \union {p}
    /\ UNCHANGED <<taken, grants, holder>>

Credit(p) ==
    /\ p \in taken
    /\ grants[p] = 0
    /\ grants' = [grants EXCEPT ![p] = 1]
    /\ holder' = [holder EXCEPT ![Owner[p]] = p]
    /\ UNCHANGED <<taken, refunded>>

Revoke(p) ==
    /\ p \in refunded
    /\ holder' = [holder EXCEPT ![Owner[p]] = NoPurchase]
    /\ UNCHANGED <<taken, refunded, grants>>

Next == \E p \in Purchases : Take(p) \/ GiveBack(p) \/ Credit(p) \/ Revoke(p)

Spec == Init /\ [][Next]_ledgerVars

=============================================================================
