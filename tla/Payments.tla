------------------------------ MODULE Payments ------------------------------
(***************************************************************************)
(* The payments component (src/payments) and the two credit operations it  *)
(* calls (grantCredits and revokeCredits of src/credits).                  *)
(*                                                                         *)
(* Every request is a process: a step is what happens between two awaits   *)
(* that another request can observe, a transaction being one step.  The    *)
(* rows of the database survive a crash, a request does not.  Razorpay is  *)
(* external: it moves a payment along, emits one webhook event per move    *)
(* and delivers an event at least once, in any order, until it is          *)
(* acknowledged (and possibly again after that).                           *)
(*                                                                         *)
(* A purchase has one Razorpay order and one payment id: the ids of failed *)
(* attempts never reach the database, since only verifyPayment and         *)
(* handlePaymentCaptured write razorpay_payment_id.                        *)
(***************************************************************************)
EXTENDS Naturals

CONSTANTS
    Purchases,   \* purchase rows that may be created
    Users,       \* customers
    Owner,       \* Owner[p]: purchases.user_id
    Requests,    \* requests the servers handle at one time
    NoPurchase,  \* the balance of a customer who holds no plan
    MaxFaults    \* bound on failed requests and server crashes

ASSUME OwnerAssumption == Owner \in [Purchases -> Users]
ASSUME NoPurchaseAssumption == NoPurchase \notin Purchases
ASSUME MaxFaultsAssumption == MaxFaults \in Nat

VARIABLES
    purchase,  \* app.purchases: the columns the code branches on
    event,     \* app.webhook_events and what Razorpay knows of the delivery
    payment,   \* Razorpay's own state of the order's payment
    grants,    \* grants[p]: times grantCredits committed for p (history)
    holder,    \* the purchase whose grant set the customer's balance
    req,       \* the requests being handled
    faults     \* failed requests and crashes so far

vars == <<purchase, event, payment, grants, holder, req, faults>>

Kinds == {"captured", "failed", "refund"}
Status == {"ABSENT", "PENDING", "PAID", "FAILED", "REFUNDED"}
PaymentStatus ==
    {"none", "created", "failed", "authorized", "captured", "refunded"}

PurchaseRow ==
    [status: Status, order_id: BOOLEAN, payment_id: BOOLEAN,
     credit_granted_at: BOOLEAN]

EventRow ==
    [sent: BOOLEAN, stored: BOOLEAN, processed: BOOLEAN, error: BOOLEAN,
     acked: BOOLEAN]

\* A request is at a step of its operation.
Request ==
    [op: {"idle"}, p: {NoPurchase}, pc: {"idle"}]
    \union [op: {"createOrder"}, p: Purchases, pc: {"order", "save"}]
    \union [op: {"verify"}, p: Purchases, pc: {"mark", "grant"}]
    \union [op: {"captured"}, p: Purchases,
            pc: {"store", "mark", "grant", "processed"}]
    \union [op: {"failed"}, p: Purchases, pc: {"store", "fail", "processed"}]
    \union [op: {"refund"}, p: Purchases,
            pc: {"store", "refund", "revoke", "processed"}]

NoRow == [status |-> "ABSENT", order_id |-> FALSE, payment_id |-> FALSE,
          credit_granted_at |-> FALSE]
NoEvent == [sent |-> FALSE, stored |-> FALSE, processed |-> FALSE,
            error |-> FALSE, acked |-> FALSE]
Idle == [op |-> "idle", p |-> NoPurchase, pc |-> "idle"]

TypeOK ==
    /\ purchase \in [Purchases -> PurchaseRow]
    /\ event \in [Purchases \X Kinds -> EventRow]
    /\ payment \in [Purchases -> PaymentStatus]
    /\ grants \in [Purchases -> Nat]
    /\ holder \in [Users -> Purchases \union {NoPurchase}]
    /\ req \in [Requests -> Request]
    /\ faults \in 0..MaxFaults

Init ==
    /\ purchase = [p \in Purchases |-> NoRow]
    /\ event = [d \in Purchases \X Kinds |-> NoEvent]
    /\ payment = [p \in Purchases |-> "none"]
    /\ grants = [p \in Purchases |-> 0]
    /\ holder = [u \in Users |-> NoPurchase]
    /\ req = [r \in Requests |-> Idle]
    /\ faults = 0

-----------------------------------------------------------------------------
(* Requests *)

At(r, step) == req[r].pc = step
Starts(r, o, q, step) ==
    /\ At(r, "idle")
    /\ req' = [req EXCEPT ![r] = [op |-> o, p |-> q, pc |-> step]]
GoesTo(r, step) == req' = [req EXCEPT ![r].pc = step]
Ends(r) == req' = [req EXCEPT ![r] = Idle]

\* A handler hands over to the last lines of processWebhook; a verification
\* goes on to its audit log and returns.
Returns(r) ==
    IF req[r].op = "verify" THEN Ends(r) ELSE GoesTo(r, "processed")

IsWebhook(r) == req[r].op \in Kinds

-----------------------------------------------------------------------------
(* createOrder: the row first, then the order at Razorpay, then its id *)

CreatePurchase(r, p) ==
    /\ purchase[p].status = "ABSENT"
    /\ Starts(r, "createOrder", p, "order")
    /\ purchase' = [purchase EXCEPT ![p].status = "PENDING"]
    /\ UNCHANGED <<event, payment, grants, holder, faults>>

CreateRazorpayOrder(r) ==
    LET p == req[r].p IN
    /\ At(r, "order")
    /\ payment' = [payment EXCEPT ![p] = "created"]
    /\ GoesTo(r, "save")
    /\ UNCHANGED <<purchase, event, grants, holder, faults>>

\* The response carries the order id: only now can the customer pay.
SaveOrderId(r) ==
    LET p == req[r].p IN
    /\ At(r, "save")
    /\ purchase' = [purchase EXCEPT ![p].order_id = TRUE]
    /\ Ends(r)
    /\ UNCHANGED <<event, payment, grants, holder, faults>>

-----------------------------------------------------------------------------
(* Razorpay and the customer (external) *)

Sent(e) == [e EXCEPT !.sent = TRUE]
Emits(p, k) == event' = [event EXCEPT ![<<p, k>>] = Sent(@)]

\* A payment that failed may still be authorized later by the bank.
PaymentAuthorized(p) ==
    /\ payment[p] \in {"created", "failed"}
    /\ purchase[p].order_id
    /\ payment' = [payment EXCEPT ![p] = "authorized"]
    /\ UNCHANGED <<purchase, event, grants, holder, req, faults>>

PaymentFails(p) ==
    /\ payment[p] = "created"
    /\ purchase[p].order_id
    /\ payment' = [payment EXCEPT ![p] = "failed"]
    /\ Emits(p, "failed")
    /\ UNCHANGED <<purchase, grants, holder, req, faults>>

PaymentCaptured(p) ==
    /\ payment[p] = "authorized"
    /\ payment' = [payment EXCEPT ![p] = "captured"]
    /\ Emits(p, "captured")
    /\ UNCHANGED <<purchase, grants, holder, req, faults>>

PaymentRefunded(p) ==
    /\ payment[p] = "captured"
    /\ payment' = [payment EXCEPT ![p] = "refunded"]
    /\ Emits(p, "refund")
    /\ UNCHANGED <<purchase, grants, holder, req, faults>>

Taken(p) == payment[p] \in {"authorized", "captured", "refunded"}

-----------------------------------------------------------------------------
(* verifyPayment *)

\* Mutant: an order is enough, whatever its signature.
AnySignature(p) == purchase[p].order_id

\* The browser holds a signature that verifies once the payment is authorized.
SignatureVerifies(p) == Taken(p)

\* A purchase that is PAID under this payment id returns alreadyVerified and
\* changes nothing.
VerifyPayment(r, p) ==
    /\ SignatureVerifies(p)
    /\ ~ (purchase[p].payment_id /\ purchase[p].status = "PAID")
    /\ Starts(r, "verify", p, "mark")
    /\ UNCHANGED <<purchase, event, payment, grants, holder, faults>>

-----------------------------------------------------------------------------
(* The transaction of verifyPayment and of handlePaymentCaptured, which      *)
(* locks the row, and the grant that both make after it has committed.       *)

\* Mutant: the row is locked but its credit_granted_at is not looked at.
NeverGranted(p) == FALSE

Granted(p) == purchase[p].credit_granted_at

AlreadyGranted(r) ==
    /\ At(r, "mark")
    /\ Granted(req[r].p)
    /\ Returns(r)
    /\ UNCHANGED <<purchase, event, payment, grants, holder, faults>>

MarkPaid(r) ==
    LET p == req[r].p IN
    /\ At(r, "mark")
    /\ ~ Granted(p)
    /\ purchase' = [purchase EXCEPT ![p].status = "PAID",
                                    ![p].payment_id = TRUE,
                                    ![p].credit_granted_at = TRUE]
    /\ GoesTo(r, "grant")
    /\ UNCHANGED <<event, payment, grants, holder, faults>>

\* grantCredits sets the balance to the plan's minutes: plans do not stack.
GrantCredits(r) ==
    LET p == req[r].p IN
    /\ At(r, "grant")
    /\ grants' = [grants EXCEPT ![p] = @ + 1]
    /\ holder' = [holder EXCEPT ![Owner[p]] = p]
    /\ Returns(r)
    /\ UNCHANGED <<purchase, event, payment, faults>>

-----------------------------------------------------------------------------
(* processWebhook *)

\* Mutant: the switch misses the refund event.
FirstStepNoRefund(k) ==
    CASE k = "captured" -> "mark"
      [] k = "failed" -> "fail"
      [] k = "refund" -> "default"

FirstStep(k) ==
    CASE k = "captured" -> "mark"
      [] k = "failed" -> "fail"
      [] k = "refund" -> "refund"

Acked(e) == [e EXCEPT !.acked = TRUE]

ReceiveProcessed(r, p, k) ==
    /\ At(r, "idle")
    /\ event[<<p, k>>].sent
    /\ event[<<p, k>>].processed
    /\ event' = [event EXCEPT ![<<p, k>>] = Acked(@)]
    /\ UNCHANGED <<purchase, payment, grants, holder, req, faults>>

ReceiveEvent(r, p, k) ==
    /\ event[<<p, k>>].sent
    /\ ~ event[<<p, k>>].processed
    /\ Starts(r, k, p, "store")
    /\ UNCHANGED <<purchase, event, payment, grants, holder, faults>>

\* Mutants: the event is processed, or acknowledged, as soon as it is stored.
StoredAsProcessed(e) == [e EXCEPT !.stored = TRUE, !.processed = TRUE]
StoredAndAcked(e) == [e EXCEPT !.stored = TRUE, !.acked = TRUE]

Stored(e) == [e EXCEPT !.stored = TRUE]

StoreEvent(r) ==
    LET p == req[r].p  k == req[r].op IN
    /\ At(r, "store")
    /\ event' = [event EXCEPT ![<<p, k>>] = Stored(@)]
    /\ GoesTo(r, FirstStep(k))
    /\ UNCHANGED <<purchase, payment, grants, holder, faults>>

\* The lookup is by payment id.  The id is never cleared, so lookup and
\* update are one step taken when the lookup happens.
HandlePaymentFailed(r) ==
    LET p == req[r].p IN
    /\ At(r, "fail")
    /\ purchase' = [purchase EXCEPT ![p].status =
                        IF purchase[p].payment_id THEN "FAILED" ELSE @]
    /\ GoesTo(r, "processed")
    /\ UNCHANGED <<event, payment, grants, holder, faults>>

RefundFindsPurchase(r) ==
    LET p == req[r].p IN
    /\ At(r, "refund")
    /\ purchase[p].payment_id
    /\ purchase' = [purchase EXCEPT ![p].status = "REFUNDED"]
    /\ GoesTo(r, "revoke")
    /\ UNCHANGED <<event, payment, grants, holder, faults>>

RefundFindsNothing(r) ==
    /\ At(r, "refund")
    /\ ~ purchase[req[r].p].payment_id
    /\ GoesTo(r, "processed")
    /\ UNCHANGED <<purchase, event, payment, grants, holder, faults>>

\* revokeCredits clears the balance of the customer, whichever purchase set it.
RevokeCredits(r) ==
    LET p == req[r].p IN
    /\ At(r, "revoke")
    /\ holder' = [holder EXCEPT ![Owner[p]] = NoPurchase]
    /\ GoesTo(r, "processed")
    /\ UNCHANGED <<purchase, event, payment, grants, faults>>

Done(e) == [e EXCEPT !.processed = TRUE, !.acked = TRUE]

MarkProcessed(r) ==
    LET p == req[r].p  k == req[r].op IN
    /\ At(r, "processed")
    /\ event' = [event EXCEPT ![<<p, k>>] = Done(@)]
    /\ Ends(r)
    /\ UNCHANGED <<purchase, payment, grants, holder, faults>>

-----------------------------------------------------------------------------
(* Faults *)

Failed(e) == [e EXCEPT !.error = TRUE, !.acked = TRUE]

\* An await rejects: the database is unreachable, or the package has been
\* deactivated and grantCredits throws.  processWebhook swallows what its
\* handlers throw, records it and answers 200, unless recording it fails too.
RequestFails(r) ==
    LET p == req[r].p  k == req[r].op IN
    /\ ~ At(r, "idle")
    /\ faults < MaxFaults
    /\ faults' = faults + 1
    /\ \/ /\ IsWebhook(r) /\ ~ At(r, "store")
          /\ event' = [event EXCEPT ![<<p, k>>] = Failed(@)]
       \/ UNCHANGED event
    /\ Ends(r)
    /\ UNCHANGED <<purchase, payment, grants, holder>>

\* The server restarts: the requests in progress are gone.
Crash ==
    /\ faults < MaxFaults
    /\ \E r \in Requests : ~ At(r, "idle")
    /\ faults' = faults + 1
    /\ req' = [r \in Requests |-> Idle]
    /\ UNCHANGED <<purchase, event, payment, grants, holder>>

-----------------------------------------------------------------------------

Starting(r) ==
    \E p \in Purchases :
        \/ CreatePurchase(r, p)
        \/ VerifyPayment(r, p)
        \/ \E k \in Kinds : ReceiveEvent(r, p, k) \/ ReceiveProcessed(r, p, k)

Continuing(r) ==
    \/ CreateRazorpayOrder(r)
    \/ SaveOrderId(r)
    \/ AlreadyGranted(r)
    \/ MarkPaid(r)
    \/ GrantCredits(r)
    \/ StoreEvent(r)
    \/ HandlePaymentFailed(r)
    \/ RefundFindsPurchase(r)
    \/ RefundFindsNothing(r)
    \/ RevokeCredits(r)
    \/ MarkProcessed(r)

Razorpay(p) ==
    \/ PaymentAuthorized(p)
    \/ PaymentFails(p)
    \/ PaymentCaptured(p)
    \/ PaymentRefunded(p)

Next ==
    \/ \E r \in Requests : Starting(r) \/ Continuing(r) \/ RequestFails(r)
    \/ \E p \in Purchases : Razorpay(p)
    \/ Crash

\* An await that is pending resolves, and Razorpay delivers an event again
\* until it is acknowledged.  Nothing obliges a customer to do anything.
Deliver(p, k) ==
    /\ ~ event[<<p, k>>].acked
    /\ \E r \in Requests : ReceiveEvent(r, p, k) \/ ReceiveProcessed(r, p, k)

Fairness ==
    /\ \A r \in Requests : WF_vars(Continuing(r))
    /\ \A p \in Purchases, k \in Kinds : SF_vars(Deliver(p, k))

Spec == Init /\ [][Next]_vars

FairSpec == Spec /\ Fairness

-----------------------------------------------------------------------------
(* Properties *)

\* The credits of a purchase are given at most once, however often the browser
\* verifies and however often Razorpay delivers the captured event.
AtMostOneGrant == \A p \in Purchases : grants[p] <= 1

\* A refund that has been recorded is never overwritten by a late verification
\* or a late captured event, which would show the refunded order as PAID.
RefundNotUndone ==
    [][\A p \in Purchases :
          purchase[p].status = "REFUNDED" => purchase'[p].status # "PAID"]_vars

Granting(p) == \E r \in Requests : At(r, "grant") /\ req[r].p = p

\* An event that will be skipped from now on has done its work: once the
\* captured event is recorded as processed the credits are there, or the
\* request that claimed them is still about to give them, or a fault hit it.
ProcessedIsCredited ==
    \A p \in Purchases :
        event[<<p, "captured">>].processed =>
            /\ purchase[p].credit_granted_at
            /\ grants[p] = 1 \/ Granting(p) \/ faults > 0

\* What stops a captured payment from ever being credited: the claim
\* (credit_granted_at) committed but the request died before the grant, or the
\* webhook's error was swallowed.  Both leave a trace in the database.
GrantAbandoned(p) ==
    \/ purchase[p].credit_granted_at /\ grants[p] = 0 /\ ~ Granting(p)
    \/ event[<<p, "captured">>].error

\* Every captured payment is eventually credited, unless it is abandoned.
CapturedIsCredited ==
    \A p \in Purchases :
        payment[p] = "captured" ~> (grants[p] = 1 \/ GrantAbandoned(p))

\* The component implements the ledger that a customer is promised.
Ledger == INSTANCE PaymentLedger WITH
    taken <- {p \in Purchases : Taken(p)},
    refunded <- {p \in Purchases : payment[p] = "refunded"}

LedgerSpec == Ledger!Spec

-----------------------------------------------------------------------------
(* What the code says of itself and does not do *)

Quiescent == \A r \in Requests : At(r, "idle")

\* "already has credits granted, skipping webhook grant": a purchase that is
\* skipped for its credit_granted_at has had its credits.
MarkedMeansGranted ==
    \A p \in Purchases :
        Quiescent /\ purchase[p].credit_granted_at => grants[p] = 1

\* "GAP 5 FIX: Revoke user credits": once the refund of a purchase has been
\* processed, its credits are no longer the customer's balance.
RefundRevokes ==
    \A p \in Purchases :
        Quiescent /\ event[<<p, "refund">>].processed => holder[Owner[p]] # p

=============================================================================
