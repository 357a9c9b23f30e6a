--------------------------- MODULE PaymentsProofs ---------------------------
(***************************************************************************)
(* Proofs about Payments, for any number of purchases, customers, requests *)
(* and faults.                                                             *)
(*                                                                         *)
(* None of the properties is inductive alone: that a purchase is credited  *)
(* once depends on which request still owes the grant, that it is credited *)
(* only after the provider took the money depends on what the events and   *)
(* the requests in progress say of the provider.  IInv collects this.      *)
(***************************************************************************)
EXTENDS Payments, TLAPS

-----------------------------------------------------------------------------
(* Types *)

LEMMA RowUpdates ==
  ASSUME NEW e \in EventRow
  PROVE  /\ Sent(e) \in EventRow
         /\ Stored(e) \in EventRow
         /\ Acked(e) \in EventRow
         /\ Done(e) \in EventRow
         /\ Failed(e) \in EventRow
  BY DEF EventRow, Sent, Stored, Acked, Done, Failed

LEMMA EventUpdate ==
  ASSUME event \in [Purchases \X Kinds -> EventRow],
         NEW p \in Purchases, NEW k \in Kinds, NEW e \in EventRow,
         event' = [event EXCEPT ![<<p, k>>] = e]
  PROVE  event' \in [Purchases \X Kinds -> EventRow]
  OBVIOUS

\* A request in progress works on a purchase, a webhook on one of its events.
LEMMA RequestParts ==
  ASSUME TypeOK, NEW r \in Requests
  PROVE  /\ ~ At(r, "idle") => req[r].p \in Purchases
         /\ IsWebhook(r) => req[r].p \in Purchases /\ req[r].op \in Kinds
         /\ req[r].pc \in {"store", "processed", "fail", "refund", "revoke"} =>
                IsWebhook(r)
  BY DEF TypeOK, Request, At, IsWebhook, Kinds

LEMMA TypeInit == Init => TypeOK
  BY MaxFaultsAssumption
  DEF Init, TypeOK, NoRow, NoEvent, Idle, PurchaseRow, EventRow, Request,
      Status, PaymentStatus, Kinds

LEMMA TypeStarting ==
  ASSUME TypeOK, NEW r \in Requests, Starting(r)
  PROVE  TypeOK'
  <1>1. ASSUME NEW p \in Purchases, CreatePurchase(r, p)
        PROVE  TypeOK'
    <2>1. req' \in [Requests -> Request]
      BY <1>1 DEF CreatePurchase, Starts, TypeOK, Request
    <2>2. purchase' \in [Purchases -> PurchaseRow]
      BY <1>1 DEF CreatePurchase, TypeOK, PurchaseRow, Status
    <2> QED
      BY <1>1, <2>1, <2>2 DEF CreatePurchase, TypeOK
  <1>2. ASSUME NEW p \in Purchases, VerifyPayment(r, p)
        PROVE  TypeOK'
    <2>1. req' \in [Requests -> Request]
      BY <1>2 DEF VerifyPayment, Starts, TypeOK, Request
    <2> QED
      BY <1>2, <2>1 DEF VerifyPayment, TypeOK
  <1>3. ASSUME NEW p \in Purchases, NEW k \in Kinds, ReceiveEvent(r, p, k)
        PROVE  TypeOK'
    <2>1. req' \in [Requests -> Request]
      BY <1>3 DEF ReceiveEvent, Starts, TypeOK, Request, Kinds
    <2> QED
      BY <1>3, <2>1 DEF ReceiveEvent, TypeOK
  <1>4. ASSUME NEW p \in Purchases, NEW k \in Kinds, ReceiveProcessed(r, p, k)
        PROVE  TypeOK'
    <2>1. Acked(event[<<p, k>>]) \in EventRow
      BY RowUpdates DEF TypeOK
    <2>2. event' = [event EXCEPT ![<<p, k>>] = Acked(@)]
      BY <1>4 DEF ReceiveProcessed
    <2>3. event' \in [Purchases \X Kinds -> EventRow]
      BY <2>1, <2>2, EventUpdate DEF TypeOK
    <2> QED
      BY <1>4, <2>3 DEF ReceiveProcessed, TypeOK
  <1> QED
    BY <1>1, <1>2, <1>3, <1>4 DEF Starting

LEMMA TypeContinuing ==
  ASSUME TypeOK, NEW r \in Requests, Continuing(r)
  PROVE  TypeOK'
  <1> DEFINE p == req[r].p
             k == req[r].op
  <1>1. req' \in [Requests -> Request]
    <2>1. CASE CreateRazorpayOrder(r) \/ SaveOrderId(r)
      BY <2>1 DEF CreateRazorpayOrder, SaveOrderId, TypeOK, At, GoesTo, Ends,
                  Idle, Request
    <2>2. CASE AlreadyGranted(r) \/ GrantCredits(r)
      BY <2>2 DEF AlreadyGranted, GrantCredits, TypeOK, At, Returns, GoesTo,
                  Ends, Idle, Request
    <2>3. CASE MarkPaid(r)
      BY <2>3 DEF MarkPaid, TypeOK, At, GoesTo, Request
    <2>4. CASE StoreEvent(r)
      BY <2>4 DEF StoreEvent, FirstStep, TypeOK, At, GoesTo, Request
    <2>5. CASE HandlePaymentFailed(r)
      BY <2>5 DEF HandlePaymentFailed, TypeOK, At, GoesTo, Request
    <2>6. CASE RefundFindsPurchase(r) \/ RefundFindsNothing(r) \/ RevokeCredits(r)
      BY <2>6 DEF RefundFindsPurchase, RefundFindsNothing, RevokeCredits,
                  TypeOK, At, GoesTo, Request
    <2>7. CASE MarkProcessed(r)
      BY <2>7 DEF MarkProcessed, TypeOK, Ends, Idle, Request
    <2> QED
      BY <2>1, <2>2, <2>3, <2>4, <2>5, <2>6, <2>7 DEF Continuing
  <1>2. p \in Purchases
    BY RequestParts
    DEF Continuing, CreateRazorpayOrder, SaveOrderId, AlreadyGranted, MarkPaid,
        GrantCredits, StoreEvent, HandlePaymentFailed, RefundFindsPurchase,
        RefundFindsNothing, RevokeCredits, MarkProcessed, At
  <1>3. purchase' \in [Purchases -> PurchaseRow]
    <2>1. CASE SaveOrderId(r)
      BY ZenonT(60), <1>2, <2>1 DEF SaveOrderId, TypeOK, PurchaseRow
    <2>2. CASE MarkPaid(r)
      BY <1>2, <2>2 DEF MarkPaid, TypeOK, PurchaseRow, Status
    <2>3. CASE HandlePaymentFailed(r)
      BY <1>2, <2>3 DEF HandlePaymentFailed, TypeOK, PurchaseRow, Status
    <2>4. CASE RefundFindsPurchase(r)
      BY <1>2, <2>4 DEF RefundFindsPurchase, TypeOK, PurchaseRow, Status
    <2>5. CASE UNCHANGED purchase
      BY <2>5 DEF TypeOK
    <2> QED
      BY <2>1, <2>2, <2>3, <2>4, <2>5
      DEF Continuing, CreateRazorpayOrder, AlreadyGranted, GrantCredits,
          StoreEvent, RefundFindsNothing, RevokeCredits, MarkProcessed
  <1>4. event' \in [Purchases \X Kinds -> EventRow]
    <2>1. CASE StoreEvent(r)
      <3>1. k \in Kinds
        BY <2>1, RequestParts DEF StoreEvent, At
      <3>2. event[<<p, k>>] \in EventRow
        BY <1>2, <3>1 DEF TypeOK
      <3>3. event' = [event EXCEPT ![<<p, k>>] = Stored(@)]
        BY <2>1 DEF StoreEvent
      <3> QED
        BY <1>2, <3>1, <3>2, <3>3, RowUpdates, EventUpdate DEF TypeOK
    <2>2. CASE MarkProcessed(r)
      <3>1. k \in Kinds
        BY <2>2, RequestParts DEF MarkProcessed, At
      <3>2. event[<<p, k>>] \in EventRow
        BY <1>2, <3>1 DEF TypeOK
      <3>3. event' = [event EXCEPT ![<<p, k>>] = Done(@)]
        BY <2>2 DEF MarkProcessed
      <3> QED
        BY <1>2, <3>1, <3>2, <3>3, RowUpdates, EventUpdate DEF TypeOK
    <2>3. CASE UNCHANGED event
      BY <2>3 DEF TypeOK
    <2> QED
      BY <2>1, <2>2, <2>3
      DEF Continuing, CreateRazorpayOrder, SaveOrderId, AlreadyGranted,
          MarkPaid, GrantCredits, HandlePaymentFailed, RefundFindsPurchase,
          RefundFindsNothing, RevokeCredits
  <1>5. /\ payment' \in [Purchases -> PaymentStatus]
        /\ grants' \in [Purchases -> Nat]
        /\ holder' \in [Users -> Purchases \union {NoPurchase}]
        /\ faults' = faults
    <2>1. CASE CreateRazorpayOrder(r) \/ SaveOrderId(r)
      BY <1>2, <2>1 DEF CreateRazorpayOrder, SaveOrderId, TypeOK, PaymentStatus
    <2>2. CASE AlreadyGranted(r) \/ MarkPaid(r)
      BY <1>2, <2>2 DEF AlreadyGranted, MarkPaid, TypeOK, PaymentStatus
    <2>3. CASE GrantCredits(r)
      <3>1. grants' = [grants EXCEPT ![p] = grants[p] + 1] /\ grants[p] + 1 \in Nat
        BY <1>2, <2>3 DEF GrantCredits, TypeOK
      <3>2. holder' = [holder EXCEPT ![Owner[p]] = p]
        BY <2>3 DEF GrantCredits
      <3>3. holder' \in [Users -> Purchases \union {NoPurchase}]
        BY <1>2, <3>2 DEF TypeOK
      <3> QED
        BY <2>3, <3>1, <3>3 DEF GrantCredits, TypeOK
    <2>4. CASE StoreEvent(r) \/ HandlePaymentFailed(r) \/ MarkProcessed(r)
      BY <1>2, <2>4 DEF StoreEvent, HandlePaymentFailed, MarkProcessed, TypeOK, PaymentStatus
    <2>5. CASE RefundFindsPurchase(r) \/ RefundFindsNothing(r)
      BY <1>2, <2>5 DEF RefundFindsPurchase, RefundFindsNothing, TypeOK, PaymentStatus
    <2>6. CASE RevokeCredits(r)
      BY <1>2, <2>6 DEF RevokeCredits, TypeOK, PaymentStatus
    <2> QED
      BY <2>1, <2>2, <2>3, <2>4, <2>5, <2>6 DEF Continuing
  <1> QED
    BY <1>1, <1>3, <1>4, <1>5 DEF TypeOK

LEMMA TypeFault ==
  ASSUME TypeOK, Crash \/ \E r \in Requests : RequestFails(r)
  PROVE  TypeOK'
  <1>1. CASE Crash
    BY <1>1, MaxFaultsAssumption DEF Crash, TypeOK, Idle, Request
  <1>2. ASSUME NEW r \in Requests, RequestFails(r)
        PROVE  TypeOK'
    <2>1. req' \in [Requests -> Request]
      BY <1>2 DEF RequestFails, TypeOK, Ends, Idle, Request
    <2>2. event' \in [Purchases \X Kinds -> EventRow]
      <3>1. CASE UNCHANGED event
        BY <3>1 DEF TypeOK
      <3>2. CASE ~ UNCHANGED event
        <4>1. req[r].p \in Purchases /\ req[r].op \in Kinds
          BY <1>2, <3>2, RequestParts DEF RequestFails
        <4>2. event[<<req[r].p, req[r].op>>] \in EventRow
          BY <4>1 DEF TypeOK
        <4>3. event' = [event EXCEPT ![<<req[r].p, req[r].op>>] = Failed(@)]
          BY <1>2, <3>2 DEF RequestFails
        <4> QED
          BY <4>1, <4>2, <4>3, RowUpdates, EventUpdate DEF TypeOK
      <3> QED
        BY <3>1, <3>2
    <2> QED
      BY <1>2, <2>1, <2>2, MaxFaultsAssumption DEF RequestFails, TypeOK
  <1> QED
    BY <1>1, <1>2

LEMMA TypeRazorpay ==
  ASSUME TypeOK, NEW p \in Purchases, Razorpay(p)
  PROVE  TypeOK'
  <1>1. payment' \in [Purchases -> PaymentStatus]
    BY DEF Razorpay, PaymentAuthorized, PaymentFails, PaymentCaptured,
           PaymentRefunded, TypeOK, PaymentStatus
  <1>2. event' \in [Purchases \X Kinds -> EventRow]
    <2>1. ASSUME NEW k \in Kinds, Emits(p, k)
          PROVE  event' \in [Purchases \X Kinds -> EventRow]
      <3>1. event[<<p, k>>] \in EventRow
        BY DEF TypeOK
      <3>2. event' = [event EXCEPT ![<<p, k>>] = Sent(@)]
        BY <2>1 DEF Emits
      <3> QED
        BY <3>1, <3>2, RowUpdates, EventUpdate DEF TypeOK
    <2> QED
      BY <2>1 DEF Razorpay, PaymentAuthorized, PaymentFails, PaymentCaptured,
                  PaymentRefunded, TypeOK, Kinds
  <1> QED
    BY <1>1, <1>2
    DEF Razorpay, PaymentAuthorized, PaymentFails, PaymentCaptured,
        PaymentRefunded, TypeOK

LEMMA TypeStep == TypeOK /\ [Next]_vars => TypeOK'
  <1>1. CASE UNCHANGED vars
    BY <1>1 DEF vars, TypeOK
  <1> QED
    BY <1>1, TypeStarting, TypeContinuing, TypeFault, TypeRazorpay DEF Next

\* The rows, the events and the requests always have their types: a request
\* only ever stands at a step of its own operation.
THEOREM TypeCorrect == Spec => []TypeOK
  BY TypeInit, TypeStep, PTL DEF Spec

-----------------------------------------------------------------------------
(* The inductive invariant *)

\* An order is created at the provider by one request, before any payment.
OrderInv ==
    /\ \A p \in Purchases : purchase[p].status = "ABSENT" => payment[p] = "none"
    /\ \A r \in Requests :
        At(r, "order") =>
            /\ purchase[req[r].p].status # "ABSENT"
            /\ payment[req[r].p] = "none"
    /\ \A r, s \in Requests :
        At(r, "order") /\ At(s, "order") /\ req[r].p = req[s].p => r = s

\* What the events and the requests say of the provider is true of it.
ProviderInv ==
    /\ \A p \in Purchases :
        /\ event[<<p, "captured">>].sent => Taken(p)
        /\ event[<<p, "refund">>].sent => payment[p] = "refunded"
    /\ \A r \in Requests :
        /\ req[r].op \in {"verify", "captured"} => Taken(req[r].p)
        /\ req[r].op = "refund" => payment[req[r].p] = "refunded"

\* The claim (credit_granted_at) precedes the grant, one request holds it.
GrantInv ==
    /\ \A p \in Purchases :
        /\ grants[p] \in {0, 1}
        /\ grants[p] = 1 => Granted(p)
        /\ purchase[p].payment_id => Granted(p)
        /\ purchase[p].status = "REFUNDED" => Granted(p)
    /\ \A r \in Requests :
        At(r, "grant") => Granted(req[r].p) /\ grants[req[r].p] = 0
    /\ \A r, s \in Requests :
        At(r, "grant") /\ At(s, "grant") /\ req[r].p = req[s].p => r = s

\* A claim without a grant has a request that owes it, unless a fault struck.
ClaimInv ==
    /\ \A p \in Purchases :
        Granted(p) => grants[p] = 1 \/ Granting(p) \/ faults > 0
    /\ \A p \in Purchases :
        event[<<p, "captured">>].processed => Granted(p)
    /\ \A r \in Requests :
        At(r, "processed") /\ req[r].op = "captured" => Granted(req[r].p)

IInv == TypeOK /\ OrderInv /\ ProviderInv /\ GrantInv /\ ClaimInv

LEMMA InvInit == Init => IInv
  <1> SUFFICES ASSUME Init PROVE OrderInv /\ ProviderInv /\ GrantInv /\ ClaimInv
    BY TypeInit DEF IInv
  <1>1. \A p \in Purchases, k \in Kinds : event[<<p, k>>] = NoEvent
    BY DEF Init
  <1> QED
    BY <1>1 DEF Init, OrderInv, ProviderInv, GrantInv, ClaimInv, At, Granted,
       Idle, NoRow, NoEvent, Kinds

\* What a step of a request in progress leaves alone.
LEMMA ContinuingFrame ==
  ASSUME TypeOK, NEW r \in Requests, Continuing(r)
  PROVE  /\ \A s \in Requests \ {r} : req'[s] = req[s]
         /\ req'[r] = Idle \/ (req'[r].op = req[r].op /\ req'[r].p = req[r].p)
         /\ ~ At(r, "order")'
         /\ req[r].p \in Purchases
         /\ At(r, "grant")' => MarkPaid(r)
  <1> USE DEF TypeOK, At, GoesTo, Ends, Idle, Request
  <1>1. CASE CreateRazorpayOrder(r) \/ SaveOrderId(r)
    BY <1>1 DEF CreateRazorpayOrder, SaveOrderId
  <1>2. CASE AlreadyGranted(r) \/ GrantCredits(r)
    BY <1>2 DEF AlreadyGranted, GrantCredits, Returns
  <1>3. CASE MarkPaid(r)
    BY <1>3 DEF MarkPaid
  <1>4. CASE StoreEvent(r)
    BY <1>4 DEF StoreEvent, FirstStep
  <1>5. CASE \/ HandlePaymentFailed(r)
             \/ RefundFindsPurchase(r)
             \/ RefundFindsNothing(r)
             \/ RevokeCredits(r)
    BY <1>5 DEF HandlePaymentFailed, RefundFindsPurchase, RefundFindsNothing,
                RevokeCredits
  <1>6. CASE MarkProcessed(r)
    BY <1>6 DEF MarkProcessed
  <1> QED
    BY <1>1, <1>2, <1>3, <1>4, <1>5, <1>6 DEF Continuing

\* So does the first step of a request other than createOrder.
LEMMA StartingFrame ==
  ASSUME TypeOK, NEW r \in Requests, Starting(r),
         ~ \E p \in Purchases : CreatePurchase(r, p)
  PROVE  /\ \A s \in Requests \ {r} : req'[s] = req[s]
         /\ req'[r].pc \in {"idle", "mark", "store"}
         /\ UNCHANGED <<purchase, payment, grants, holder, faults>>
  <1>1. ASSUME NEW p \in Purchases, VerifyPayment(r, p)
        PROVE  /\ req' = [req EXCEPT ![r] = [op |-> "verify", p |-> p, pc |-> "mark"]]
               /\ UNCHANGED <<purchase, payment, grants, holder, faults>>
    BY <1>1 DEF VerifyPayment, Starts
  <1>2. ASSUME NEW p \in Purchases, NEW k \in Kinds, ReceiveEvent(r, p, k)
        PROVE  /\ req' = [req EXCEPT ![r] = [op |-> k, p |-> p, pc |-> "store"]]
               /\ UNCHANGED <<purchase, payment, grants, holder, faults>>
    BY <1>2 DEF ReceiveEvent, Starts
  <1>3. ASSUME NEW p \in Purchases, NEW k \in Kinds, ReceiveProcessed(r, p, k)
        PROVE  /\ req[r].pc = "idle"
               /\ UNCHANGED <<req, purchase, payment, grants, holder, faults>>
    BY <1>3 DEF ReceiveProcessed, At
  <1>4. req \in [Requests -> Request]
    BY DEF TypeOK
  <1> QED
    BY <1>1, <1>2, <1>3, <1>4 DEF Starting

LEMMA OrderStep ==
  ASSUME IInv, [Next]_vars
  PROVE  OrderInv'
  <1>1. ASSUME NEW r \in Requests, Starting(r)
        PROVE  OrderInv'
    <2>1. ASSUME NEW p \in Purchases, CreatePurchase(r, p)
          PROVE  OrderInv'
      <3>1. /\ \A s \in Requests \ {r} : req'[s] = req[s]
            /\ req'[r].p = p
            /\ \A q \in Purchases \ {p} : purchase'[q] = purchase[q]
            /\ purchase[p].status = "ABSENT"
            /\ purchase'[p].status = "PENDING"
            /\ UNCHANGED payment
        BY <2>1 DEF CreatePurchase, Starts, IInv, TypeOK, PurchaseRow
      <3> QED
        BY <3>1 DEF IInv, TypeOK, Request, OrderInv, At
    <2>2. CASE ~ \E p \in Purchases : CreatePurchase(r, p)
      <3>1. /\ \A s \in Requests \ {r} : req'[s] = req[s]
            /\ ~ At(r, "order")'
            /\ UNCHANGED <<purchase, payment>>
        BY <1>1, <2>2, StartingFrame DEF IInv, At
      <3> QED
        BY <3>1 DEF IInv, OrderInv, At
    <2> QED
      BY <2>1, <2>2
  <1>2. ASSUME NEW r \in Requests, Continuing(r)
        PROVE  OrderInv'
    <2>1. \A p \in Purchases :
             /\ purchase'[p].status = "ABSENT" => purchase[p].status = "ABSENT"
             /\ purchase[p].status # "ABSENT" => purchase'[p].status # "ABSENT"
      <3>1. CASE SaveOrderId(r)
        BY <3>1 DEF SaveOrderId, IInv, TypeOK, PurchaseRow
      <3>2. CASE MarkPaid(r)
        BY <3>2 DEF MarkPaid, IInv, TypeOK, PurchaseRow
      <3>3. CASE HandlePaymentFailed(r)
        BY <3>3 DEF HandlePaymentFailed, IInv, TypeOK, PurchaseRow
      <3>4. CASE RefundFindsPurchase(r)
        BY <3>4 DEF RefundFindsPurchase, IInv, TypeOK, PurchaseRow
      <3>5. CASE UNCHANGED purchase
        BY <3>5
      <3> QED
        BY <1>2, <3>1, <3>2, <3>3, <3>4, <3>5
        DEF Continuing, CreateRazorpayOrder, AlreadyGranted, GrantCredits,
            StoreEvent, RefundFindsNothing, RevokeCredits, MarkProcessed
    <2>2. CASE CreateRazorpayOrder(r)
      <3>1. /\ At(r, "order")
            /\ payment' = [payment EXCEPT ![req[r].p] = "created"]
            /\ UNCHANGED purchase
        BY <2>2 DEF CreateRazorpayOrder
      <3>2. \A s \in Requests : At(s, "order") => req[s].p \in Purchases
        BY DEF IInv, TypeOK, Request, At
      <3>3. purchase[req[r].p].status # "ABSENT"
        BY <3>1 DEF IInv, OrderInv
      <3>4. \A s \in Requests :
              At(s, "order")' => At(s, "order") /\ s # r /\ req'[s].p = req[s].p
        BY <1>2, ContinuingFrame DEF IInv, At
      <3> QED
        BY <3>1, <3>2, <3>3, <3>4 DEF IInv, TypeOK, OrderInv, At
    <2>3. CASE UNCHANGED payment
      <3>1. \A s \in Requests :
              At(s, "order")' => At(s, "order") /\ s # r /\ req'[s].p = req[s].p
        BY <1>2, ContinuingFrame DEF IInv, At
      <3>2. \A s \in Requests : At(s, "order") => req[s].p \in Purchases
        BY DEF IInv, TypeOK, Request, At
      <3> QED
        BY <2>1, <2>3, <3>1, <3>2 DEF IInv, OrderInv, At
    <2> QED
      BY <1>2, <2>2, <2>3
      DEF Continuing, SaveOrderId, AlreadyGranted, MarkPaid, GrantCredits,
          StoreEvent, HandlePaymentFailed, RefundFindsPurchase,
          RefundFindsNothing, RevokeCredits, MarkProcessed
  <1>3. ASSUME NEW p \in Purchases, Razorpay(p)
        PROVE  OrderInv'
    <2>1. /\ payment[p] # "none"
          /\ \A q \in Purchases \ {p} : payment'[q] = payment[q]
          /\ UNCHANGED <<purchase, req>>
      BY <1>3 DEF Razorpay, PaymentAuthorized, PaymentFails, PaymentCaptured,
                  PaymentRefunded, IInv, TypeOK
    <2>2. \A q \in Purchases : payment[q] = "none" => payment'[q] = "none"
      BY <2>1
    <2>3. \A r \in Requests : At(r, "order") => req[r].p \in Purchases
      BY DEF IInv, TypeOK, Request, At
    <2> QED
      BY <2>1, <2>2, <2>3 DEF IInv, OrderInv, At
  <1>4. ASSUME NEW r \in Requests, RequestFails(r)
        PROVE OrderInv'
    BY <1>4 DEF RequestFails, Ends, Idle, IInv, TypeOK, OrderInv, At
  <1>5. CASE Crash
    BY <1>5 DEF Crash, IInv, OrderInv, At, Idle
  <1>6. CASE UNCHANGED vars
    BY <1>6 DEF vars, IInv, OrderInv, At
  <1> QED
    BY <1>1, <1>2, <1>3, <1>4, <1>5, <1>6 DEF Next

\* The provider never takes back what it has said of a payment.
LEMMA ProviderMonotone ==
  ASSUME IInv, [Next]_vars, NEW p \in Purchases
  PROVE  /\ Taken(p) => Taken(p)'
         /\ payment[p] = "refunded" => payment'[p] = "refunded"
  <1>1. ASSUME NEW r \in Requests, CreateRazorpayOrder(r)
        PROVE  payment[p] # "none" => payment'[p] = payment[p]
    <2>1. payment[req[r].p] = "none"
      BY <1>1 DEF CreateRazorpayOrder, IInv, OrderInv
    <2> QED
      BY <1>1, <2>1 DEF CreateRazorpayOrder, IInv, TypeOK
  <1>2. ASSUME NEW q \in Purchases, Razorpay(q)
        PROVE  /\ Taken(p) => Taken(p)'
               /\ payment[p] = "refunded" => payment'[p] = "refunded"
    BY <1>2 DEF Razorpay, PaymentAuthorized, PaymentFails, PaymentCaptured,
                PaymentRefunded, Taken, IInv, TypeOK
  <1>3. CASE UNCHANGED payment
    BY <1>3 DEF Taken
  <1> QED
    BY ZenonT(60), <1>1, <1>2, <1>3
    DEF Taken, Next, vars, Starting, CreatePurchase, VerifyPayment,
        ReceiveEvent, ReceiveProcessed, Continuing, SaveOrderId,
        AlreadyGranted, MarkPaid, GrantCredits, StoreEvent,
        HandlePaymentFailed, RefundFindsPurchase, RefundFindsNothing,
        RevokeCredits, MarkProcessed, RequestFails, Crash

\* Only the provider sends an event, only the end of a webhook processes one.
LEMMA EventFrame ==
  ASSUME TypeOK, [Next]_vars, NEW p \in Purchases, NEW k \in Kinds
  PROVE  /\ event'[<<p, k>>].sent => event[<<p, k>>].sent \/ (Razorpay(p) /\ Emits(p, k))
         /\ event'[<<p, k>>].processed =>
              \/ event[<<p, k>>].processed
              \/ \E r \in Requests :
                    MarkProcessed(r) /\ req[r].p = p /\ req[r].op = k
  <1> DEFINE G == /\ event'[<<p, k>>].sent => event[<<p, k>>].sent \/ (Razorpay(p) /\ Emits(p, k))
                  /\ event'[<<p, k>>].processed =>
                       \/ event[<<p, k>>].processed
                       \/ \E r \in Requests :
                             MarkProcessed(r) /\ req[r].p = p /\ req[r].op = k
  <1>0. \A d \in Purchases \X Kinds : event[d] \in EventRow
    BY DEF TypeOK
  <1>1. ASSUME NEW r \in Requests, NEW q \in Purchases, NEW j \in Kinds,
               ReceiveProcessed(r, q, j)
        PROVE  G
    <2>1. event'[<<p, k>>] \in {event[<<p, k>>], Acked(event[<<p, k>>])}
      BY <1>1 DEF ReceiveProcessed, TypeOK
    <2> QED
      BY <1>0, <2>1 DEF Acked, EventRow
  <1>2. ASSUME NEW r \in Requests, StoreEvent(r)
        PROVE  G
    <2>1. event'[<<p, k>>] \in {event[<<p, k>>], Stored(event[<<p, k>>])}
      BY <1>2 DEF StoreEvent, TypeOK
    <2> QED
      BY <1>0, <2>1 DEF Stored, EventRow
  <1>3. ASSUME NEW r \in Requests, MarkProcessed(r)
        PROVE  G
    <2>1. req[r].p \in Purchases /\ req[r].op \in Kinds
      BY <1>3, RequestParts DEF MarkProcessed, At
    <2>2. event' = [event EXCEPT ![<<req[r].p, req[r].op>>] = Done(@)]
      BY <1>3 DEF MarkProcessed
    <2>3. CASE req[r].p = p /\ req[r].op = k
      <3>1. event'[<<p, k>>] = Done(event[<<p, k>>])
        BY <2>2, <2>3 DEF TypeOK
      <3> QED
        BY <1>0, <1>3, <2>3, <3>1 DEF Done, EventRow
    <2>4. CASE ~ (req[r].p = p /\ req[r].op = k)
      <3>1. event'[<<p, k>>] = event[<<p, k>>]
        BY <2>1, <2>2, <2>4 DEF TypeOK
      <3> QED
        BY <3>1
    <2> QED
      BY <2>3, <2>4
  <1>4. ASSUME NEW r \in Requests, RequestFails(r)
        PROVE  G
    <2>1. event'[<<p, k>>] \in {event[<<p, k>>], Failed(event[<<p, k>>])}
      BY <1>4 DEF RequestFails, TypeOK
    <2> QED
      BY <1>0, <2>1 DEF Failed, EventRow
  <1>5. ASSUME NEW q \in Purchases, Razorpay(q)
        PROVE  G
    <2>1. ASSUME NEW j \in Kinds, Emits(q, j)
          PROVE  G
      <3>1. CASE q = p /\ j = k
        <4>1. event'[<<p, k>>] = Sent(event[<<p, k>>])
          BY <2>1, <3>1 DEF Emits, TypeOK
        <4> QED
          BY <1>0, <1>5, <2>1, <3>1, <4>1 DEF Sent, EventRow
      <3>2. CASE ~ (q = p /\ j = k)
        <4>1. event'[<<p, k>>] = event[<<p, k>>]
          BY <2>1, <3>2 DEF Emits, TypeOK
        <4> QED
          BY <4>1
      <3> QED
        BY <3>1, <3>2
    <2>2. CASE UNCHANGED event
      BY <2>2
    <2> QED
      BY <1>5, <2>1, <2>2
      DEF Razorpay, PaymentAuthorized, PaymentFails, PaymentCaptured,
          PaymentRefunded, Kinds
  <1>6. CASE UNCHANGED event
    BY <1>6
  <1> QED
    BY <1>1, <1>2, <1>3, <1>4, <1>5, <1>6
    DEF Next, vars, Starting, CreatePurchase, VerifyPayment, ReceiveEvent,
        Continuing, CreateRazorpayOrder, SaveOrderId, AlreadyGranted, MarkPaid,
        GrantCredits, HandlePaymentFailed, RefundFindsPurchase,
        RefundFindsNothing, RevokeCredits, Crash

\* A request keeps its operation and its purchase until it ends.
LEMMA RequestFrame ==
  ASSUME TypeOK, [Next]_vars, NEW r \in Requests
  PROVE  \/ req'[r] = Idle
         \/ req'[r].op = req[r].op /\ req'[r].p = req[r].p
         \/ req'[r].op = "createOrder"
         \/ VerifyPayment(r, req'[r].p) /\ req'[r].op = "verify" /\ req'[r].p \in Purchases
         \/ /\ ReceiveEvent(r, req'[r].p, req'[r].op)
            /\ req'[r].p \in Purchases
            /\ req'[r].op \in Kinds
  <1> DEFINE G == \/ req'[r] = Idle
                  \/ req'[r].op = req[r].op /\ req'[r].p = req[r].p
                  \/ req'[r].op = "createOrder"
                  \/ VerifyPayment(r, req'[r].p) /\ req'[r].op = "verify" /\ req'[r].p \in Purchases
                  \/ /\ ReceiveEvent(r, req'[r].p, req'[r].op)
                     /\ req'[r].p \in Purchases
                     /\ req'[r].op \in Kinds
  <1>1. ASSUME NEW s \in Requests, Starting(s)
        PROVE  G
    <2>1. ASSUME NEW p \in Purchases, CreatePurchase(s, p)
          PROVE  G
      BY <2>1 DEF CreatePurchase, Starts, TypeOK
    <2>2. ASSUME NEW p \in Purchases, VerifyPayment(s, p)
          PROVE  G
      <3>1. req' = [req EXCEPT ![s] = [op |-> "verify", p |-> p, pc |-> "mark"]]
        BY <2>2 DEF VerifyPayment, Starts
      <3> QED
        BY <2>2, <3>1 DEF TypeOK
    <2>3. ASSUME NEW p \in Purchases, NEW k \in Kinds, ReceiveEvent(s, p, k)
          PROVE  G
      <3>1. req' = [req EXCEPT ![s] = [op |-> k, p |-> p, pc |-> "store"]]
        BY <2>3 DEF ReceiveEvent, Starts
      <3> QED
        BY <2>3, <3>1 DEF TypeOK
    <2>4. ASSUME NEW p \in Purchases, NEW k \in Kinds, ReceiveProcessed(s, p, k)
          PROVE  G
      BY <2>4 DEF ReceiveProcessed
    <2> QED
      BY <1>1, <2>1, <2>2, <2>3, <2>4 DEF Starting
  <1>2. ASSUME NEW s \in Requests, Continuing(s)
        PROVE  G
    BY <1>2, ContinuingFrame
  <1>3. ASSUME NEW s \in Requests, RequestFails(s)
        PROVE  G
    BY <1>3 DEF RequestFails, Ends, TypeOK
  <1>4. CASE Crash
    BY <1>4 DEF Crash
  <1>5. CASE UNCHANGED req
    BY <1>5
  <1> QED
    BY <1>1, <1>2, <1>3, <1>4, <1>5
    DEF Next, vars, Razorpay, PaymentAuthorized, PaymentFails,
        PaymentCaptured, PaymentRefunded

LEMMA ProviderStep ==
  ASSUME IInv, [Next]_vars
  PROVE  ProviderInv'
  <1>1. ASSUME NEW p \in Purchases, event'[<<p, "captured">>].sent
        PROVE  Taken(p)'
    <2>1. CASE event[<<p, "captured">>].sent
      BY <2>1, ProviderMonotone DEF IInv, ProviderInv
    <2>2. CASE Razorpay(p) /\ Emits(p, "captured") /\ ~ event[<<p, "captured">>].sent
      <3>1. event'[<<p, "captured">>] # event[<<p, "captured">>]
        BY <1>1, <2>2
      <3>2. CASE PaymentCaptured(p)
        BY <3>2 DEF PaymentCaptured, Taken, IInv, TypeOK
      <3>3. CASE PaymentFails(p) \/ PaymentRefunded(p)
        BY <3>1, <3>3 DEF PaymentFails, PaymentRefunded, Emits, IInv, TypeOK, Kinds
      <3> QED
        BY <2>2, <3>1, <3>2, <3>3 DEF Razorpay, PaymentAuthorized
    <2> QED
      BY <1>1, <2>1, <2>2, EventFrame DEF IInv, Kinds
  <1>2. ASSUME NEW p \in Purchases, event'[<<p, "refund">>].sent
        PROVE  payment'[p] = "refunded"
    <2>1. CASE event[<<p, "refund">>].sent
      BY <2>1, ProviderMonotone DEF IInv, ProviderInv
    <2>2. CASE Razorpay(p) /\ Emits(p, "refund") /\ ~ event[<<p, "refund">>].sent
      <3>1. event'[<<p, "refund">>] # event[<<p, "refund">>]
        BY <1>2, <2>2
      <3>2. CASE PaymentRefunded(p)
        BY <3>2 DEF PaymentRefunded, IInv, TypeOK
      <3>3. CASE PaymentFails(p) \/ PaymentCaptured(p)
        BY <3>1, <3>3 DEF PaymentFails, PaymentCaptured, Emits, IInv, TypeOK, Kinds
      <3> QED
        BY <2>2, <3>1, <3>2, <3>3 DEF Razorpay, PaymentAuthorized
    <2> QED
      BY <1>2, <2>1, <2>2, EventFrame DEF IInv, Kinds
  <1>3. ASSUME NEW r \in Requests
        PROVE  /\ req'[r].op \in {"verify", "captured"} => Taken(req[r].p)'
               /\ req'[r].op = "refund" => payment'[req'[r].p] = "refunded"
    <2>1. CASE req'[r] = Idle
      BY <2>1 DEF Idle
    <2>2. CASE req'[r].op = req[r].op /\ req'[r].p = req[r].p
      <3>1. req[r].op \in {"verify", "captured", "refund"} => req[r].p \in Purchases
        BY DEF IInv, TypeOK, Request
      <3> QED
        BY <2>2, <3>1, ProviderMonotone DEF IInv, ProviderInv, Taken
    <2>3. CASE req'[r].op = "createOrder"
      BY <2>3
    <2>4. CASE VerifyPayment(r, req'[r].p) /\ req'[r].op = "verify" /\ req'[r].p \in Purchases
      BY <2>4, ProviderMonotone DEF VerifyPayment, SignatureVerifies, Taken
    <2>5. CASE /\ ReceiveEvent(r, req'[r].p, req'[r].op)
               /\ req'[r].p \in Purchases
               /\ req'[r].op \in Kinds
      <3>1. event[<<req'[r].p, req'[r].op>>].sent
        BY <2>5 DEF ReceiveEvent
      <3> QED
        BY <2>5, <3>1, ProviderMonotone DEF IInv, ProviderInv, Taken, Kinds
    <2> QED
      BY <2>1, <2>2, <2>3, <2>4, <2>5, RequestFrame DEF IInv
  <1> QED
    BY <1>1, <1>2, <1>3 DEF ProviderInv, Taken

\* Only the locked transaction claims a purchase, and no step unclaims it.
LEMMA RowFrame ==
  ASSUME TypeOK, [Next]_vars, NEW p \in Purchases
  PROVE  /\ Granted(p) => Granted(p)'
         /\ Granted(p)' => Granted(p) \/ \E r \in Requests : MarkPaid(r) /\ req[r].p = p
         /\ purchase'[p].payment_id => purchase[p].payment_id \/ Granted(p)'
         /\ purchase'[p].status = "REFUNDED" =>
              purchase[p].status = "REFUNDED" \/ purchase[p].payment_id
         /\ purchase'[p].status = "PAID" =>
              purchase[p].status = "PAID" \/ ~ Granted(p)
  <1> DEFINE G == /\ Granted(p) => Granted(p)'
                  /\ Granted(p)' => Granted(p) \/ \E r \in Requests : MarkPaid(r) /\ req[r].p = p
                  /\ purchase'[p].payment_id => purchase[p].payment_id \/ Granted(p)'
                  /\ purchase'[p].status = "REFUNDED" =>
                       purchase[p].status = "REFUNDED" \/ purchase[p].payment_id
                  /\ purchase'[p].status = "PAID" =>
                       purchase[p].status = "PAID" \/ ~ Granted(p)
  <1>0. purchase \in [Purchases -> PurchaseRow]
    BY DEF TypeOK
  <1>1. ASSUME NEW r \in Requests, NEW q \in Purchases, CreatePurchase(r, q)
        PROVE  G
    BY <1>0, <1>1 DEF CreatePurchase, PurchaseRow, Granted
  <1>2. ASSUME NEW r \in Requests, SaveOrderId(r)
        PROVE  G
    BY <1>0, <1>2 DEF SaveOrderId, PurchaseRow, Granted
  <1>3. ASSUME NEW r \in Requests, MarkPaid(r)
        PROVE  G
    <2>1. purchase' = [purchase EXCEPT ![req[r].p].status = "PAID",
                                       ![req[r].p].payment_id = TRUE,
                                       ![req[r].p].credit_granted_at = TRUE]
      BY <1>3 DEF MarkPaid
    <2>2. ~ Granted(req[r].p)
      BY <1>3 DEF MarkPaid
    <2>3. CASE req[r].p = p
      BY <1>0, <1>3, <2>1, <2>2, <2>3 DEF PurchaseRow, Granted
    <2>4. CASE req[r].p # p
      BY <1>0, <2>1, <2>4 DEF PurchaseRow, Granted
    <2> QED
      BY <2>3, <2>4
  <1>4. ASSUME NEW r \in Requests, HandlePaymentFailed(r)
        PROVE  G
    BY <1>0, <1>4 DEF HandlePaymentFailed, PurchaseRow, Granted
  <1>5. ASSUME NEW r \in Requests, RefundFindsPurchase(r)
        PROVE  G
    BY <1>0, <1>5 DEF RefundFindsPurchase, PurchaseRow, Granted
  <1>6. CASE UNCHANGED purchase
    BY <1>6 DEF Granted
  <1> QED
    BY <1>1, <1>2, <1>3, <1>4, <1>5, <1>6
    DEF Next, vars, Starting, VerifyPayment, ReceiveEvent, ReceiveProcessed,
        Continuing, CreateRazorpayOrder, AlreadyGranted, GrantCredits,
        StoreEvent, RefundFindsNothing, RevokeCredits, MarkProcessed,
        RequestFails, Crash, Razorpay, PaymentAuthorized, PaymentFails,
        PaymentCaptured, PaymentRefunded

\* A request arrives at the grant by claiming, and a grant ends there.
LEMMA GrantFrame ==
  ASSUME TypeOK, [Next]_vars, NEW r \in Requests, At(r, "grant")'
  PROVE  /\ req'[r].p = req[r].p
         /\ MarkPaid(r) \/ At(r, "grant")
         /\ ~ GrantCredits(r)
  <1>1. CASE UNCHANGED req
    BY <1>1 DEF At, GrantCredits, Returns, Ends, GoesTo, Idle, TypeOK, Request
  <1>2. ASSUME NEW s \in Requests, Starting(s)
        PROVE  req'[r] = req[r] /\ req'[r] # Idle
    <2>1. ASSUME NEW p \in Purchases, CreatePurchase(s, p)
          PROVE  req' = [req EXCEPT ![s] = [op |-> "createOrder", p |-> p, pc |-> "order"]]
      BY <2>1 DEF CreatePurchase, Starts
    <2>2. CASE ~ \E p \in Purchases : CreatePurchase(s, p)
      BY <1>2, <2>2, StartingFrame DEF At, Idle
    <2> QED
      BY <2>1, <2>2 DEF At, Idle, TypeOK
  <1>3. ASSUME NEW s \in Requests, Continuing(s)
        PROVE  /\ req'[r].p = req[r].p
               /\ MarkPaid(r) \/ At(r, "grant")
    BY <1>3, ContinuingFrame DEF At, Idle
  <1>4. ASSUME NEW s \in Requests, RequestFails(s)
        PROVE  req'[r] = req[r] /\ req'[r] # Idle
    BY <1>4 DEF RequestFails, Ends, Idle, At, TypeOK
  <1>5. ~ Crash
    BY DEF Crash, At, Idle
  <1>6. ~ GrantCredits(r)
    BY DEF GrantCredits, Returns, Ends, GoesTo, Idle, At, TypeOK, Request
  <1> QED
    BY <1>1, <1>2, <1>3, <1>4, <1>5, <1>6
    DEF Next, vars, Razorpay, PaymentAuthorized, PaymentFails,
        PaymentCaptured, PaymentRefunded, At

\* Only the owner of a claim grants, and once.
LEMMA GrantsFrame ==
  ASSUME TypeOK, [Next]_vars, NEW p \in Purchases
  PROVE  \/ grants'[p] = grants[p]
         \/ /\ grants'[p] = grants[p] + 1
            /\ \E r \in Requests : GrantCredits(r) /\ req[r].p = p
  <1>1. ASSUME NEW r \in Requests, GrantCredits(r)
        PROVE  grants'[p] = grants[p] \/ (grants'[p] = grants[p] + 1 /\ req[r].p = p)
    BY <1>1 DEF GrantCredits, TypeOK
  <1>2. CASE UNCHANGED grants
    BY <1>2
  <1> QED
    BY ZenonT(60), <1>1, <1>2
    DEF Next, vars, Starting, CreatePurchase, VerifyPayment, ReceiveEvent,
        ReceiveProcessed, Continuing, CreateRazorpayOrder, SaveOrderId,
        AlreadyGranted, MarkPaid, StoreEvent, HandlePaymentFailed,
        RefundFindsPurchase, RefundFindsNothing, RevokeCredits, MarkProcessed,
        RequestFails, Crash, Razorpay, PaymentAuthorized, PaymentFails,
        PaymentCaptured, PaymentRefunded

LEMMA GrantStep ==
  ASSUME IInv, [Next]_vars
  PROVE  GrantInv'
  <1> USE DEF IInv
  <1>1. ASSUME NEW p \in Purchases
        PROVE  /\ grants'[p] \in {0, 1}
               /\ grants'[p] = 1 => Granted(p)'
               /\ purchase'[p].payment_id => Granted(p)'
               /\ purchase'[p].status = "REFUNDED" => Granted(p)'
    <2>1. ASSUME NEW r \in Requests, GrantCredits(r), req[r].p = p
          PROVE  grants[p] = 0 /\ Granted(p)
      BY <2>1 DEF GrantCredits, GrantInv
    <2> QED
      BY <2>1, GrantsFrame, RowFrame DEF GrantInv
  <1>2. ASSUME NEW r \in Requests, At(r, "grant")'
        PROVE  /\ req[r].p \in Purchases
               /\ req'[r].p = req[r].p
               /\ Granted(req[r].p)'
               /\ grants'[req[r].p] = 0
    <2>1. req[r].p \in Purchases
      BY <1>2, GrantFrame DEF TypeOK, Request, At, MarkPaid
    <2>2. CASE MarkPaid(r)
      <3>1. ~ Granted(req[r].p)
        BY <2>2 DEF MarkPaid
      <3>2. grants[req[r].p] = 0
        BY <2>1, <3>1 DEF GrantInv
      <3>3. grants' = grants /\ Granted(req[r].p)'
        BY SMTT(20), ZenonT(40), <2>1, <2>2 DEF MarkPaid, Granted, TypeOK, PurchaseRow
      <3> QED
        BY <1>2, <2>1, <3>2, <3>3, GrantFrame
    <2>3. CASE At(r, "grant")
      <3>1. Granted(req[r].p) /\ grants[req[r].p] = 0
        BY <2>3 DEF GrantInv
      <3>2. ASSUME NEW s \in Requests, GrantCredits(s), req[s].p = req[r].p
            PROVE  FALSE
        <4>1. At(s, "grant")
          BY <3>2 DEF GrantCredits
        <4>2. s = r
          BY <2>3, <3>2, <4>1 DEF GrantInv
        <4> QED
          BY <1>2, <3>2, <4>2, GrantFrame
      <3> QED
        BY <1>2, <2>1, <3>1, <3>2, GrantFrame, GrantsFrame, RowFrame
    <2> QED
      BY <1>2, <2>2, <2>3, GrantFrame
  <1>3. ASSUME NEW r \in Requests, NEW s \in Requests,
               At(r, "grant")', At(s, "grant")', req'[r].p = req'[s].p
        PROVE  r = s
    <2>1. req[r].p = req[s].p
      BY <1>3, GrantFrame
    <2>2. CASE At(r, "grant") /\ At(s, "grant")
      BY <2>1, <2>2 DEF GrantInv
    <2>3. CASE MarkPaid(r) /\ r # s
      <3>1. req'[s] = req[s] /\ ~ Granted(req[s].p)
        BY <2>1, <2>3 DEF MarkPaid, GoesTo, TypeOK
      <3>2. At(s, "grant")
        BY <1>3, <3>1 DEF At
      <3> QED
        BY <3>1, <3>2 DEF GrantInv
    <2>4. CASE MarkPaid(s) /\ r # s
      <3>1. req'[r] = req[r] /\ ~ Granted(req[r].p)
        BY <2>1, <2>4 DEF MarkPaid, GoesTo, TypeOK
      <3>2. At(r, "grant")
        BY <1>3, <3>1 DEF At
      <3> QED
        BY <3>1, <3>2 DEF GrantInv
    <2> QED
      BY <1>3, <2>2, <2>3, <2>4, GrantFrame
  <1> QED
    BY <1>1, <1>2, <1>3 DEF GrantInv, At, Granted


\* A request that owes a grant keeps owing it, gives it, or is hit by a fault.
LEMMA OwedFrame ==
  ASSUME TypeOK, [Next]_vars, NEW r \in Requests, At(r, "grant")
  PROVE  req'[r] = req[r] \/ GrantCredits(r) \/ faults' > 0
  <1>1. ASSUME NEW s \in Requests, Starting(s)
        PROVE  req'[r] = req[r]
    <2>1. At(s, "idle") /\ r # s
      BY <1>1 DEF Starting, CreatePurchase, VerifyPayment, ReceiveEvent,
                  ReceiveProcessed, Starts, At
    <2>2. ASSUME NEW p \in Purchases, CreatePurchase(s, p)
          PROVE  req'[r] = req[r]
      BY <2>1, <2>2 DEF CreatePurchase, Starts, TypeOK
    <2>3. CASE ~ \E p \in Purchases : CreatePurchase(s, p)
      BY <1>1, <2>1, <2>3, StartingFrame
    <2> QED
      BY <2>2, <2>3
  <1>2. ASSUME NEW s \in Requests, Continuing(s)
        PROVE  req'[r] = req[r] \/ GrantCredits(r)
    <2>1. CASE s = r
      BY <1>2, <2>1
      DEF Continuing, CreateRazorpayOrder, SaveOrderId, AlreadyGranted,
          MarkPaid, StoreEvent, HandlePaymentFailed, RefundFindsPurchase,
          RefundFindsNothing, RevokeCredits, MarkProcessed, At
    <2>2. CASE s # r
      BY <1>2, <2>2, ContinuingFrame
    <2> QED
      BY <2>1, <2>2
  <1>3. ASSUME NEW s \in Requests, RequestFails(s)
        PROVE  faults' > 0
    BY <1>3, MaxFaultsAssumption DEF RequestFails, TypeOK
  <1>4. CASE Crash
    BY <1>4, MaxFaultsAssumption DEF Crash, TypeOK
  <1>5. CASE UNCHANGED req
    BY <1>5
  <1> QED
    BY <1>1, <1>2, <1>3, <1>4, <1>5
    DEF Next, vars, Razorpay, PaymentAuthorized, PaymentFails,
        PaymentCaptured, PaymentRefunded

\* A captured event is about to be recorded once its purchase is claimed.
LEMMA ProcessedFrame ==
  ASSUME TypeOK, [Next]_vars, NEW r \in Requests,
         At(r, "processed")', req'[r].op = "captured"
  PROVE  /\ req'[r].p = req[r].p
         /\ req[r].p \in Purchases
         /\ \/ req'[r] = req[r]
            \/ AlreadyGranted(r)
            \/ GrantCredits(r)
  <1>0. req'[r] \in Request /\ req'[r].p \in Purchases
    BY TypeStep DEF TypeOK, Request
  <1>1. ASSUME NEW s \in Requests, Starting(s)
        PROVE  req'[r] = req[r]
    <2>1. ASSUME NEW p \in Purchases, CreatePurchase(s, p)
          PROVE  req' = [req EXCEPT ![s] = [op |-> "createOrder", p |-> p, pc |-> "order"]]
      BY <2>1 DEF CreatePurchase, Starts
    <2>2. CASE ~ \E p \in Purchases : CreatePurchase(s, p)
      BY <1>1, <2>2, StartingFrame DEF At
    <2> QED
      BY <2>1, <2>2 DEF At, TypeOK
  <1>2. ASSUME NEW s \in Requests, Continuing(s)
        PROVE  \/ req'[r] = req[r]
               \/ req'[r].p = req[r].p /\ (AlreadyGranted(r) \/ GrantCredits(r))
    <2>1. CASE s # r
      BY <1>2, <2>1, ContinuingFrame
    <2>2. CASE s = r
      <3>1. req'[r].p = req[r].p /\ req[r].op = "captured"
        BY <1>2, <2>2, ContinuingFrame DEF At, Idle
      <3>2. /\ ~ Ends(r)
            /\ \A x \in {"save", "grant", "mark"} : ~ GoesTo(r, x)
        BY DEF At, GoesTo, Ends, Idle, TypeOK, Request
      <3>3. ~ (\/ CreateRazorpayOrder(r)
               \/ SaveOrderId(r)
               \/ MarkPaid(r)
               \/ StoreEvent(r)
               \/ MarkProcessed(r))
        <4>1. StoreEvent(r) => GoesTo(r, "mark")
          BY <3>1 DEF StoreEvent, FirstStep
        <4> QED
          BY <3>2, <4>1 DEF CreateRazorpayOrder, SaveOrderId, MarkPaid,
                            MarkProcessed
      <3>4. ~ (\/ HandlePaymentFailed(r)
               \/ RefundFindsPurchase(r)
               \/ RefundFindsNothing(r)
               \/ RevokeCredits(r))
        BY <3>1 DEF HandlePaymentFailed, RefundFindsPurchase,
                    RefundFindsNothing, RevokeCredits, At, TypeOK, Request
      <3> QED
        BY <1>2, <2>2, <3>1, <3>2, <3>3, <3>4 DEF Continuing
    <2> QED
      BY <2>1, <2>2
  <1>3. ASSUME NEW s \in Requests, RequestFails(s)
        PROVE  req'[r] = req[r]
    BY <1>3 DEF RequestFails, Ends, Idle, At, TypeOK
  <1>4. ~ Crash
    BY DEF Crash, Idle, At
  <1>5. \/ req'[r] = req[r]
        \/ req'[r].p = req[r].p /\ (AlreadyGranted(r) \/ GrantCredits(r))
    <2>1. \/ UNCHANGED req
          \/ Crash
          \/ \E s \in Requests : Starting(s) \/ Continuing(s) \/ RequestFails(s)
      BY DEF Next, vars, Razorpay, PaymentAuthorized, PaymentFails,
             PaymentCaptured, PaymentRefunded
    <2> QED
      BY <2>1, <1>1, <1>2, <1>3, <1>4
  <1> QED
    BY <1>0, <1>5

\* Faults are only counted up.
LEMMA FaultsFrame ==
  ASSUME TypeOK, [Next]_vars
  PROVE  faults' >= faults
  <1>0. faults \in Nat
    BY MaxFaultsAssumption DEF TypeOK
  <1>1. ASSUME NEW r \in Requests, RequestFails(r)
        PROVE  faults' = faults + 1
    BY <1>1 DEF RequestFails
  <1>2. CASE Crash
    BY <1>0, <1>2 DEF Crash
  <1>3. CASE UNCHANGED faults
    BY <1>0, <1>3
  <1>4. \/ UNCHANGED faults
        \/ Crash
        \/ \E r \in Requests : RequestFails(r)
    BY ZenonT(60)
    DEF Next, vars, Starting, CreatePurchase, VerifyPayment, ReceiveEvent,
        ReceiveProcessed, Continuing, CreateRazorpayOrder, SaveOrderId,
        AlreadyGranted, MarkPaid, GrantCredits, StoreEvent,
        HandlePaymentFailed, RefundFindsPurchase, RefundFindsNothing,
        RevokeCredits, MarkProcessed, Razorpay, PaymentAuthorized,
        PaymentFails, PaymentCaptured, PaymentRefunded
  <1> QED
    BY <1>0, <1>1, <1>2, <1>3, <1>4

LEMMA ClaimStep ==
  ASSUME IInv, [Next]_vars
  PROVE  ClaimInv'
  <1> USE DEF IInv
  <1>1. ASSUME NEW p \in Purchases, Granted(p)'
        PROVE  (grants[p] = 1 \/ Granting(p) \/ faults > 0)'
    <2>1. faults > 0 => faults' > 0
      BY FaultsFrame, TypeStep, MaxFaultsAssumption DEF TypeOK
    <2>2. ASSUME NEW r \in Requests, MarkPaid(r), req[r].p = p
          PROVE  Granting(p)'
      BY <2>2 DEF MarkPaid, GoesTo, Granting, At, TypeOK, Request
    <2>3. CASE grants[p] = 1
      BY <2>3, GrantsFrame, GrantStep DEF GrantInv
    <2>4. ASSUME NEW r \in Requests, At(r, "grant"), req[r].p = p
          PROVE  (grants[p] = 1 \/ Granting(p) \/ faults > 0)'
      <3>1. CASE req'[r] = req[r]
        BY <2>4, <3>1 DEF Granting, At
      <3>2. CASE GrantCredits(r)
        <4>1. grants[p] = 0
          BY <2>4 DEF GrantInv
        <4> QED
          BY <2>4, <3>2, <4>1 DEF GrantCredits, TypeOK
      <3> QED
        BY <2>4, <3>1, <3>2, OwedFrame
    <2>5. CASE ~ Granted(p)
      BY <1>1, <2>2, <2>5, RowFrame
    <2> QED
      BY <2>1, <2>3, <2>4, <2>5 DEF ClaimInv, Granting
  <1>2. ASSUME NEW r \in Requests, At(r, "processed")', req'[r].op = "captured"
        PROVE  /\ req'[r].p = req[r].p
               /\ Granted(req[r].p)'
    <2>1. CASE req'[r] = req[r]
      BY <1>2, <2>1, ProcessedFrame, RowFrame DEF ClaimInv, At
    <2>2. CASE AlreadyGranted(r)
      BY <1>2, <2>2, ProcessedFrame, RowFrame DEF AlreadyGranted
    <2>3. CASE GrantCredits(r)
      BY <1>2, <2>3, ProcessedFrame, RowFrame DEF GrantCredits, GrantInv
    <2> QED
      BY <1>2, <2>1, <2>2, <2>3, ProcessedFrame
  <1>3. ASSUME NEW p \in Purchases, event'[<<p, "captured">>].processed
        PROVE  Granted(p)'
    <2>1. CASE event[<<p, "captured">>].processed
      BY <2>1, RowFrame DEF ClaimInv
    <2>2. ASSUME NEW r \in Requests, MarkProcessed(r), req[r].p = p,
                 req[r].op = "captured"
          PROVE  Granted(p)'
      BY <2>2, RowFrame DEF MarkProcessed, ClaimInv
    <2> QED
      BY <1>3, <2>1, <2>2, EventFrame DEF Kinds
  <1> QED
    BY <1>1, <1>2, <1>3 DEF ClaimInv, Granted, At, Granting

LEMMA InvStep == IInv /\ [Next]_vars => IInv'
  BY TypeStep, OrderStep, ProviderStep, GrantStep, ClaimStep DEF IInv

\* The inductive invariant holds in every behaviour.
THEOREM Inductive == Spec => []IInv
  BY InvInit, InvStep, PTL DEF Spec

-----------------------------------------------------------------------------
(* What follows *)

\* However the browser's verification and the redeliveries of the captured
\* event interleave, and whatever faults strike, grantCredits commits at most
\* once for a purchase.
THEOREM CreditedOnce == Spec => []AtMostOneGrant
  <1>1. ASSUME IInv, NEW p \in Purchases
        PROVE  grants[p] <= 1
    <2>1. grants[p] = 0 \/ grants[p] = 1
      BY <1>1 DEF IInv, GrantInv
    <2> QED
      BY <2>1
  <1>2. IInv => AtMostOneGrant
    BY <1>1 DEF AtMostOneGrant
  <1> QED
    BY <1>2, Inductive, PTL

\* A captured event that later deliveries will skip has been credited, or the
\* request that claimed it still owes the grant, or a fault struck.
THEOREM ProcessedCredited == Spec => []ProcessedIsCredited
  <1>1. IInv => ProcessedIsCredited
    BY DEF IInv, ClaimInv, ProcessedIsCredited, Granted
  <1> QED
    BY <1>1, Inductive, PTL

\* No verification and no webhook shows a refunded purchase as paid again:
\* the row was claimed before it could be refunded, and the claim is never
\* taken back.
THEOREM RefundStands == Spec => RefundNotUndone
  <1>1. ASSUME IInv, [Next]_vars, NEW p \in Purchases,
               purchase[p].status = "REFUNDED"
        PROVE  purchase'[p].status # "PAID"
    <2>1. Granted(p)
      BY <1>1 DEF IInv, GrantInv
    <2> QED
      BY <1>1, <2>1, RowFrame DEF IInv
  <1>2. IInv /\ [Next]_vars =>
          [\A p \in Purchases :
             purchase[p].status = "REFUNDED" => purchase'[p].status # "PAID"]_vars
    BY <1>1
  <1> QED
    BY <1>2, Inductive, PTL DEF Spec, RefundNotUndone

-----------------------------------------------------------------------------
(* Payments implements PaymentLedger *)

LEMMA LedgerInit == Init => Ledger!Init
  BY DEF Init, Ledger!Init, Taken

LEMMA LedgerStep == IInv /\ [Next]_vars => [Ledger!Next]_(Ledger!ledgerVars)
  <1> SUFFICES ASSUME IInv, [Next]_vars
               PROVE  Ledger!Next \/ UNCHANGED Ledger!ledgerVars
    OBVIOUS
  <1> USE DEF Taken
  <1>1. ASSUME NEW p \in Purchases, PaymentAuthorized(p)
        PROVE  Ledger!Take(p)
    BY <1>1 DEF PaymentAuthorized, Ledger!Take, IInv, TypeOK
  <1>2. ASSUME NEW p \in Purchases, PaymentRefunded(p)
        PROVE  Ledger!GiveBack(p)
    BY <1>2 DEF PaymentRefunded, Ledger!GiveBack, IInv, TypeOK
  <1>3. ASSUME NEW p \in Purchases, PaymentFails(p) \/ PaymentCaptured(p)
        PROVE  UNCHANGED Ledger!ledgerVars
    BY <1>3 DEF PaymentFails, PaymentCaptured, Ledger!ledgerVars, IInv, TypeOK
  <1>4. ASSUME NEW r \in Requests, CreateRazorpayOrder(r)
        PROVE  UNCHANGED Ledger!ledgerVars
    <2>1. payment[req[r].p] = "none"
      BY <1>4 DEF CreateRazorpayOrder, IInv, OrderInv
    <2> QED
      BY <1>4, <2>1 DEF CreateRazorpayOrder, Ledger!ledgerVars, IInv, TypeOK
  <1>5. ASSUME NEW r \in Requests, GrantCredits(r)
        PROVE  Ledger!Credit(req[r].p) /\ req[r].p \in Purchases
    <2>1. At(r, "grant")
      BY <1>5 DEF GrantCredits
    <2>2. req[r].p \in Purchases /\ req[r].op \in {"verify", "captured"}
      BY <2>1 DEF At, IInv, TypeOK, Request
    <2>3. grants[req[r].p] = 0 /\ Taken(req[r].p)
      BY <2>1, <2>2 DEF IInv, GrantInv, ProviderInv
    <2> QED
      BY <1>5, <2>2, <2>3 DEF GrantCredits, Ledger!Credit, IInv, TypeOK
  <1>6. ASSUME NEW r \in Requests, RevokeCredits(r)
        PROVE  Ledger!Revoke(req[r].p) /\ req[r].p \in Purchases
    <2>1. req[r].p \in Purchases /\ req[r].op = "refund"
      BY <1>6 DEF RevokeCredits, At, IInv, TypeOK, Request
    <2>2. payment[req[r].p] = "refunded"
      BY <2>1 DEF IInv, ProviderInv
    <2> QED
      BY <1>6, <2>1, <2>2 DEF RevokeCredits, Ledger!Revoke
  <1>7. CASE UNCHANGED <<payment, grants, holder>>
    BY <1>7 DEF Ledger!ledgerVars
  <1> QED
    BY ZenonT(60), <1>1, <1>2, <1>3, <1>4, <1>5, <1>6, <1>7
    DEF Ledger!Next, Next, vars, Starting, CreatePurchase, VerifyPayment,
        ReceiveEvent, ReceiveProcessed, Continuing, SaveOrderId,
        AlreadyGranted, MarkPaid, StoreEvent, HandlePaymentFailed,
        RefundFindsPurchase, RefundFindsNothing, MarkProcessed, RequestFails,
        Crash, Razorpay

\* Every behaviour of the payments component, with its crashes, swallowed
\* errors and redeliveries, is a behaviour of the ledger.
THEOREM ImplementsLedger == Spec => LedgerSpec
  BY LedgerInit, LedgerStep, Inductive, PTL DEF Spec, LedgerSpec, Ledger!Spec

=============================================================================
