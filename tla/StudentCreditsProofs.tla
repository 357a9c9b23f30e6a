------------------------ MODULE StudentCreditsProofs ------------------------
(***************************************************************************)
(* Proofs about StudentCredits, for any number of bookings, slots and      *)
(* requests: types, that no update of a balance is lost, that direct       *)
(* bookings do not overdraw it, that what is booked has been paid for, and *)
(* that a slot of the enrollment is booked again only by runs that overlap.*)
(*                                                                         *)
(* deductCredits writes back a balance it has computed from an earlier     *)
(* read.  LockInv says why that is safe: whoever stands between the two    *)
(* holds the row's lock, and what was read is still the balance.           *)
(***************************************************************************)
EXTENDS StudentCredits, FiniteSetTheorems, TLAPS

USE DEF RequestFields, HasBooking

-----------------------------------------------------------------------------
(* Types *)

LEMMA TypeInit == Init => TypeOK
  BY CreditAssumption, BoundAssumption
  DEF Init, TypeOK, Account, NoBooking, Booking, Idle, Request

\* A request that starts or goes on keeps the type of requests.
LEMMA RequestUpdate ==
  ASSUME req \in [Requests -> Request], NEW r \in Requests,
         NEW q \in Request, req' = [req EXCEPT ![r] = q]
  PROVE  req' \in [Requests -> Request]
  OBVIOUS

LEMMA IdleType == Idle \in Request
  BY DEF Idle, Request

\* A request that goes on.
LEMMA RequestSteps ==
  ASSUME NEW q \in Request, NEW i \in Int, NEW n \in Nat,
         NEW s \in Slots \union {None}
  PROVE  /\ q.pc = "deduct" =>
                [q EXCEPT !.pc = "write", !.credits = i, !.used = n] \in Request
         /\ [q EXCEPT !.pc = "row", !.b = None, !.credits = 0, !.used = 0]
                \in Request
         /\ [q EXCEPT !.pc = "commit", !.slot = s] \in Request
         /\ [q EXCEPT !.pc = "slot", !.slot = None] \in Request
  <1>1. q \in RequestFields /\ (q.pc \in HasBooking => q.b \in BookingIds)
    BY DEF Request
  <1>2. ASSUME q.pc = "deduct"
        PROVE  [q EXCEPT !.pc = "write", !.credits = i, !.used = n] \in Request
    <2>1. [q EXCEPT !.pc = "write", !.credits = i, !.used = n] \in RequestFields
      BY <1>1
    <2> QED
      BY <1>1, <1>2, <2>1 DEF Request
  <1>4. [q EXCEPT !.pc = "row", !.b = None, !.credits = 0, !.used = 0] \in Request
    <2>1. [q EXCEPT !.pc = "row", !.b = None, !.credits = 0, !.used = 0]
            \in RequestFields
      <3>1. [q EXCEPT !.pc = "row", !.b = None] \in RequestFields
        BY <1>1
      <3>2. \A f \in RequestFields : [f EXCEPT !.credits = 0] \in RequestFields
        OBVIOUS
      <3>3. \A f \in RequestFields : [f EXCEPT !.used = 0] \in RequestFields
        OBVIOUS
      <3> QED
        BY <3>1, <3>2, <3>3
    <2> QED
      BY <1>1, <2>1 DEF Request
  <1>5. [q EXCEPT !.pc = "commit", !.slot = s] \in Request
    BY <1>1 DEF Request
  <1>6. [q EXCEPT !.pc = "slot", !.slot = None] \in Request
    BY <1>1 DEF Request
  <1> QED
    BY <1>2, <1>4, <1>5, <1>6

LEMMA RequestRefused ==
  ASSUME NEW q \in Request, q.pc = "write"
  PROVE  [q EXCEPT !.pc = "delete"] \in Request
  BY DEF Request

LEMMA BookingUpdate ==
  ASSUME booking \in [BookingIds -> Booking], NEW b \in BookingIds,
         NEW row \in Booking, booking' = [booking EXCEPT ![b] = row]
  PROVE  booking' \in [BookingIds -> Booking]
  OBVIOUS

LEMMA BookingRows ==
  ASSUME NEW row \in Booking, NEW n \in Nat, NEW t \in BOOLEAN,
         NEW s \in Slots \union {None}
  PROVE  /\ [row EXCEPT !.status = "booked", !.cost = n, !.trial = t] \in Booking
         /\ [row EXCEPT !.status = "booked", !.slot = s, !.charges = n] \in Booking
         /\ [row EXCEPT !.status = "deleted"] \in Booking
         /\ [row EXCEPT !.status = "cancelled", !.refunds = n] \in Booking
         /\ [row EXCEPT !.charges = n] \in Booking
  BY DEF Booking

LEMMA AccountRows ==
  ASSUME NEW acc \in Account, NEW i \in Int, NEW n \in Nat, NEW t \in BOOLEAN
  PROVE  /\ [acc EXCEPT !.trial = i, !.used = n, !.trialActive = t] \in Account
         /\ [acc EXCEPT !.trial = i, !.trialActive = t] \in Account
         /\ [acc EXCEPT !.sub = i] \in Account
  BY DEF Account

LEMMA LedgerRows ==
  ASSUME ledger \in [trial: Int, sub: Int], NEW n \in Int,
         EntersTrial(n) \/ EntersSub(n) \/ SubReset(n)
  PROVE  ledger' \in [trial: Int, sub: Int]
  <1>1. ledger.trial + n \in Int /\ ledger.sub + n \in Int
    OBVIOUS
  <1> QED
    BY <1>1 DEF EntersTrial, EntersSub, SubReset

LEMMA TypeCreating ==
  ASSUME TypeOK, NEW r \in Requests, Creating(r)
  PROVE  TypeOK'
  <1>1. ASSUME NEW subjects \in SUBSET BookingIds, CreateRead(r, subjects)
        PROVE  TypeOK'
    <2>1. BookingCreditCost \in Nat
      BY CreditAssumption DEF BookingCreditCost, Duration
    <2>2. [Idle EXCEPT !.op = "create", !.pc = "row", !.todo = subjects,
                       !.cost = BookingCreditCost, !.trial = ~ OnPlan]
            \in Request
      <3>1. [Idle EXCEPT !.op = "create", !.pc = "row", !.todo = subjects,
                         !.cost = BookingCreditCost, !.trial = ~ OnPlan]
              \in RequestFields
        BY <2>1, IdleType DEF Request, OnPlan
      <3> QED
        BY ZenonT(60), <3>1 DEF Request, Idle
    <2> QED
      BY <1>1, <2>2, RequestUpdate
      DEF CreateRead, Starts, TypeOK, rows, bounds
  <1>2. ASSUME NEW b \in BookingIds, CreateRow(r, b)
        PROVE  TypeOK'
    <2> USE <1>2 DEF CreateRow, TypeOK, bounds
    <2>1. booking' \in [BookingIds -> Booking]
      BY DEF Booking, Request
    <2>2. req' \in [Requests -> Request]
      BY DEF Request
    <2> QED
      BY <2>1, <2>2
  <1>3. CASE DeductRead(r)
    <2> DEFINE seen == IF req[r].trial THEN account.trial ELSE account.sub
    <2>0. seen \in Int /\ account.used \in Nat /\ req[r] \in Request
      BY DEF TypeOK, Account
    <2>1. req' \in [Requests -> Request]
      <3>1. [req[r] EXCEPT !.pc = "write", !.credits = seen,
                           !.used = account.used] \in Request
        BY <1>3, <2>0, RequestSteps DEF DeductRead, At
      <3>2. req' = [req EXCEPT ![r] = [req[r] EXCEPT
                      !.pc = "write", !.credits = seen, !.used = account.used]]
        BY <1>3 DEF DeductRead, TypeOK
      <3> QED
        BY <3>1, <3>2, RequestUpdate DEF TypeOK
    <2> QED
      BY <1>3, <2>1 DEF DeductRead, LocksStudent, TypeOK, rows, bounds
  <1>4. CASE DeductCredits(r)
    <2> USE <1>4 DEF DeductCredits
    <2>1. /\ req[r] \in Request
          /\ req[r].trial \in BOOLEAN
          /\ req[r].credits - req[r].cost \in Int
          /\ req[r].used + 1 \in Nat
          /\ - req[r].cost \in Int
      BY DEF TypeOK, Request
    <2>2. account' \in Account
      BY <2>1, AccountRows DEF Charged, TypeOK
    <2>3. ledger' \in [trial: Int, sub: Int]
      BY <2>1, LedgerRows DEF TypeOK
    <2>4. booking' \in [BookingIds -> Booking]
      <3>1. CASE req[r].b \in BookingIds
        <4>1. /\ booking[req[r].b] \in Booking
              /\ booking[req[r].b].charges + 1 \in Nat
          BY <3>1 DEF TypeOK, Booking
        <4> QED
          BY <3>1, <4>1, BookingRows, BookingUpdate DEF TypeOK
      <3>2. CASE req[r].b \notin BookingIds
        BY <3>2 DEF TypeOK
      <3> QED
        BY <3>1, <3>2
    <2>5. req' \in [Requests -> Request]
      <3>1. [req[r] EXCEPT !.pc = "row", !.b = None, !.credits = 0, !.used = 0]
              \in Request
        BY <2>1, RequestSteps
      <3> QED
        BY <3>1, IdleType, RequestUpdate DEF TypeOK
    <2> QED
      BY <2>2, <2>3, <2>4, <2>5 DEF Unlocks, TypeOK, bounds
  <1>5. CASE DeductFails(r)
    <2>1. req[r] \in Request /\ req[r].pc = "write"
      BY <1>5 DEF DeductFails, At, TypeOK
    <2>2. [req[r] EXCEPT !.pc = "delete"] \in Request
      BY <2>1, RequestRefused
    <2>3. req' \in [Requests -> Request]
      BY <1>5, <2>2, RequestUpdate DEF DeductFails, GoesTo, TypeOK
    <2> QED
      BY <1>5, <2>3 DEF DeductFails, Unlocks, TypeOK, rows, bounds
  <1>6. CASE DeleteBooking(r)
    <2>1. booking' \in [BookingIds -> Booking]
      BY <1>6, BookingRows DEF DeleteBooking, TypeOK
    <2> QED
      BY <1>6, <2>1, IdleType, RequestUpdate
      DEF DeleteBooking, Ends, TypeOK, bounds
  <1> QED
    BY <1>1, <1>2, <1>3, <1>4, <1>5, <1>6 DEF Creating

LEMMA CancelsBooking ==
  ASSUME TypeOK, NEW r \in Requests, At(r, "cancel", "cancel")
  PROVE  req[r].b \in BookingIds
  BY DEF TypeOK, At, Request

LEMMA CancelRows ==
  ASSUME TypeOK, NEW b, NEW n \in {0, 1}, Cancelled(b, n)
  PROVE  booking' \in [BookingIds -> Booking]
  <1>1. CASE b \in BookingIds
    <2>1. booking[b] \in Booking /\ booking[b].refunds + n \in Nat
      BY <1>1 DEF TypeOK, Booking
    <2> QED
      BY <1>1, <2>1, BookingRows, BookingUpdate DEF Cancelled, TypeOK
  <1>2. CASE b \notin BookingIds
    BY <1>2 DEF Cancelled, TypeOK
  <1> QED
    BY <1>1, <1>2

LEMMA TypeCancelling ==
  ASSUME TypeOK, NEW r \in Requests, Cancelling(r)
  PROVE  TypeOK'
  <1>1. ASSUME NEW b \in BookingIds, CancelRead(r, b)
        PROVE  TypeOK'
    <2>1. [Idle EXCEPT !.op = "cancel", !.pc = "cancel", !.b = b] \in Request
      BY IdleType DEF Request
    <2> QED
      BY <1>1, <2>1, RequestUpdate
      DEF CancelRead, Starts, TypeOK, rows, bounds
  <1>2. CASE CancelRefunds(r)
    <2> DEFINE b == req[r].b
    <2>1. b \in BookingIds
      BY <1>2, CancelsBooking DEF CancelRefunds
    <2>2. Repaid(b) \in Nat
      BY <2>1, CreditAssumption DEF Repaid, TypeOK, Booking
    <2>3. account' \in Account
      <3> DEFINE used == IF account.used > 0 THEN account.used - 1 ELSE 0
      <3>1. /\ account \in Account
            /\ account.trial + Repaid(b) \in Int
            /\ account.sub + Repaid(b) \in Int
            /\ used \in Nat
        BY <2>2 DEF TypeOK, Account
      <3>2. CASE booking[b].trial
        <4>1. account' = [account EXCEPT !.trial = account.trial + Repaid(b),
                                         !.used = used, !.trialActive = TRUE]
          BY <1>2, <3>2 DEF CancelRefunds, TrialRepaid
        <4> HIDE DEF used
        <4> QED
          BY <3>1, <4>1, AccountRows
      <3>3. CASE ~ booking[b].trial
        <4>1. account' = [account EXCEPT !.sub = account.sub + Repaid(b)]
          BY <1>2, <3>3 DEF CancelRefunds
        <4> QED
          BY <3>1, <4>1, AccountRows
      <3> QED
        BY <3>2, <3>3
    <2>4. ledger' \in [trial: Int, sub: Int]
      BY <1>2, <2>2, LedgerRows DEF CancelRefunds, TypeOK
    <2>5. booking' \in [BookingIds -> Booking]
      BY <1>2, <2>1, CancelRows DEF CancelRefunds
    <2> QED
      BY <1>2, <2>3, <2>4, <2>5, IdleType, RequestUpdate
      DEF CancelRefunds, Ends, TypeOK, bounds
  <1>3. CASE CancelKeeps(r)
    <2>1. booking' \in [BookingIds -> Booking]
      BY <1>3, CancelsBooking, CancelRows DEF CancelKeeps
    <2> QED
      BY <1>3, <2>1, IdleType, RequestUpdate
      DEF CancelKeeps, Ends, TypeOK, bounds
  <1>4. CASE CancelFails(r)
    BY <1>4, IdleType, RequestUpdate
    DEF CancelFails, Ends, TypeOK, rows, bounds
  <1> QED
    BY <1>1, <1>2, <1>3, <1>4 DEF Cancelling

LEMMA TypeGenerating ==
  ASSUME TypeOK, NEW r \in Requests, Generating(r)
  PROVE  TypeOK'
  <1>1. CASE CreateEnrollment(r) \/ GenerateWeekly(r)
    <2>1. [Idle EXCEPT !.op = "generate", !.pc = "slot"] \in Request
      BY IdleType DEF Request
    <2>2. req' \in [Requests -> Request]
      BY <1>1, <2>1, RequestUpdate
      DEF CreateEnrollment, GenerateWeekly, Generates, Starts, TypeOK
    <2> QED
      BY <1>1, <2>2
      DEF CreateEnrollment, GenerateWeekly, TypeOK, Account, rows, bounds
  <1>2. ASSUME NEW s \in Slots, GenerateRead(r, s)
        PROVE  TypeOK'
    <2>1. req' \in [Requests -> Request]
      <3>1. [req[r] EXCEPT !.pc = "commit", !.slot = s] \in Request
        BY RequestSteps DEF TypeOK
      <3> QED
        BY <1>2, <3>1, RequestUpdate DEF GenerateRead, TypeOK
    <2> QED
      BY <1>2, <2>1 DEF GenerateRead, TypeOK, rows, bounds
  <1>3. CASE GeneratePauses(r) \/ GenerateDone(r)
    <2>1. req' \in [Requests -> Request]
      BY <1>3, IdleType, RequestUpdate
      DEF GeneratePauses, GenerateDone, Ends, TypeOK
    <2> QED
      BY <1>3, <2>1 DEF GeneratePauses, GenerateDone, TypeOK, rows, bounds
  <1>4. ASSUME NEW b \in BookingIds, GenerateCommit(r, b)
        PROVE  TypeOK'
    <2> USE <1>4 DEF GenerateCommit, ScheduledBooking, TypeOK
    <2>0. req[r] \in Request /\ req[r].slot \in Slots \union {None}
      BY DEF Request
    <2>1. booking' \in [BookingIds -> Booking]
      BY <2>0, BookingRows, BookingUpdate
    <2>2. req' \in [Requests -> Request]
      <3>1. [req[r] EXCEPT !.pc = "slot", !.slot = None] \in Request
        BY <2>0, RequestSteps
      <3> QED
        BY <3>1, RequestUpdate
    <2>3. account' \in Account
      <3>1. account.sub - SubSession \in Int
        BY CreditAssumption DEF Account
      <3> QED
        BY <3>1, AccountRows
    <2>4. ledger' \in [trial: Int, sub: Int]
      <3>1. - SubSession \in Int
        BY CreditAssumption
      <3> QED
        BY <3>1, LedgerRows
    <2> QED
      BY <2>1, <2>2, <2>3, <2>4 DEF bounds
  <1> QED
    BY <1>1, <1>2, <1>3, <1>4 DEF Generating

LEMMA TypeGranting ==
  ASSUME TypeOK, NEW r \in Requests, Granting(r)
  PROVE  TypeOK'
  <1>1. CASE AdminGrantRead(r)
    <2>1. [Idle EXCEPT !.op = "grant", !.pc = "commit",
                       !.learning = account.learning] \in Request
      BY IdleType DEF Request, TypeOK, Account
    <2>2. topUps' \in 0..MaxTopUps
      BY <1>1, BoundAssumption DEF AdminGrantRead, TopUp, TypeOK
    <2> QED
      BY <1>1, <2>1, <2>2, RequestUpdate
      DEF AdminGrantRead, Starts, TypeOK, rows
  <1>2. CASE AdminGrantCommit(r)
    <2> USE <1>2 DEF AdminGrantCommit
    <2>1. account' \in Account
      <3>1. /\ account \in Account
            /\ account.trial + GrantedCredits \in Int
            /\ account.sub + GrantedCredits \in Int
        BY CreditAssumption DEF TypeOK, Account
      <3> QED
        BY <3>1, AccountRows
    <2>2. ledger' \in [trial: Int, sub: Int]
      BY CreditAssumption DEF TypeOK, EntersSub, EntersTrial
    <2> QED
      BY <2>1, <2>2, IdleType, RequestUpdate DEF Ends, TypeOK, bounds
  <1> QED
    BY <1>1, <1>2 DEF Granting

LEMMA TakenType == ASSUME NEW acc \in Account
                   PROVE  SubscriptionTaken(acc) \in Account
  <1>1. [acc EXCEPT !.learning = FALSE] \in Account
    BY DEF Account
  <1>2. \A other \in Account : [other EXCEPT !.sub = 0] \in Account
    BY DEF Account
  <1> QED
    BY <1>1, <1>2 DEF SubscriptionTaken

LEMMA TypeExpiring ==
  ASSUME TypeOK, NEW r \in Requests, Expiring(r)
  PROVE  TypeOK'
  <1>1. CASE ExpireRead(r)
    <2>1. [Idle EXCEPT !.op = "expire", !.pc = "commit"] \in Request
      BY IdleType DEF Request
    <2> QED
      BY <1>1, <2>1, RequestUpdate
      DEF ExpireRead, Starts, TypeOK, rows, bounds
  <1>2. CASE ResetRead(r)
    <2>1. [Idle EXCEPT !.op = "reset", !.pc = "commit"] \in Request
      BY IdleType DEF Request
    <2> QED
      BY <1>2, <2>1, RequestUpdate
      DEF ResetRead, Starts, TypeOK, rows, bounds
  <1>3. CASE ExpireCommit(r) \/ ResetCommit(r)
    <2>1. account' \in Account
      BY <1>3, TakenType DEF ExpireCommit, ResetCommit, TypeOK
    <2>2. ledger' \in [trial: Int, sub: Int]
      BY <1>3, LedgerRows DEF ExpireCommit, ResetCommit, TypeOK
    <2>3. req' \in [Requests -> Request]
      BY <1>3, IdleType, RequestUpdate DEF ExpireCommit, ResetCommit, Ends, TypeOK
    <2>4. enrollment' \in {"none", "active", "paused"}
      BY <1>3 DEF ExpireCommit, ResetCommit, PauseEnrollments, TypeOK
    <2>5. wallet' \in [coming: BOOLEAN, past: BOOLEAN]
      <3>1. CASE ExpireCommit(r)
        BY <3>1 DEF ExpireCommit, TypeOK
      <3>2. CASE ResetCommit(r)
        BY <3>2 DEF ResetCommit
      <3> QED
        BY <1>3, <3>1, <3>2
    <2>6. UNCHANGED <<booking, locked, bounds>>
      BY <1>3 DEF ExpireCommit, ResetCommit
    <2> QED
      BY <2>1, <2>2, <2>3, <2>4, <2>5, <2>6 DEF TypeOK, bounds
  <1> QED
    BY <1>1, <1>2, <1>3 DEF Expiring

\* The steps that no request takes.
Outside ==
    GrantCredits \/ RevokeCredits \/ ExpireStaleTrials \/ TrialEnds \/ MonthPasses

LEMMA TypeOutside == TypeOK /\ Outside => TypeOK'
  <1> SUFFICES ASSUME TypeOK, Outside PROVE TypeOK'
    OBVIOUS
  <1>1. CASE GrantCredits
    <2> USE <1>1 DEF GrantCredits
    <2>1. account' \in Account
      <3>1. account \in Account /\ PlanCredits \in Int
        BY CreditAssumption DEF TypeOK
      <3>2. account' = [account EXCEPT !.learning = TRUE, !.sub = PlanCredits,
                                       !.ends = "coming", !.trialActive = FALSE]
        OBVIOUS
      <3> QED
        BY <3>1, <3>2 DEF Account
    <2>2. ledger' \in [trial: Int, sub: Int]
      BY CreditAssumption, LedgerRows DEF TypeOK
    <2>3. wallet' \in [coming: BOOLEAN, past: BOOLEAN]
      BY DEF TypeOK
    <2> QED
      BY <2>1, <2>2, <2>3, BoundAssumption DEF TopUp, TypeOK
  <1>2. CASE RevokeCredits
    <2> USE <1>2 DEF RevokeCredits
    <2>1. account' \in Account
      <3>1. SubscriptionTaken(account) \in Account
        BY TakenType DEF TypeOK
      <3> QED
        BY <3>1 DEF Account
    <2>2. ledger' \in [trial: Int, sub: Int]
      BY LedgerRows DEF TypeOK
    <2> QED
      BY <2>1, <2>2 DEF PauseEnrollments, TypeOK, bounds
  <1>3. CASE ExpireStaleTrials
    BY <1>3 DEF ExpireStaleTrials, TypeOK, Account, bounds
  <1>4. CASE TrialEnds
    BY <1>4 DEF TrialEnds, TypeOK, Account, bounds
  <1>5. CASE MonthPasses
    BY <1>5 DEF MonthPasses, TypeOK, Account, bounds
  <1> QED
    BY <1>1, <1>2, <1>3, <1>4, <1>5 DEF Outside

LEMMA TypeStep == TypeOK /\ [Next]_vars => TypeOK'
  <1> SUFFICES ASSUME TypeOK, [Next]_vars PROVE TypeOK'
    OBVIOUS
  <1>1. ASSUME NEW r \in Requests, RequestFails(r)
        PROVE  TypeOK'
    BY <1>1, IdleType, RequestUpdate, BoundAssumption
    DEF RequestFails, Unlocks, Ends, TypeOK, rows
  <1>2. CASE UNCHANGED vars
    BY <1>2 DEF vars, rows, bounds, TypeOK
  <1> QED
    BY <1>1, <1>2, TypeCreating, TypeCancelling, TypeGenerating, TypeGranting,
       TypeExpiring, TypeOutside
    DEF Next, Outside

\* The student's row, her bookings and the requests always have their types;
\* the sessions used never go below 0.
THEOREM TypeCorrect == Spec => []TypeOK
  BY TypeInit, TypeStep, PTL DEF Spec

-----------------------------------------------------------------------------
(* The inductive invariant *)

\* Between its read and its write deductCredits holds the row's lock, and what
\* it has read is still the balance.
LockInv ==
    \A r \in Requests :
        At(r, "create", "write") =>
            /\ locked = r
            /\ req[r].credits = IF req[r].trial THEN account.trial ELSE account.sub

IInv == TypeOK /\ LockInv /\ NoLostUpdate

LEMMA InvInit == Init => IInv
  BY TypeInit DEF IInv, Init, LockInv, NoLostUpdate, At, Idle

\* Nobody stands between read and write while the row is not locked.
LEMMA UnlockedMeansNobody ==
  ASSUME IInv, Unlocked, NEW r \in Requests
  PROVE  ~ At(r, "create", "write")
  BY NoneAssumption DEF IInv, LockInv, Unlocked

\* The steps that write the balances take the lock or wait for it.
Writes(r) ==
    \/ CancelRefunds(r)
    \/ CreateEnrollment(r)
    \/ \E b \in BookingIds : GenerateCommit(r, b)
    \/ AdminGrantCommit(r)
    \/ ExpireCommit(r)
    \/ ResetCommit(r)

LEMMA WritersWait ==
  ASSUME NEW r \in Requests, Writes(r)
  PROVE  Unlocked
  BY DEF Writes, CancelRefunds, CreateEnrollment, GenerateCommit, ScheduledBooking,
     AdminGrantCommit, ExpireCommit, ResetCommit

\* The other steps of a request leave the balances alone.
SameBalances ==
    /\ account'.trial = account.trial
    /\ account'.sub = account.sub

LEMMA OthersKeep ==
  ASSUME TypeOK, NEW r \in Requests, [Next]_vars,
         ~ \E q \in Requests : Writes(q) \/ DeductCredits(q),
         ~ GrantCredits, ~ RevokeCredits
  PROVE  SameBalances /\ UNCHANGED ledger
  <1>1. ASSUME NEW q \in Requests, Creating(q) \/ RequestFails(q)
        PROVE  UNCHANGED <<account, ledger>>
    BY <1>1
    DEF Creating, CreateRead, CreateRow, DeductRead, DeductFails,
        DeleteBooking, RequestFails, rows
  <1>2. ASSUME NEW q \in Requests,
               Cancelling(q) \/ Generating(q) \/ Granting(q) \/ Expiring(q)
        PROVE  UNCHANGED <<account, ledger>>
    BY <1>2
    DEF Writes, Cancelling, CancelRead, CancelKeeps, CancelFails, Generating,
        GenerateWeekly, GenerateRead, GeneratePauses, GenerateDone, Granting,
        AdminGrantRead, Expiring, ExpireRead, ResetRead, rows
  <1>3. CASE ExpireStaleTrials \/ TrialEnds \/ MonthPasses
    BY <1>3
    DEF ExpireStaleTrials, TrialEnds, MonthPasses, SameBalances, TypeOK, Account
  <1>4. CASE UNCHANGED vars
    BY <1>4 DEF vars, rows, SameBalances
  <1> QED
    BY <1>1, <1>2, <1>3, <1>4 DEF Next, SameBalances

LEMMA LedgerStep ==
  ASSUME IInv, [Next]_vars
  PROVE  NoLostUpdate'
  <1> USE DEF IInv, NoLostUpdate
  <1>1. ASSUME NEW r \in Requests, DeductCredits(r)
        PROVE  NoLostUpdate'
    <2>1. req[r].credits = IF req[r].trial THEN account.trial ELSE account.sub
      BY <1>1 DEF DeductCredits, LockInv
    <2>2. req[r].cost \in Nat /\ req[r].credits \in Int
      BY DEF TypeOK, Request
    <2> QED
      BY <1>1, <2>1, <2>2
      DEF DeductCredits, Charged, EntersTrial, EntersSub, TypeOK, Account
  <1>2. ASSUME NEW r \in Requests, Writes(r)
        PROVE  NoLostUpdate'
    <2> USE DEF TypeOK, Account
    <2>1. CASE CancelRefunds(r)
      <3> DEFINE n == Repaid(req[r].b)
                 paysTrial == booking[req[r].b].trial
      <3>1. CASE paysTrial
        <4>1. /\ account' = TrialRepaid(account, n)
              /\ ledger' = [ledger EXCEPT !.trial = ledger.trial + n]
          BY <2>1, <3>1 DEF CancelRefunds, EntersTrial
        <4> HIDE DEF n
        <4> QED
          BY <4>1 DEF TrialRepaid
      <3>2. CASE ~ paysTrial
        <4>1. /\ account' = [account EXCEPT !.sub = account.sub + n]
              /\ ledger' = [ledger EXCEPT !.sub = ledger.sub + n]
          BY <2>1, <3>2 DEF CancelRefunds, EntersSub
        <4> HIDE DEF n
        <4> QED
          BY <4>1
      <3> QED
        BY <3>1, <3>2
    <2>2. CASE CreateEnrollment(r)
      BY <2>2 DEF CreateEnrollment
    <2>3. CASE \E b \in BookingIds : GenerateCommit(r, b)
      BY <2>3, CreditAssumption DEF GenerateCommit, ScheduledBooking, EntersSub
    <2>4. CASE AdminGrantCommit(r)
      <3>1. CASE req[r].learning
        <4>1. /\ account' = [account EXCEPT !.sub = account.sub + GrantedCredits]
              /\ ledger' = [ledger EXCEPT !.sub = ledger.sub + GrantedCredits]
          BY <2>4, <3>1 DEF AdminGrantCommit, EntersSub
        <4> QED
          BY <4>1
      <3>2. CASE ~ req[r].learning
        <4>1. /\ account' = [account EXCEPT
                                !.trial = account.trial + GrantedCredits,
                                !.trialActive = TRUE]
              /\ ledger' = [ledger EXCEPT !.trial = ledger.trial + GrantedCredits]
          BY <2>4, <3>2 DEF AdminGrantCommit, EntersTrial
        <4> QED
          BY <4>1
      <3> QED
        BY <3>1, <3>2
    <2>5. CASE ExpireCommit(r) \/ ResetCommit(r)
      BY <2>5 DEF ExpireCommit, ResetCommit, SubscriptionTaken, SubReset
    <2> QED
      BY <1>2, <2>1, <2>2, <2>3, <2>4, <2>5 DEF Writes
  <1>3. CASE GrantCredits \/ RevokeCredits
    BY ZenonT(60), <1>3
    DEF GrantCredits, RevokeCredits, SubscriptionTaken, SubReset, TypeOK, Account
  <1>4. CASE /\ ~ \E q \in Requests : Writes(q) \/ DeductCredits(q)
             /\ ~ GrantCredits /\ ~ RevokeCredits
    <2>1. CASE Requests = {}
      BY <1>4, <2>1
      DEF Next, ExpireStaleTrials, TrialEnds, MonthPasses, vars, rows, TypeOK,
          Account
    <2>2. CASE Requests # {}
      BY <1>4, <2>2, OthersKeep DEF SameBalances
    <2> QED
      BY <2>1, <2>2
  <1> QED
    BY <1>1, <1>2, <1>3, <1>4

\* A step of r is one of r alone, and only the read comes before the write.
OwnStep(r) ==
    /\ \A q \in Requests \ {r} : req'[q] = req[q]
    /\ DeductRead(r) \/ req'[r].pc # "write"

LEMMA OwnCreating ==
  ASSUME TypeOK, NEW r \in Requests, Creating(r)
  PROVE  OwnStep(r)
  <1> USE DEF OwnStep, TypeOK
  <1>1. CASE \E subjects \in SUBSET BookingIds : CreateRead(r, subjects)
    BY <1>1 DEF CreateRead, Starts, Idle
  <1>2. CASE \E b \in BookingIds : CreateRow(r, b)
    BY <1>2 DEF CreateRow, Request
  <1>3. CASE DeductRead(r)
    BY <1>3 DEF DeductRead
  <1>4. CASE DeductCredits(r)
    <2>1. req[r] \in RequestFields
      BY DEF Request
    <2>2. CASE req[r].todo = {}
      BY <1>4, <2>2 DEF DeductCredits, Idle
    <2>3. CASE req[r].todo # {}
      BY <1>4, <2>1, <2>3 DEF DeductCredits
    <2> QED
      BY <2>2, <2>3
  <1>5. CASE DeductFails(r)
    BY <1>5 DEF DeductFails, GoesTo, Request
  <1>6. CASE DeleteBooking(r)
    BY <1>6 DEF DeleteBooking, Ends, Idle
  <1> QED
    BY <1>1, <1>2, <1>3, <1>4, <1>5, <1>6 DEF Creating

LEMMA OwnOther ==
  ASSUME TypeOK, NEW r \in Requests,
         \/ Cancelling(r) \/ Generating(r) \/ Granting(r)
         \/ Expiring(r) \/ RequestFails(r)
  PROVE  OwnStep(r)
  <1> USE DEF OwnStep, TypeOK
  <1>1. CASE Ends(r)
    BY <1>1 DEF Ends, Idle
  <1>2. CASE \E b \in BookingIds : CancelRead(r, b)
    BY <1>2 DEF CancelRead, Starts, Idle
  <1>3. CASE CreateEnrollment(r) \/ GenerateWeekly(r)
    <2>1. Generates(r)
      BY <1>3 DEF CreateEnrollment, GenerateWeekly
    <2> QED
      BY <2>1 DEF Generates, Starts, Idle
  <1>4. CASE \E s \in Slots : GenerateRead(r, s)
    BY <1>4 DEF GenerateRead, Request
  <1>5. CASE \E b \in BookingIds : GenerateCommit(r, b)
    BY <1>5 DEF GenerateCommit, ScheduledBooking, Request
  <1>6. CASE AdminGrantRead(r)
    BY <1>6 DEF AdminGrantRead, Starts, Idle
  <1>7. CASE ExpireRead(r) \/ ResetRead(r)
    <2>1. CASE ExpireRead(r)
      BY <2>1 DEF ExpireRead, Starts, Idle
    <2>2. CASE ResetRead(r)
      BY <2>2 DEF ResetRead, Starts, Idle
    <2> QED
      BY <1>7, <2>1, <2>2
  <1>8. \/ Ends(r)
        \/ \E b \in BookingIds : CancelRead(r, b)
        \/ CreateEnrollment(r) \/ GenerateWeekly(r)
        \/ \E s \in Slots : GenerateRead(r, s)
        \/ \E b \in BookingIds : GenerateCommit(r, b)
        \/ AdminGrantRead(r) \/ ExpireRead(r) \/ ResetRead(r)
    BY DEF Cancelling, CancelRefunds, CancelKeeps, CancelFails, Generating,
           GeneratePauses, GenerateDone, Granting, AdminGrantCommit, Expiring,
           ExpireCommit, ResetCommit, RequestFails
  <1> QED
    BY <1>1, <1>2, <1>3, <1>4, <1>5, <1>6, <1>7, <1>8

\* Who stands before the write has just read, or stood there before.
LEMMA OnlyReadEnters ==
  ASSUME TypeOK, [Next]_vars, NEW q \in Requests, req'[q].pc = "write"
  PROVE  DeductRead(q) \/ req'[q] = req[q]
  <1>1. ASSUME NEW r \in Requests, OwnStep(r)
        PROVE  DeductRead(q) \/ req'[q] = req[q]
    BY <1>1 DEF OwnStep
  <1>2. CASE UNCHANGED req
    BY <1>2
  <1>3. \/ \E r \in Requests : OwnStep(r)
        \/ UNCHANGED req
    BY OwnCreating, OwnOther
    DEF Next, GrantCredits, RevokeCredits, ExpireStaleTrials, TrialEnds,
        MonthPasses, vars
  <1> QED
    BY <1>1, <1>2, <1>3

\* The lock of a request that stays before the write stays with it.
LEMMA LockKept ==
  ASSUME TypeOK, [Next]_vars, NEW q \in Requests,
         At(q, "create", "write"), req'[q] = req[q], locked = q
  PROVE  locked' = q
  <1>1. req[q].pc = "write" /\ q # None
    BY NoneAssumption DEF At
  <1>2. ASSUME NEW r \in Requests, Creating(r) \/ RequestFails(r)
        PROVE  locked' = q
    <2>1. CASE DeductCredits(r) \/ DeductFails(r) \/ RequestFails(r)
      <3>1. r # q
        <4>1. CASE DeductRead(r)
          BY <1>1, <4>1 DEF DeductRead, LocksStudent, Unlocked
        <4>2. req'[r].pc # "write"
          BY <1>2, <4>1, OwnCreating, OwnOther, <1>1 DEF OwnStep, DeductRead,
             LocksStudent, Unlocked
        <4> QED
          BY <1>1, <4>2
      <3> QED
        BY <2>1, <3>1 DEF DeductCredits, DeductFails, RequestFails, Unlocks
    <2>2. CASE ~ (DeductCredits(r) \/ DeductFails(r) \/ RequestFails(r))
      BY <1>1, <1>2, <2>2
      DEF Creating, CreateRead, CreateRow, DeductRead, LocksStudent, Unlocked,
          DeleteBooking
    <2> QED
      BY <2>1, <2>2
  <1>3. ASSUME NEW r \in Requests,
               Cancelling(r) \/ Generating(r) \/ Granting(r) \/ Expiring(r)
        PROVE  locked' = q
    BY <1>3
    DEF Cancelling, CancelRead, CancelRefunds, CancelKeeps, CancelFails,
        Generating, CreateEnrollment, GenerateWeekly, GenerateRead,
        GeneratePauses, GenerateDone, GenerateCommit, ScheduledBooking, Granting, AdminGrantRead,
        AdminGrantCommit, Expiring, ExpireRead, ExpireCommit, ResetRead,
        ResetCommit
  <1>4. CASE \/ GrantCredits \/ RevokeCredits \/ ExpireStaleTrials
             \/ TrialEnds \/ MonthPasses \/ UNCHANGED vars
    BY <1>4
    DEF GrantCredits, RevokeCredits, ExpireStaleTrials, TrialEnds, MonthPasses,
        vars
  <1> QED
    BY <1>2, <1>3, <1>4 DEF Next

LEMMA LockStep ==
  ASSUME IInv, [Next]_vars
  PROVE  LockInv'
  <1> SUFFICES ASSUME NEW q \in Requests, At(q, "create", "write")'
               PROVE  /\ locked' = q
                      /\ req'[q].credits =
                            IF req'[q].trial THEN account'.trial ELSE account'.sub
    BY DEF LockInv
  <1> USE DEF IInv
  <1>1. CASE DeductRead(q)
    <2>1. /\ req'[q].credits = IF req[q].trial THEN account.trial ELSE account.sub
          /\ req'[q].trial = req[q].trial
      BY <1>1 DEF DeductRead, TypeOK, Request
    <2>2. UNCHANGED account /\ locked' = q
      BY <1>1 DEF DeductRead, LocksStudent, rows
    <2> QED
      BY <2>1, <2>2
  <1>2. CASE req'[q] = req[q]
    <2>1. At(q, "create", "write")
      BY <1>2 DEF At
    <2>2. /\ locked = q
          /\ req[q].credits = IF req[q].trial THEN account.trial ELSE account.sub
      BY <2>1 DEF LockInv
    <2>3. locked' = q
      BY <1>2, <2>1, <2>2, LockKept
    <2>4. ~ Unlocked
      BY <2>2, NoneAssumption DEF Unlocked
    <2>5. ~ \E r \in Requests : Writes(r) \/ DeductCredits(r)
      <3>1. ASSUME NEW r \in Requests, DeductCredits(r)
            PROVE  FALSE
        <4>1. r = q
          BY <2>2, <3>1 DEF DeductCredits, LockInv
        <4>2. DeductRead(r) \/ req'[r].pc # "write"
          BY <3>1, OwnCreating DEF OwnStep, Creating
        <4>3. ~ DeductRead(r)
          BY <2>4 DEF DeductRead, LocksStudent
        <4> QED
          BY <1>2, <2>1, <4>1, <4>2, <4>3 DEF At
      <3> QED
        BY <2>4, <3>1, WritersWait
    <2>6. ~ GrantCredits /\ ~ RevokeCredits
      BY <2>4 DEF GrantCredits, RevokeCredits
    <2>7. SameBalances
      BY <2>5, <2>6, OthersKeep
    <2> QED
      BY <1>2, <2>2, <2>3, <2>7 DEF SameBalances
  <1> QED
    BY <1>1, <1>2, OnlyReadEnters DEF At

LEMMA InvStep == IInv /\ [Next]_vars => IInv'
  BY TypeStep, LockStep, LedgerStep DEF IInv

THEOREM Inductive == Spec => []IInv
  BY InvInit, InvStep, PTL DEF Spec

\* No charge, refund, grant or reset of the time bank is lost, however the
\* requests that make them are interleaved: the two balances of the student's
\* row are always what the committed entries add up to (deductCredits,
\* cancelBooking, grantCredits, revokeCredits and the jobs of midnight).
THEOREM BalancesAgree == Spec => []NoLostUpdate
  BY Inductive, PTL DEF IInv

\* What deductCredits has read is still the balance when it writes.
THEOREM LockedRead == Spec => []LockInv
  BY Inductive, PTL DEF IInv

-----------------------------------------------------------------------------
(* Nothing is overdrawn *)

\* Only a request of an enrollment decrements without a check.
EnrolledInv == \A r \in Requests : req[r].op = "generate" => enrollment # "none"

LEMMA EnrollmentStays ==
  ASSUME [Next]_vars, enrollment # "none"
  PROVE  enrollment' # "none"
  <1>1. ASSUME NEW r \in Requests,
               \/ Creating(r) \/ Cancelling(r) \/ Granting(r) \/ RequestFails(r)
        PROVE  UNCHANGED enrollment
    BY <1>1
    DEF Creating, CreateRead, CreateRow, DeductRead, DeductCredits, DeductFails,
        DeleteBooking, Cancelling, CancelRead, CancelRefunds, CancelKeeps,
        CancelFails, Granting, AdminGrantRead, AdminGrantCommit, RequestFails,
        rows
  <1>2. ASSUME NEW r \in Requests, Generating(r) \/ Expiring(r)
        PROVE  enrollment' # "none"
    BY <1>2
    DEF Generating, CreateEnrollment, GenerateWeekly, GenerateRead,
        GeneratePauses, GenerateDone, GenerateCommit, ScheduledBooking, Expiring, ExpireRead,
        ExpireCommit, ResetRead, ResetCommit, PauseEnrollments, rows
  <1>3. CASE \/ GrantCredits \/ RevokeCredits \/ ExpireStaleTrials
             \/ TrialEnds \/ MonthPasses \/ UNCHANGED vars
    BY <1>3
    DEF GrantCredits, RevokeCredits, ExpireStaleTrials, TrialEnds, MonthPasses,
        PauseEnrollments, vars, rows
  <1> QED
    BY <1>1, <1>2, <1>3 DEF Next

\* A request is one of an enrollment only after createEnrollment.
EntersEnrolled(r) ==
    /\ \A q \in Requests \ {r} : req'[q] = req[q]
    /\ \/ enrollment # "none"
       \/ enrollment' # "none"
       \/ req'[r].op # "generate"

LEMMA EnterCreating ==
  ASSUME TypeOK, EnrolledInv, NEW r \in Requests, Creating(r)
  PROVE  EntersEnrolled(r)
  <1> USE DEF EntersEnrolled, TypeOK
  <1>1. CASE \E subjects \in SUBSET BookingIds : CreateRead(r, subjects)
    BY <1>1 DEF CreateRead, Starts, Idle
  <1>2. CASE Ends(r)
    BY <1>2 DEF Ends, Idle
  <1>3. CASE \E b \in BookingIds : CreateRow(r, b)
    BY <1>3 DEF CreateRow, At, EnrolledInv, Request
  <1>4. CASE DeductRead(r)
    BY <1>4 DEF DeductRead, At, EnrolledInv, Request
  <1>5. CASE DeductCredits(r)
    <2>1. req[r] \in RequestFields /\ req[r].op = "create"
      BY <1>5 DEF Request, DeductCredits, At
    <2>2. CASE req[r].todo = {}
      BY <1>5, <2>2 DEF DeductCredits, Idle
    <2>3. CASE req[r].todo # {}
      BY <1>5, <2>1, <2>3 DEF DeductCredits
    <2> QED
      BY <2>2, <2>3
  <1>6. CASE DeductFails(r)
    BY <1>6 DEF DeductFails, GoesTo, At, Request
  <1> QED
    BY <1>1, <1>2, <1>3, <1>4, <1>5, <1>6 DEF Creating, DeleteBooking

LEMMA EnterOther ==
  ASSUME TypeOK, EnrolledInv, NEW r \in Requests,
         \/ Cancelling(r) \/ Generating(r) \/ Granting(r)
         \/ Expiring(r) \/ RequestFails(r)
  PROVE  EntersEnrolled(r)
  <1>1. OwnStep(r)
    BY OwnOther
  <1> USE DEF EntersEnrolled, TypeOK
  <1>2. CASE Ends(r)
    BY <1>2 DEF Ends, Idle
  <1>3. CASE \E b \in BookingIds : CancelRead(r, b)
    BY <1>3 DEF CancelRead, Starts, Idle
  <1>4. CASE CreateEnrollment(r) \/ GenerateWeekly(r)
    BY <1>1, <1>4 DEF CreateEnrollment, GenerateWeekly, OwnStep
  <1>5. CASE \/ \E s \in Slots : GenerateRead(r, s)
             \/ \E b \in BookingIds : GenerateCommit(r, b)
    BY <1>1, <1>5 DEF GenerateRead, GenerateCommit, ScheduledBooking, At, EnrolledInv, OwnStep
  <1>6. CASE AdminGrantRead(r)
    BY <1>6 DEF AdminGrantRead, Starts, Idle
  <1>7. CASE ExpireRead(r)
    BY <1>7 DEF ExpireRead, Starts, Idle
  <1>8. CASE ResetRead(r)
    BY <1>8 DEF ResetRead, Starts, Idle
  <1>9. \/ Ends(r)
        \/ \E b \in BookingIds : CancelRead(r, b)
        \/ CreateEnrollment(r) \/ GenerateWeekly(r)
        \/ \E s \in Slots : GenerateRead(r, s)
        \/ \E b \in BookingIds : GenerateCommit(r, b)
        \/ AdminGrantRead(r) \/ ExpireRead(r) \/ ResetRead(r)
    BY DEF Cancelling, CancelRefunds, CancelKeeps, CancelFails, Generating,
           GeneratePauses, GenerateDone, Granting, AdminGrantCommit, Expiring,
           ExpireCommit, ResetCommit, RequestFails
  <1> QED
    BY <1>2, <1>3, <1>4, <1>5, <1>6, <1>7, <1>8, <1>9

LEMMA EnrolledStep ==
  ASSUME TypeOK, EnrolledInv, [Next]_vars
  PROVE  EnrolledInv'
  <1>1. \/ \E r \in Requests : EntersEnrolled(r)
        \/ UNCHANGED req
    BY EnterCreating, EnterOther
    DEF Next, GrantCredits, RevokeCredits, ExpireStaleTrials, TrialEnds,
        MonthPasses, vars
  <1>2. CASE UNCHANGED req
    BY <1>2, EnrollmentStays DEF EnrolledInv
  <1>3. ASSUME NEW r \in Requests, EntersEnrolled(r)
        PROVE  EnrolledInv'
    BY <1>3, EnrollmentStays DEF EnrolledInv, EntersEnrolled
  <1> QED
    BY <1>1, <1>2, <1>3

LEMMA OverdrawnStep ==
  ASSUME IInv, EnrolledInv, NotOverdrawn, [Next]_vars
  PROVE  NotOverdrawn'
  <1> USE DEF IInv
  <1>1. enrollment' = "none" => enrollment = "none"
    BY EnrollmentStays
  <1>2. ASSUME NEW r \in Requests, DeductCredits(r)
        PROVE  NotOverdrawn'
    <2> DEFINE rest == req[r].credits - req[r].cost
    <2>1. /\ req[r].credits = IF req[r].trial THEN account.trial ELSE account.sub
          /\ rest \in Int /\ rest >= 0
      BY <1>2 DEF DeductCredits, Affords, LockInv, TypeOK, Request
    <2>2. CASE req[r].trial
      <3>1. account'.trial = rest /\ account'.sub = account.sub
        BY <1>2, <2>2 DEF DeductCredits, Charged, TypeOK, Account
      <3> QED
        BY <1>1, <2>1, <3>1 DEF NotOverdrawn
    <2>3. CASE ~ req[r].trial
      <3>1. account'.sub = rest /\ account'.trial = account.trial
        BY <1>2, <2>3 DEF DeductCredits, Charged, TypeOK, Account
      <3> QED
        BY <2>1, <3>1 DEF NotOverdrawn
    <2> QED
      BY <2>2, <2>3
  <1>3. ASSUME NEW r \in Requests, Writes(r)
        PROVE  NotOverdrawn'
    <2>1. CASE CancelRefunds(r)
      <3> DEFINE n == Repaid(req[r].b)
      <3>1. n \in Nat
        <4>1. req[r].b \in BookingIds
          BY <2>1, CancelsBooking DEF CancelRefunds
        <4> QED
          BY <4>1, CreditAssumption DEF Repaid, TypeOK, Booking
      <3>2. CASE booking[req[r].b].trial
        <4>1. account' = TrialRepaid(account, n)
          BY <2>1, <3>2 DEF CancelRefunds
        <4> HIDE DEF n
        <4>2. account'.trial = account.trial + n /\ account'.sub = account.sub
          BY <4>1 DEF TrialRepaid, TypeOK, Account
        <4>3. account.trial \in Int
          BY DEF TypeOK, Account
        <4> QED
          BY <1>1, <3>1, <4>2, <4>3 DEF NotOverdrawn
      <3>3. CASE ~ booking[req[r].b].trial
        <4>1. account' = [account EXCEPT !.sub = account.sub + n]
          BY <2>1, <3>3 DEF CancelRefunds
        <4> HIDE DEF n
        <4>2. account'.sub = account.sub + n /\ account'.trial = account.trial
          BY <4>1 DEF TypeOK, Account
        <4>3. account.sub \in Int
          BY DEF TypeOK, Account
        <4> QED
          BY <1>1, <3>1, <4>2, <4>3 DEF NotOverdrawn
      <3> QED
        BY <3>2, <3>3
    <2>2. CASE CreateEnrollment(r)
      BY <2>2 DEF CreateEnrollment, NotOverdrawn, TypeOK, Account
    <2>3. CASE \E b \in BookingIds : GenerateCommit(r, b)
      <3>1. account'.trial = account.trial
        BY <2>3 DEF GenerateCommit, ScheduledBooking, TypeOK, Account
      <3>2. enrollment # "none"
        BY <2>3 DEF GenerateCommit, ScheduledBooking, At, EnrolledInv
      <3> QED
        BY <1>1, <3>1, <3>2 DEF NotOverdrawn
    <2>4. CASE AdminGrantCommit(r)
      <3>1. /\ account.trial \in Int /\ account.sub \in Int
            /\ GrantedCredits \in Nat
        BY CreditAssumption DEF TypeOK, Account
      <3>2. \/ /\ account'.sub = account.sub + GrantedCredits
               /\ account'.trial = account.trial
            \/ /\ account'.trial = account.trial + GrantedCredits
               /\ account'.sub = account.sub
        <4>1. CASE req[r].learning
          <5>1. account' = [account EXCEPT !.sub = account.sub + GrantedCredits]
            BY <2>4, <4>1 DEF AdminGrantCommit
          <5> QED
            BY <5>1 DEF TypeOK, Account
        <4>2. CASE ~ req[r].learning
          <5>1. account' = [account EXCEPT
                              !.trial = account.trial + GrantedCredits,
                              !.trialActive = TRUE]
            BY <2>4, <4>2 DEF AdminGrantCommit
          <5> QED
            BY <5>1 DEF TypeOK, Account
        <4> QED
          BY <4>1, <4>2
      <3> QED
        BY <1>1, <3>1, <3>2 DEF NotOverdrawn
    <2>5. CASE ExpireCommit(r) \/ ResetCommit(r)
      <3>1. account' = SubscriptionTaken(account)
        BY <2>5 DEF ExpireCommit, ResetCommit
      <3>2. account'.trial = account.trial /\ account'.sub = 0
        BY <3>1 DEF SubscriptionTaken, TypeOK, Account
      <3> QED
        BY <3>2 DEF NotOverdrawn
    <2> QED
      BY <1>3, <2>1, <2>2, <2>3, <2>4, <2>5 DEF Writes
  <1>4. CASE GrantCredits
    BY <1>4, CreditAssumption DEF GrantCredits, NotOverdrawn, TypeOK, Account
  <1>5. CASE RevokeCredits
    BY <1>5
    DEF RevokeCredits, SubscriptionTaken, NotOverdrawn, TypeOK, Account
  <1>6. CASE SameBalances
    BY <1>1, <1>6 DEF SameBalances, NotOverdrawn
  <1>7. \/ SameBalances
        \/ \E r \in Requests : Writes(r) \/ DeductCredits(r)
        \/ GrantCredits
        \/ RevokeCredits
    <2>1. CASE Requests = {}
      BY <2>1
      DEF Next, ExpireStaleTrials, TrialEnds, MonthPasses, vars, rows, TypeOK,
          Account, SameBalances
    <2>2. CASE Requests # {}
      BY <2>2, OthersKeep
    <2> QED
      BY <2>1, <2>2
  <1> QED
    BY <1>2, <1>3, <1>4, <1>5, <1>6, <1>7

\* The trial's balance never falls below 0, and the subscription's not as long
\* as no enrollment decrements it unchecked (deductCredits and its refusals).
THEOREM NeverOverdrawn == Spec => []NotOverdrawn
  <1>1. Init => EnrolledInv /\ NotOverdrawn
    BY CreditAssumption DEF Init, EnrolledInv, NotOverdrawn, Idle
  <1>2. IInv /\ EnrolledInv /\ NotOverdrawn /\ [Next]_vars
          => (EnrolledInv /\ NotOverdrawn)'
    BY EnrolledStep, OverdrawnStep DEF IInv
  <1> QED
    BY <1>1, <1>2, Inductive, PTL DEF Spec

-----------------------------------------------------------------------------
(* Bookings and what was charged for them *)

\* Request q has made booking b and has not yet been through with its charge.
Creates(q, b) ==
    q.op = "create" /\ q.pc \in {"deduct", "write", "delete"} /\ q.b = b

\* Booking b is still to be made by one request at most; while one is at it, it
\* was not charged and nobody else is; when nobody is, it was charged once.
Paid(b) ==
    /\ \A r \in Requests : b \in req[r].todo =>
          /\ booking[b].status = "absent"
          /\ \A s \in Requests : b \in req[s].todo => s = r
    /\ \A r \in Requests : Creates(req[r], b) =>
          /\ Exists(b) /\ booking[b].charges = 0
          /\ \A s \in Requests : Creates(req[s], b) => s = r
    /\ booking[b].status \in {"absent", "deleted"} => booking[b].charges = 0
    /\ faults = 0 /\ Exists(b) =>
          booking[b].charges = 1 \/ \E r \in Requests : Creates(req[r], b)

PaidInv == \A b \in BookingIds : Paid(b)

LEMMA NothingToMake == Idle.todo = {} /\ \A b : ~ Creates(Idle, b)
  BY DEF Idle, Creates

LEMMA ReqAfter ==
  ASSUME TypeOK, NEW r \in Requests, NEW q, req' = [req EXCEPT ![r] = q]
  PROVE  \A s \in Requests : req'[s] = IF s = r THEN q ELSE req[s]
  BY DEF TypeOK

\* A step that makes no booking and neither charges nor deletes one.
LEMMA PaidKept ==
  ASSUME TypeOK, PaidInv, NEW r \in Requests, NEW q,
         req' = [req EXCEPT ![r] = q], faults' = faults,
         q.todo \subseteq req[r].todo,
         \A b \in BookingIds : Creates(q, b) <=> Creates(req[r], b),
         \A b \in BookingIds : /\ booking'[b].charges = booking[b].charges
                               /\ booking'[b].status = booking[b].status
                                  \/ (Exists(b) /\ Exists(b)')
  PROVE  PaidInv'
  <1> SUFFICES ASSUME NEW b \in BookingIds PROVE Paid(b)'
    BY DEF PaidInv
  <1>1. Paid(b)
    BY DEF PaidInv
  <1>2. \A s \in Requests : /\ b \in req'[s].todo => b \in req[s].todo
                            /\ Creates(req'[s], b) <=> Creates(req[s], b)
    BY ReqAfter
  <1>3. /\ booking'[b].charges = booking[b].charges
        /\ Exists(b)' <=> Exists(b)
        /\ booking[b].status = "absent" => booking'[b].status = "absent"
        /\ booking'[b].status \in {"absent", "deleted"} =>
              booking[b].status \in {"absent", "deleted"}
    BY DEF Exists
  <1> QED
    BY <1>1, <1>2, <1>3 DEF Paid

\* A step that leaves every booking as it is.
LEMMA PaidSame ==
  ASSUME TypeOK, PaidInv, NEW r \in Requests, NEW q,
         req' = [req EXCEPT ![r] = q], faults' = faults, booking' = booking,
         q.todo \subseteq req[r].todo,
         \A b \in BookingIds : Creates(q, b) <=> Creates(req[r], b)
  PROVE  PaidInv'
  BY PaidKept

\* A step of r about booking b alone, after which r is not at it.
LEMMA PaidAt ==
  ASSUME TypeOK, PaidInv, NEW r \in Requests, NEW q, NEW b \in BookingIds,
         req' = [req EXCEPT ![r] = q], faults' = faults,
         q.todo \subseteq req[r].todo,
         \A c \in BookingIds : c # b =>
            booking'[c] = booking[c] /\ (Creates(q, c) <=> Creates(req[r], c)),
         Paid(b)'
  PROVE  PaidInv'
  <1> SUFFICES ASSUME NEW c \in BookingIds, c # b PROVE Paid(c)'
    BY DEF PaidInv
  <1>1. Paid(c)
    BY DEF PaidInv
  <1>2. \A s \in Requests : /\ c \in req'[s].todo => c \in req[s].todo
                            /\ Creates(req'[s], c) <=> Creates(req[s], c)
    BY ReqAfter
  <1> QED
    BY <1>1, <1>2 DEF Paid, Exists

LEMMA PaidCreating ==
  ASSUME TypeOK, PaidInv, NEW r \in Requests, Creating(r)
  PROVE  PaidInv'
  <1>0. faults' = faults
    BY DEF Creating, CreateRead, CreateRow, DeductRead, DeductCredits, DeductFails,
       DeleteBooking, bounds
  <1>1. ASSUME NEW subjects \in SUBSET BookingIds, CreateRead(r, subjects)
        PROVE  PaidInv'
    <2> DEFINE q == [Idle EXCEPT !.op = "create", !.pc = "row", !.todo = subjects,
                                 !.cost = BookingCreditCost, !.trial = ~ OnPlan]
    <2>1. q.todo = subjects /\ q.pc = "row"
      BY DEF Idle
    <2>2. /\ req[r] = Idle /\ req' = [req EXCEPT ![r] = q] /\ booking' = booking
          /\ \A b \in subjects : Unused(b)
      BY <1>1 DEF CreateRead, Starts, rows
    <2> HIDE DEF q
    <2>3. \A s \in Requests : req'[s] = IF s = r THEN q ELSE req[s]
      BY <2>2, ReqAfter
    <2>4. \A b : \A s \in Requests : Creates(req'[s], b) <=> Creates(req[s], b)
      BY <2>1, <2>2, <2>3, NothingToMake DEF Creates
    <2> SUFFICES ASSUME NEW b \in BookingIds PROVE Paid(b)'
      BY DEF PaidInv
    <2>5. Paid(b)
      BY DEF PaidInv
    <2>6. CASE b \in subjects
      <3>1. booking[b].status = "absent" /\ \A s \in Requests : b \notin req[s].todo
        BY <2>2, <2>6 DEF Unused
      <3> QED
        BY <1>0, <2>2, <2>3, <2>4, <2>5, <3>1 DEF Paid, Exists
    <2>7. CASE b \notin subjects
      <3>1. \A s \in Requests : b \in req'[s].todo => b \in req[s].todo
        BY <2>1, <2>3, <2>7
      <3> QED
        BY <1>0, <2>2, <2>4, <2>5, <3>1 DEF Paid, Exists
    <2> QED
      BY <2>6, <2>7
  <1>2. ASSUME NEW b \in BookingIds, CreateRow(r, b)
        PROVE  PaidInv'
    <2> DEFINE q == [req[r] EXCEPT !.pc = "deduct", !.b = b, !.todo = @ \ {b}]
    <2>1. /\ q.op = req[r].op /\ q.pc = "deduct" /\ q.b = b /\ q.todo = req[r].todo \ {b}
      BY DEF TypeOK, Request
    <2>2. /\ req' = [req EXCEPT ![r] = q] /\ req[r].op = "create" /\ req[r].pc = "row"
          /\ b \in req[r].todo
      BY <1>2 DEF CreateRow, At, TypeOK
    <2>3. /\ booking'[b].status = "booked" /\ booking'[b].charges = booking[b].charges
          /\ \A c \in BookingIds : c # b => booking'[c] = booking[c]
      BY <1>2 DEF CreateRow, TypeOK, Booking
    <2> HIDE DEF q
    <2>4. \A s \in Requests : req'[s] = IF s = r THEN q ELSE req[s]
      BY <2>2, ReqAfter
    <2>5. Paid(b) /\ booking[b].status = "absent"
      BY <2>2 DEF PaidInv, Paid
    <2>6. \A s \in Requests : ~ Creates(req[s], b) /\ (b \in req[s].todo => s = r)
      BY <2>2, <2>5 DEF Paid, Exists
    <2>7. Creates(q, b) /\ \A c \in BookingIds : c # b => ~ Creates(q, c)
      BY <2>1, <2>2 DEF Creates
    <2>8. \A c \in BookingIds : ~ Creates(req[r], c)
      BY <2>2 DEF Creates
    <2>9. Paid(b)'
      <3>1. booking'[b].charges = 0 /\ Exists(b)'
        BY <2>3, <2>5 DEF Paid, Exists
      <3>2. /\ \A s \in Requests : b \notin req'[s].todo /\ (Creates(req'[s], b) => s = r)
            /\ Creates(req'[r], b)
        BY <2>1, <2>4, <2>6, <2>7
      <3> QED
        BY <3>1, <3>2 DEF Paid, Exists
    <2> QED
      BY <1>0, <2>1, <2>2, <2>3, <2>7, <2>8, <2>9, PaidAt
  <1>3. CASE DeductRead(r)
    <2> DEFINE q == [req[r] EXCEPT
                       !.pc = "write",
                       !.credits = IF req[r].trial THEN account.trial ELSE account.sub,
                       !.used = account.used]
    <2>1. q.op = req[r].op /\ q.b = req[r].b /\ q.todo = req[r].todo /\ q.pc = "write"
      BY DEF TypeOK, Request
    <2>2. /\ req' = [req EXCEPT ![r] = q] /\ booking' = booking
          /\ req[r].op = "create" /\ req[r].pc = "deduct"
      BY <1>3 DEF DeductRead, At, TypeOK, rows
    <2> HIDE DEF q
    <2>3. \A b \in BookingIds : Creates(q, b) <=> Creates(req[r], b)
      BY <2>1, <2>2 DEF Creates
    <2> QED
      BY <1>0, <2>1, <2>2, <2>3, PaidSame
  <1>4. CASE DeductCredits(r)
    <2>1. PICK b \in BookingIds : b = req[r].b /\ req[r] \in Request /\ Creates(req[r], b)
      BY <1>4 DEF DeductCredits, At, TypeOK, Request, Creates
    <2>2. PICK q : /\ req' = [req EXCEPT ![r] = q] /\ q.todo \subseteq req[r].todo
                   /\ \A c : ~ Creates(q, c)
      <3>1. CASE req[r].todo = {}
        BY <1>4, <3>1, NothingToMake DEF DeductCredits, TypeOK
      <3>2. CASE req[r].todo # {}
        <4> DEFINE q == [req[r] EXCEPT !.pc = "row", !.b = None, !.credits = 0, !.used = 0]
        <4>1. req' = [req EXCEPT ![r] = q]
          BY <1>4, <3>2 DEF DeductCredits, TypeOK
        <4>2. q.todo = req[r].todo /\ q.pc = "row"
          BY <2>1 DEF Request
        <4>3. \A c : ~ Creates(q, c)
          BY <4>2 DEF Creates
        <4> QED
          BY <4>1, <4>2, <4>3
      <3> QED
        BY <3>1, <3>2
    <2>3. /\ booking'[b].status = booking[b].status
          /\ booking'[b].charges = booking[b].charges + 1
          /\ \A c \in BookingIds : c # b => booking'[c] = booking[c]
      BY <1>4, <2>1 DEF DeductCredits, TypeOK, Booking
    <2>4. \A s \in Requests : req'[s] = IF s = r THEN q ELSE req[s]
      BY <2>2, ReqAfter
    <2>5. Paid(b) /\ Exists(b) /\ booking[b].charges = 0
      BY <2>1 DEF PaidInv, Paid
    <2>6. \A s \in Requests : b \notin req[s].todo /\ (Creates(req[s], b) => s = r)
      BY <2>1, <2>5 DEF Paid, Exists
    <2>7. Paid(b)'
      <3>1. booking'[b].charges = 1 /\ Exists(b)'
        BY <2>3, <2>5 DEF Exists
      <3>2. \A s \in Requests : b \notin req'[s].todo /\ ~ Creates(req'[s], b)
        BY <2>2, <2>4, <2>6
      <3> QED
        BY <3>1, <3>2 DEF Paid, Exists
    <2>8. \A c \in BookingIds : c # b => ~ Creates(req[r], c)
      BY <2>1 DEF Creates
    <2> QED
      BY ZenonT(60), <1>0, <2>1, <2>2, <2>3, <2>7, <2>8, PaidAt
  <1>5. CASE DeductFails(r)
    <2> DEFINE q == [req[r] EXCEPT !.pc = "delete"]
    <2>1. q.op = req[r].op /\ q.b = req[r].b /\ q.todo = req[r].todo /\ q.pc = "delete"
      BY DEF TypeOK, Request
    <2>2. /\ req' = [req EXCEPT ![r] = q] /\ booking' = booking
          /\ req[r].op = "create" /\ req[r].pc = "write"
      BY <1>5 DEF DeductFails, GoesTo, At, TypeOK, rows
    <2> HIDE DEF q
    <2>3. \A b \in BookingIds : Creates(q, b) <=> Creates(req[r], b)
      BY <2>1, <2>2 DEF Creates
    <2> QED
      BY <1>0, <2>1, <2>2, <2>3, PaidSame
  <1>6. CASE DeleteBooking(r)
    <2>1. PICK b \in BookingIds : b = req[r].b /\ req[r] \in Request /\ Creates(req[r], b)
      BY <1>6 DEF DeleteBooking, At, TypeOK, Request, Creates
    <2>2. /\ req' = [req EXCEPT ![r] = Idle] /\ Idle.todo \subseteq req[r].todo
          /\ \A c : ~ Creates(Idle, c)
      BY <1>6, NothingToMake DEF DeleteBooking, Ends
    <2>3. /\ booking'[b].status = "deleted"
          /\ booking'[b].charges = booking[b].charges
          /\ \A c \in BookingIds : c # b => booking'[c] = booking[c]
      BY <1>6, <2>1 DEF DeleteBooking, TypeOK, Booking
    <2>4. \A s \in Requests : req'[s] = IF s = r THEN Idle ELSE req[s]
      BY <2>2, ReqAfter
    <2>5. Paid(b) /\ Exists(b) /\ booking[b].charges = 0
      BY <2>1 DEF PaidInv, Paid
    <2>6. \A s \in Requests : b \notin req[s].todo /\ (Creates(req[s], b) => s = r)
      BY <2>1, <2>5 DEF Paid, Exists
    <2>7. Paid(b)'
      <3>2. \A s \in Requests : b \notin req'[s].todo /\ ~ Creates(req'[s], b)
        BY <2>2, <2>4, <2>6, NothingToMake
      <3> QED
        BY <2>3, <2>5, <3>2 DEF Paid, Exists
    <2>8. \A c \in BookingIds : c # b => ~ Creates(req[r], c)
      BY <2>1 DEF Creates
    <2> QED
      BY <1>0, <2>1, <2>2, <2>3, <2>7, <2>8, PaidAt
  <1> QED
    BY <1>1, <1>2, <1>3, <1>4, <1>5, <1>6 DEF Creating

\* A request that is not creating bookings and makes none: it may cancel one.
LEMMA PaidOther ==
  ASSUME TypeOK, PaidInv, NEW r \in Requests, NEW q,
         req' = [req EXCEPT ![r] = q], faults' = faults,
         q.todo \subseteq req[r].todo, q.op # "create", req[r].op # "create",
         \/ booking' = booking
         \/ \E b \in BookingIds, n \in {0, 1} : Exists(b) /\ Cancelled(b, n)
  PROVE  PaidInv'
  <1>1. \A b \in BookingIds : ~ Creates(q, b) /\ ~ Creates(req[r], b)
    BY DEF Creates
  <1>2. CASE booking' = booking
    BY <1>1, <1>2, PaidSame
  <1>3. ASSUME NEW b \in BookingIds, NEW n \in {0, 1}, Exists(b), Cancelled(b, n)
        PROVE  PaidInv'
    <2>1. booking[b] \in Booking
      BY DEF TypeOK
    <2>2. /\ booking'[b].charges = booking[b].charges /\ Exists(b)'
          /\ \A c \in BookingIds : c # b => booking'[c] = booking[c]
      BY <1>3, <2>1 DEF Cancelled, TypeOK, Booking, Exists
    <2>3. \A c \in BookingIds :
             /\ booking'[c].charges = booking[c].charges
             /\ booking'[c].status = booking[c].status \/ (Exists(c) /\ Exists(c)')
      BY <1>3, <2>2
    <2> QED
      BY <1>1, <2>3, PaidKept
  <1> QED
    BY <1>2, <1>3

LEMMA PaidCancelling ==
  ASSUME TypeOK, PaidInv, NEW r \in Requests, Cancelling(r)
  PROVE  PaidInv'
  <1>0. faults' = faults /\ Idle.todo = {} /\ Idle.op # "create"
    BY DEF Cancelling, CancelRead, CancelRefunds, CancelKeeps, CancelFails, bounds, Idle
  <1>1. ASSUME NEW b \in BookingIds, CancelRead(r, b)
        PROVE  PaidInv'
    <2> DEFINE q == [Idle EXCEPT !.op = "cancel", !.pc = "cancel", !.b = b]
    <2>1. q.todo = {} /\ q.op # "create"
      BY DEF Idle
    <2>2. req' = [req EXCEPT ![r] = q] /\ req[r] = Idle /\ booking' = booking
      BY <1>1 DEF CancelRead, Starts, rows
    <2> HIDE DEF q
    <2> QED
      BY <1>0, <2>1, <2>2, PaidOther
  <1>2. CASE CancelRefunds(r) \/ CancelKeeps(r) \/ CancelFails(r)
    <2>1. req' = [req EXCEPT ![r] = Idle] /\ At(r, "cancel", "cancel")
      BY <1>2 DEF CancelRefunds, CancelKeeps, CancelFails, Ends
    <2>2. req[r].b \in BookingIds /\ req[r].op # "create"
      BY <2>1, CancelsBooking DEF At
    <2>3. \/ booking' = booking
          \/ \E n \in {0, 1} : Exists(req[r].b) /\ Cancelled(req[r].b, n)
      BY <1>2 DEF CancelRefunds, CancelKeeps, CancelFails, rows
    <2> QED
      BY <1>0, <2>1, <2>2, <2>3, PaidOther
  <1> QED
    BY <1>1, <1>2 DEF Cancelling

LEMMA PaidGenerating ==
  ASSUME TypeOK, PaidInv, NEW r \in Requests, Generating(r)
  PROVE  PaidInv'
  <1>0. faults' = faults /\ Idle.todo = {} /\ Idle.op = "idle"
    BY DEF Generating, CreateEnrollment, GenerateWeekly, GenerateRead, GeneratePauses,
       GenerateDone, GenerateCommit, bounds, Idle
  <1>1. CASE Generates(r) /\ booking' = booking
    <2> DEFINE q == [Idle EXCEPT !.op = "generate", !.pc = "slot"]
    <2>1. q.todo = {} /\ q.op = "generate"
      BY DEF Idle
    <2>2. req' = [req EXCEPT ![r] = q] /\ req[r] = Idle /\ booking' = booking
      BY <1>1 DEF Generates, Starts
    <2> HIDE DEF q
    <2> QED
      BY <1>0, <2>1, <2>2, PaidOther
  <1>2. ASSUME NEW s \in Slots, GenerateRead(r, s)
        PROVE  PaidInv'
    <2> DEFINE q == [req[r] EXCEPT !.pc = "commit", !.slot = s]
    <2>1. q.todo = req[r].todo /\ q.op = req[r].op
      BY DEF TypeOK, Request
    <2>2. req' = [req EXCEPT ![r] = q] /\ req[r].op = "generate" /\ booking' = booking
      BY <1>2 DEF GenerateRead, At, TypeOK, rows
    <2> HIDE DEF q
    <2> QED
      BY <1>0, <2>1, <2>2, PaidOther
  <1>3. CASE GeneratePauses(r) \/ GenerateDone(r)
    <2>1. req' = [req EXCEPT ![r] = Idle] /\ req[r].op = "generate" /\ booking' = booking
      BY <1>3 DEF GeneratePauses, GenerateDone, Ends, At, rows
    <2> QED
      BY <1>0, <2>1, PaidOther
  <1>4. ASSUME NEW b \in BookingIds, GenerateCommit(r, b)
        PROVE  PaidInv'
    <2> DEFINE q == [req[r] EXCEPT !.pc = "slot", !.slot = None]
    <2>1. q.todo = req[r].todo /\ q.op = req[r].op
      BY DEF TypeOK, Request
    <2>2. req' = [req EXCEPT ![r] = q] /\ req[r].op = "generate" /\ Unused(b)
      BY <1>4 DEF GenerateCommit, At, TypeOK
    <2> HIDE DEF q
    <2>3. \A s \in Requests : req'[s] = IF s = r THEN q ELSE req[s]
      BY <2>2, ReqAfter
    <2>4. /\ booking'[b].status = "booked" /\ booking'[b].charges = 1
          /\ \A c \in BookingIds : c # b => booking'[c] = booking[c]
      BY <1>4 DEF GenerateCommit, ScheduledBooking, TypeOK, Booking
    <2>5. \A c \in BookingIds : ~ Creates(q, c) /\ ~ Creates(req[r], c)
      BY <2>1, <2>2 DEF Creates
    <2>6. \A s \in Requests : b \notin req[s].todo /\ ~ Creates(req[s], b)
      BY <2>2 DEF Unused, PaidInv, Paid, Exists
    <2>7. Paid(b)'
      <3>1. \A s \in Requests : b \notin req'[s].todo /\ ~ Creates(req'[s], b)
        BY <2>1, <2>3, <2>5, <2>6
      <3> QED
        BY <2>4, <3>1 DEF Paid, Exists
    <2> QED
      BY ZenonT(60), <1>0, <2>1, <2>2, <2>4, <2>5, <2>7, PaidAt
  <1> QED
    BY <1>1, <1>2, <1>3, <1>4 DEF Generating, CreateEnrollment, GenerateWeekly, rows

LEMMA PaidGranting ==
  ASSUME TypeOK, PaidInv, NEW r \in Requests, Granting(r) \/ Expiring(r)
  PROVE  PaidInv'
  <1> DEFINE known == {"grant", "expire", "reset"}
  <1>1. booking' = booking /\ faults' = faults
    BY DEF Granting, AdminGrantRead, AdminGrantCommit, Expiring, ExpireRead, ExpireCommit,
       ResetRead, ResetCommit, TopUp, rows, bounds
  <1>2. Idle.todo = {} /\ Idle.op = "idle"
    BY DEF Idle
  <1>3. ASSUME NEW q, req[r] = Idle, req' = [req EXCEPT ![r] = q], q.todo = {}, q.op \in known
        PROVE  PaidInv'
    BY <1>1, <1>2, <1>3, PaidOther
  <1>4. CASE AdminGrantRead(r)
    <2> DEFINE q == [Idle EXCEPT !.op = "grant", !.pc = "commit",
                                 !.learning = account.learning]
    <2>1. q.todo = {} /\ q.op = "grant"
      BY DEF Idle
    <2> HIDE DEF q
    <2> QED
      BY <1>3, <1>4, <2>1 DEF AdminGrantRead, Starts, q
  <1>5. CASE ExpireRead(r)
    <2> DEFINE q == [Idle EXCEPT !.op = "expire", !.pc = "commit"]
    <2>1. q.todo = {} /\ q.op = "expire"
      BY DEF Idle
    <2> HIDE DEF q
    <2> QED
      BY <1>3, <1>5, <2>1 DEF ExpireRead, Starts, q
  <1>6. CASE ResetRead(r)
    <2> DEFINE q == [Idle EXCEPT !.op = "reset", !.pc = "commit"]
    <2>1. q.todo = {} /\ q.op = "reset"
      BY DEF Idle
    <2> HIDE DEF q
    <2> QED
      BY <1>3, <1>6, <2>1 DEF ResetRead, Starts, q
  <1>7. CASE AdminGrantCommit(r) \/ ExpireCommit(r) \/ ResetCommit(r)
    <2>1. req' = [req EXCEPT ![r] = Idle] /\ req[r].op \in known
      BY <1>7 DEF AdminGrantCommit, ExpireCommit, ResetCommit, Ends, At
    <2> QED
      BY <1>1, <1>2, <2>1, PaidOther
  <1> QED
    BY <1>4, <1>5, <1>6, <1>7 DEF Granting, Expiring

LEMMA PaidInit == Init => PaidInv
  BY NothingToMake DEF Init, PaidInv, Paid, NoBooking, Exists

LEMMA PaidNext == TypeOK /\ PaidInv /\ [Next]_vars => PaidInv'
  <1> SUFFICES ASSUME TypeOK, PaidInv, [Next]_vars PROVE PaidInv'
    OBVIOUS
  <1>1. ASSUME NEW r \in Requests, RequestFails(r)
        PROVE  PaidInv'
    <2>1. req' = [req EXCEPT ![r] = Idle] /\ booking' = booking
      BY <1>1 DEF RequestFails, Ends, rows
    <2>2. faults' # 0
      BY <1>1, BoundAssumption DEF RequestFails, TypeOK
    <2>3. \A s \in Requests : req'[s] = IF s = r THEN Idle ELSE req[s]
      BY <2>1, ReqAfter
    <2> SUFFICES ASSUME NEW b \in BookingIds PROVE Paid(b)'
      BY DEF PaidInv
    <2>4. \A s \in Requests : /\ b \in req'[s].todo => b \in req[s].todo
                              /\ Creates(req'[s], b) => Creates(req[s], b)
      BY <2>3, NothingToMake
    <2>5. Paid(b)
      BY DEF PaidInv
    <2> QED
      BY <2>1, <2>2, <2>4, <2>5 DEF Paid, Exists
  <1>2. CASE UNCHANGED <<booking, req, faults>>
    BY <1>2 DEF PaidInv, Paid, Exists
  <1>3. CASE Outside \/ UNCHANGED vars
    <2>1. UNCHANGED <<booking, req, faults>>
      BY <1>3 DEF Outside, GrantCredits, RevokeCredits, ExpireStaleTrials, TrialEnds,
         MonthPasses, TopUp, vars, rows, bounds
    <2> QED
      BY <1>2, <2>1
  <1> QED
    BY <1>1, <1>3, PaidCreating, PaidCancelling, PaidGenerating, PaidGranting
    DEF Next, Outside

\* A booking that stands or was cancelled was charged exactly once when its request
\* is through, one that was refused and deleted never: whatever cancels, sells,
\* expires or fails in between the row, the deduction and the deletion.
THEOREM ChargedOnce == Spec => []BookedIsCharged
  <1>1. PaidInv => BookedIsCharged
    BY DEF PaidInv, Paid, BookedIsCharged, WorkedOn, Creates
  <1> QED
    BY <1>1, PaidInit, PaidNext, TypeInit, TypeStep, PTL DEF Spec

-----------------------------------------------------------------------------
(* Slots of the enrollment *)

\* A booking that is not made yet has no slot, and no slot has more bookings and
\* generators about to make one than requests run at one time.
SlotInv ==
    /\ \A b \in BookingIds :
          booking[b].status = "absent" => booking[b].slot = None
    /\ \A s \in Slots :
          /\ IsFiniteSet(BookedFor(s))
          /\ Cardinality(BookedFor(s)) + Cardinality(BookingFor(s))
                <= Cardinality(Requests)

\* Booking b is not booked for a slot it was not booked for before.
SlotStays(b) ==
    /\ booking'[b].slot = booking[b].slot
    /\ booking'[b].status = "absent" => booking[b].status = "absent"
    /\ Exists(b)' => Exists(b) \/ booking[b].status = "absent"

\* Request r does not come to book a slot.
BooksNoOther(r) ==
    At(r, "generate", "commit")' => req'[r] = req[r]

LEMMA RequestsAreFinite ==
  ASSUME NEW s
  PROVE  IsFiniteSet(BookingFor(s)) /\ Cardinality(BookingFor(s)) \in Nat
         /\ Cardinality(BookingFor(s)) <= Cardinality(Requests)
         /\ Cardinality(Requests) \in Nat
  <1>1. BookingFor(s) \subseteq Requests
    BY DEF BookingFor
  <1> QED
    BY <1>1, FiniteAssumption, FS_Subset, FS_CardinalityType

\* Fewer bookings and fewer generators keep the bound.
LEMMA FewerKeep ==
  ASSUME NEW A, NEW B, NEW C, NEW D, IsFiniteSet(A), IsFiniteSet(C),
         B \subseteq A, D \subseteq C, NEW n \in Nat,
         Cardinality(A) + Cardinality(C) <= n
  PROVE  IsFiniteSet(B) /\ Cardinality(B) + Cardinality(D) <= n
  <1>1. /\ IsFiniteSet(B) /\ IsFiniteSet(D)
        /\ Cardinality(B) <= Cardinality(A) /\ Cardinality(D) <= Cardinality(C)
    BY FS_Subset
  <1>2. PICK a \in Nat, b \in Nat, c \in Nat, d \in Nat :
           /\ a = Cardinality(A) /\ b = Cardinality(B)
           /\ c = Cardinality(C) /\ d = Cardinality(D)
    BY <1>1, FS_CardinalityType
  <1>3. b <= a /\ d <= c /\ a + c <= n
    BY <1>1, <1>2
  <1>4. b + d <= n
    BY <1>3
  <1> QED
    BY <1>1, <1>2, <1>4

LEMMA SlotKept ==
  ASSUME SlotInv, \A b \in BookingIds : SlotStays(b),
         \A r \in Requests : BooksNoOther(r)
  PROVE  SlotInv'
  <1>1. \A b \in BookingIds :
           booking'[b].status = "absent" => booking'[b].slot = None
    BY DEF SlotInv, SlotStays
  <1>2. ASSUME NEW s \in Slots
        PROVE  /\ IsFiniteSet(BookedFor(s)')
               /\ Cardinality(BookedFor(s)') + Cardinality(BookingFor(s)')
                     <= Cardinality(Requests)
    <2>1. BookedFor(s)' \subseteq BookedFor(s)
      BY NoneAssumption DEF SlotInv, SlotStays, BookedFor
    <2>2. BookingFor(s)' \subseteq BookingFor(s)
      BY DEF BooksNoOther, BookingFor, At
    <2>3. /\ IsFiniteSet(BookedFor(s))
          /\ Cardinality(BookedFor(s)) + Cardinality(BookingFor(s))
                <= Cardinality(Requests)
      BY DEF SlotInv
    <2>4. IsFiniteSet(BookingFor(s)) /\ Cardinality(Requests) \in Nat
      BY RequestsAreFinite
    <2> QED
      BY <2>1, <2>2, <2>3, <2>4, FewerKeep
  <1> QED
    BY <1>1, <1>2 DEF SlotInv

\* A step after which request r, the only one that moves, is not to book a slot.
LEMMA MovesOn ==
  ASSUME TypeOK, NEW r \in Requests, NEW q, req' = [req EXCEPT ![r] = q],
         q.op # "generate" \/ q.pc # "commit"
  PROVE  \A s \in Requests : BooksNoOther(s)
  BY DEF TypeOK, BooksNoOther, At

LEMMA BookingsStay ==
  ASSUME booking' = booking
  PROVE  \A b \in BookingIds : SlotStays(b)
  BY DEF SlotStays, Exists

LEMMA IdleAt == Idle.op = "idle" /\ Idle.pc = "idle"
  BY DEF Idle

LEMMA SlotCreating ==
  ASSUME TypeOK, PaidInv, SlotInv, NEW r \in Requests, Creating(r)
  PROVE  SlotInv'
  <1>1. ASSUME NEW subjects \in SUBSET BookingIds, CreateRead(r, subjects)
        PROVE  SlotInv'
    <2> DEFINE q == [Idle EXCEPT !.op = "create", !.pc = "row", !.todo = subjects,
                                 !.cost = BookingCreditCost, !.trial = ~ OnPlan]
    <2>1. q.op = "create"
      BY DEF Idle
    <2>2. req' = [req EXCEPT ![r] = q] /\ booking' = booking
      BY <1>1 DEF CreateRead, Starts, rows
    <2> HIDE DEF q
    <2> QED
      BY <2>1, <2>2, MovesOn, BookingsStay, SlotKept
  <1>2. ASSUME NEW b \in BookingIds, CreateRow(r, b)
        PROVE  SlotInv'
    <2> DEFINE q == [req[r] EXCEPT !.pc = "deduct", !.b = b, !.todo = @ \ {b}]
    <2>1. q.pc = "deduct"
      BY DEF TypeOK, Request
    <2>2. req' = [req EXCEPT ![r] = q] /\ b \in req[r].todo
      BY <1>2 DEF CreateRow, At, TypeOK
    <2>3. booking[b].status = "absent"
      BY <2>2 DEF PaidInv, Paid
    <2>4. /\ booking'[b].status = "booked" /\ booking'[b].slot = booking[b].slot
          /\ \A c \in BookingIds : c # b => booking'[c] = booking[c]
      BY <1>2 DEF CreateRow, TypeOK, Booking
    <2>5. \A c \in BookingIds : SlotStays(c)
      BY <2>3, <2>4 DEF SlotStays, Exists
    <2> HIDE DEF q
    <2> QED
      BY <2>1, <2>2, <2>5, MovesOn, SlotKept
  <1>3. CASE DeductRead(r)
    <2> DEFINE q == [req[r] EXCEPT
                       !.pc = "write",
                       !.credits = IF req[r].trial THEN account.trial ELSE account.sub,
                       !.used = account.used]
    <2>1. q.pc = "write"
      BY DEF TypeOK, Request
    <2>2. req' = [req EXCEPT ![r] = q] /\ booking' = booking
      BY <1>3 DEF DeductRead, TypeOK, rows
    <2> HIDE DEF q
    <2> QED
      BY <2>1, <2>2, MovesOn, BookingsStay, SlotKept
  <1>4. CASE DeductCredits(r)
    <2>0. req[r] \in Request /\ req[r].pc = "write"
      BY <1>4 DEF DeductCredits, At, TypeOK
    <2>1. PICK b \in BookingIds : b = req[r].b /\ req[r] \in Request
      BY <2>0 DEF Request
    <2>2. PICK q : req' = [req EXCEPT ![r] = q] /\ q.pc # "commit"
      <3>1. CASE req[r].todo = {}
        BY <1>4, <3>1, IdleAt DEF DeductCredits, TypeOK
      <3>2. CASE req[r].todo # {}
        <4> DEFINE q == [req[r] EXCEPT !.pc = "row", !.b = None, !.credits = 0, !.used = 0]
        <4>1. req' = [req EXCEPT ![r] = q]
          BY <1>4, <3>2 DEF DeductCredits, TypeOK
        <4>2. q.pc = "row"
          BY <2>1 DEF Request
        <4> QED
          BY <4>1, <4>2
      <3> QED
        BY <3>1, <3>2
    <2>3. /\ booking'[b].status = booking[b].status
          /\ booking'[b].slot = booking[b].slot
          /\ \A c \in BookingIds : c # b => booking'[c] = booking[c]
      BY <1>4, <2>1 DEF DeductCredits, TypeOK, Booking
    <2>4. \A c \in BookingIds : SlotStays(c)
      BY <2>3 DEF SlotStays, Exists
    <2> QED
      BY <2>2, <2>4, MovesOn, SlotKept
  <1>5. CASE DeductFails(r)
    <2> DEFINE q == [req[r] EXCEPT !.pc = "delete"]
    <2>1. q.pc = "delete"
      BY DEF TypeOK, Request
    <2>2. req' = [req EXCEPT ![r] = q] /\ booking' = booking
      BY <1>5 DEF DeductFails, GoesTo, TypeOK, rows
    <2> HIDE DEF q
    <2> QED
      BY <2>1, <2>2, MovesOn, BookingsStay, SlotKept
  <1>6. CASE DeleteBooking(r)
    <2>0. req[r] \in Request /\ req[r].pc = "delete"
      BY <1>6 DEF DeleteBooking, At, TypeOK
    <2>1. PICK b \in BookingIds : b = req[r].b
      BY <2>0 DEF Request
    <2>2. req' = [req EXCEPT ![r] = Idle]
      BY <1>6 DEF DeleteBooking, Ends
    <2>3. /\ booking'[b].status = "deleted"
          /\ booking'[b].slot = booking[b].slot
          /\ \A c \in BookingIds : c # b => booking'[c] = booking[c]
      BY <1>6, <2>1 DEF DeleteBooking, TypeOK, Booking
    <2>4. \A c \in BookingIds : SlotStays(c)
      BY <2>3 DEF SlotStays, Exists
    <2> QED
      BY <2>2, <2>4, IdleAt, MovesOn, SlotKept
  <1> QED
    BY <1>1, <1>2, <1>3, <1>4, <1>5, <1>6 DEF Creating

LEMMA SlotCancelling ==
  ASSUME TypeOK, SlotInv, NEW r \in Requests, Cancelling(r)
  PROVE  SlotInv'
  <1>1. ASSUME NEW b \in BookingIds, CancelRead(r, b)
        PROVE  SlotInv'
    <2> DEFINE q == [Idle EXCEPT !.op = "cancel", !.pc = "cancel", !.b = b]
    <2>1. q.op = "cancel"
      BY DEF Idle
    <2>2. req' = [req EXCEPT ![r] = q] /\ booking' = booking
      BY <1>1 DEF CancelRead, Starts, rows
    <2> HIDE DEF q
    <2> QED
      BY <2>1, <2>2, MovesOn, BookingsStay, SlotKept
  <1>2. CASE CancelRefunds(r) \/ CancelKeeps(r) \/ CancelFails(r)
    <2>1. req' = [req EXCEPT ![r] = Idle] /\ At(r, "cancel", "cancel")
      BY <1>2 DEF CancelRefunds, CancelKeeps, CancelFails, Ends
    <2>2. \A c \in Requests : BooksNoOther(c)
      <3>1. Idle.op = "idle"
        BY DEF Idle
      <3> QED
        BY <2>1, <3>1, MovesOn
    <2>3. CASE booking' = booking
      BY <2>2, <2>3, BookingsStay, SlotKept
    <2>4. ASSUME NEW n \in {0, 1}, Exists(req[r].b), Cancelled(req[r].b, n)
          PROVE  SlotInv'
      <3>1. PICK b \in BookingIds : b = req[r].b
        BY <2>1, CancelsBooking
      <3>2. booking[b] \in Booking
        BY DEF TypeOK
      <3>3. /\ booking'[b].status = "cancelled"
            /\ booking'[b].slot = booking[b].slot
            /\ \A c \in BookingIds : c # b => booking'[c] = booking[c]
        BY <2>4, <3>1, <3>2 DEF Cancelled, TypeOK, Booking
      <3>4. \A c \in BookingIds : SlotStays(c)
        BY <2>4, <3>1, <3>3 DEF SlotStays, Exists
      <3> QED
        BY <2>2, <3>4, SlotKept
    <2> QED
      BY <1>2, <2>3, <2>4 DEF CancelRefunds, CancelKeeps, CancelFails, rows
  <1> QED
    BY <1>1, <1>2 DEF Cancelling

LEMMA SlotGranting ==
  ASSUME TypeOK, SlotInv, NEW r \in Requests, Granting(r) \/ Expiring(r)
  PROVE  SlotInv'
  <1>1. booking' = booking
    BY DEF Granting, AdminGrantRead, AdminGrantCommit, Expiring, ExpireRead,
       ExpireCommit, ResetRead, ResetCommit, rows
  <1>2. ASSUME NEW q, req' = [req EXCEPT ![r] = q], q.op # "generate"
        PROVE  SlotInv'
    BY <1>1, <1>2, MovesOn, BookingsStay, SlotKept
  <1>3. CASE AdminGrantRead(r)
    <2> DEFINE q == [Idle EXCEPT !.op = "grant", !.pc = "commit",
                                 !.learning = account.learning]
    <2>1. q.op = "grant"
      BY DEF Idle
    <2> HIDE DEF q
    <2> QED
      BY <1>2, <1>3, <2>1 DEF AdminGrantRead, Starts, q
  <1>4. CASE ExpireRead(r)
    <2> DEFINE q == [Idle EXCEPT !.op = "expire", !.pc = "commit"]
    <2>1. q.op = "expire"
      BY DEF Idle
    <2> HIDE DEF q
    <2> QED
      BY <1>2, <1>4, <2>1 DEF ExpireRead, Starts, q
  <1>5. CASE ResetRead(r)
    <2> DEFINE q == [Idle EXCEPT !.op = "reset", !.pc = "commit"]
    <2>1. q.op = "reset"
      BY DEF Idle
    <2> HIDE DEF q
    <2> QED
      BY <1>2, <1>5, <2>1 DEF ResetRead, Starts, q
  <1>6. CASE AdminGrantCommit(r) \/ ExpireCommit(r) \/ ResetCommit(r)
    <2>1. req' = [req EXCEPT ![r] = Idle]
      BY <1>6 DEF AdminGrantCommit, ExpireCommit, ResetCommit, Ends
    <2> QED
      BY <1>2, <2>1, IdleAt
  <1> QED
    BY <1>3, <1>4, <1>5, <1>6 DEF Granting, Expiring

\* The slot was free when the generator looked: whoever is about to book it runs now.
LEMMA SlotRead ==
  ASSUME TypeOK, SlotInv, NEW r \in Requests, NEW s \in Slots, GenerateRead(r, s)
  PROVE  SlotInv'
  <1> DEFINE q == [req[r] EXCEPT !.pc = "commit", !.slot = s]
  <1>1. q.slot = s
    BY DEF TypeOK, Request
  <1>2. req' = [req EXCEPT ![r] = q] /\ booking' = booking /\ BookedFor(s) = {}
    BY DEF GenerateRead, TypeOK, rows, SlotBooked, BookedFor
  <1> HIDE DEF q
  <1>3. \A c \in Requests : req'[c] = IF c = r THEN q ELSE req[c]
    BY <1>2, ReqAfter
  <1>4. \A c : BookedFor(c)' = BookedFor(c)
    BY <1>2 DEF BookedFor, Exists
  <1>5. ASSUME NEW c \in Slots
        PROVE  /\ IsFiniteSet(BookedFor(c)')
               /\ Cardinality(BookedFor(c)') + Cardinality(BookingFor(c)')
                     <= Cardinality(Requests)
    <2>1. CASE c = s
      <3>1. BookingFor(c)' \subseteq Requests
        BY DEF BookingFor
      <3>2. PICK n \in Nat, k \in Nat :
               n = Cardinality(Requests) /\ k = Cardinality(BookingFor(c)') /\ k <= n
        BY <3>1, FiniteAssumption, FS_Subset, FS_CardinalityType
      <3>3. BookedFor(c)' = {}
        BY <1>2, <1>4, <2>1
      <3>4. IsFiniteSet(BookedFor(c)') /\ Cardinality(BookedFor(c)') = 0
        BY <3>3, FS_EmptySet
      <3> QED
        BY <3>2, <3>4
    <2>2. CASE c # s
      <3>1. BookingFor(c)' \subseteq BookingFor(c)
        BY <1>1, <1>3, <2>2 DEF BookingFor, At
      <3>2. /\ IsFiniteSet(BookedFor(c))
            /\ Cardinality(BookedFor(c)) + Cardinality(BookingFor(c))
                  <= Cardinality(Requests)
        BY DEF SlotInv
      <3>3. IsFiniteSet(BookingFor(c)) /\ Cardinality(Requests) \in Nat
        BY RequestsAreFinite
      <3>4. BookedFor(c)' \subseteq BookedFor(c)
        BY <1>4
      <3> QED
        BY <3>1, <3>2, <3>3, <3>4, FewerKeep
    <2> QED
      BY <2>1, <2>2
  <1> QED
    BY <1>2, <1>5 DEF SlotInv

\* The generator that books the slot is no longer about to.
LEMMA SlotCommit ==
  ASSUME TypeOK, SlotInv, NEW r \in Requests, NEW b \in BookingIds,
         GenerateCommit(r, b)
  PROVE  SlotInv'
  <1> DEFINE q == [req[r] EXCEPT !.pc = "slot", !.slot = None]
  <1>1. q.pc = "slot"
    BY DEF TypeOK, Request
  <1>2. /\ req' = [req EXCEPT ![r] = q] /\ req[r].op = "generate"
        /\ req[r].pc = "commit" /\ booking[b].status = "absent"
    BY DEF GenerateCommit, At, TypeOK, Unused
  <1> HIDE DEF q
  <1>3. \A c \in Requests : req'[c] = IF c = r THEN q ELSE req[c]
    BY <1>2, ReqAfter
  <1>4. /\ booking'[b].status = "booked" /\ booking'[b].slot = req[r].slot
        /\ \A c \in BookingIds : c # b => booking'[c] = booking[c]
    BY DEF GenerateCommit, ScheduledBooking, TypeOK, Booking
  <1>5. ASSUME NEW s \in Slots
        PROVE  /\ IsFiniteSet(BookedFor(s)')
               /\ Cardinality(BookedFor(s)') + Cardinality(BookingFor(s)')
                     <= Cardinality(Requests)
    <2>1. /\ IsFiniteSet(BookedFor(s))
          /\ Cardinality(BookedFor(s)) + Cardinality(BookingFor(s))
                <= Cardinality(Requests)
      BY DEF SlotInv
    <2>2. IsFiniteSet(BookingFor(s)) /\ Cardinality(Requests) \in Nat
      BY RequestsAreFinite
    <2>3. CASE s = req[r].slot
      <3>1. BookedFor(s)' = BookedFor(s) \union {b} /\ b \notin BookedFor(s)
        BY <1>2, <1>4, <2>3 DEF BookedFor, Exists
      <3>2. BookingFor(s)' = BookingFor(s) \ {r} /\ r \in BookingFor(s)
        BY <1>1, <1>2, <1>3, <2>3 DEF BookingFor, At
      <3>3. /\ IsFiniteSet(BookedFor(s)')
            /\ Cardinality(BookedFor(s)') = Cardinality(BookedFor(s)) + 1
        BY <2>1, <3>1, FS_AddElement
      <3>4. Cardinality(BookingFor(s)') = Cardinality(BookingFor(s)) - 1
        BY <2>2, <3>2, FS_RemoveElement
      <3>5. PICK m \in Nat, k \in Nat, n \in Nat :
               /\ m = Cardinality(BookedFor(s)) /\ k = Cardinality(BookingFor(s))
               /\ n = Cardinality(Requests)
        BY <2>1, <2>2, FS_CardinalityType
      <3>6. (m + 1) + (k - 1) <= n
        BY <2>1, <3>5
      <3> QED
        BY <3>3, <3>4, <3>5, <3>6
    <2>4. CASE s # req[r].slot
      <3>1. BookedFor(s)' \subseteq BookedFor(s)
        BY <1>4, <2>4 DEF BookedFor, Exists
      <3>2. BookingFor(s)' \subseteq BookingFor(s)
        BY <1>1, <1>3 DEF BookingFor, At
      <3> QED
        BY <2>1, <2>2, <3>1, <3>2, FewerKeep
    <2> QED
      BY <2>3, <2>4
  <1>6. \A c \in BookingIds :
           booking'[c].status = "absent" => booking'[c].slot = None
    BY <1>4 DEF SlotInv
  <1> QED
    BY <1>5, <1>6 DEF SlotInv

LEMMA SlotGenerating ==
  ASSUME TypeOK, SlotInv, NEW r \in Requests, Generating(r)
  PROVE  SlotInv'
  <1>1. CASE Generates(r) /\ booking' = booking
    <2> DEFINE q == [Idle EXCEPT !.op = "generate", !.pc = "slot"]
    <2>1. q.pc = "slot"
      BY DEF Idle
    <2>2. req' = [req EXCEPT ![r] = q]
      BY <1>1 DEF Generates, Starts
    <2> HIDE DEF q
    <2> QED
      BY <1>1, <2>1, <2>2, MovesOn, BookingsStay, SlotKept
  <1>2. CASE GeneratePauses(r) \/ GenerateDone(r)
    <2>1. /\ req' = [req EXCEPT ![r] = Idle] /\ Idle.op = "idle"
          /\ booking' = booking
      BY <1>2 DEF GeneratePauses, GenerateDone, Ends, rows, Idle
    <2> QED
      BY <2>1, MovesOn, BookingsStay, SlotKept
  <1> QED
    BY <1>1, <1>2, SlotRead, SlotCommit
    DEF Generating, CreateEnrollment, GenerateWeekly, rows

LEMMA SlotNext == TypeOK /\ PaidInv /\ SlotInv /\ [Next]_vars => SlotInv'
  <1> SUFFICES ASSUME TypeOK, PaidInv, SlotInv, [Next]_vars PROVE SlotInv'
    OBVIOUS
  <1>1. ASSUME NEW r \in Requests, RequestFails(r)
        PROVE  SlotInv'
    <2>1. /\ req' = [req EXCEPT ![r] = Idle] /\ Idle.op = "idle"
          /\ booking' = booking
      BY <1>1 DEF RequestFails, Ends, rows, Idle
    <2> QED
      BY <2>1, MovesOn, BookingsStay, SlotKept
  <1>2. CASE Outside \/ UNCHANGED vars
    <2>1. booking' = booking /\ req' = req
      BY <1>2 DEF Outside, GrantCredits, RevokeCredits, ExpireStaleTrials,
         TrialEnds, MonthPasses, vars, rows
    <2>2. \A r \in Requests : BooksNoOther(r)
      BY <2>1 DEF BooksNoOther
    <2> QED
      BY <2>1, <2>2, BookingsStay, SlotKept
  <1> QED
    BY <1>1, <1>2, SlotCreating, SlotCancelling, SlotGenerating, SlotGranting
    DEF Next, Outside

LEMMA SlotInit == Init => SlotInv
  <1> SUFFICES ASSUME Init PROVE SlotInv
    OBVIOUS
  <1>1. \A s \in Slots : BookedFor(s) = {} /\ BookingFor(s) = {}
    BY DEF Init, BookedFor, BookingFor, Exists, NoBooking, At, Idle
  <1>2. IsFiniteSet({}) /\ Cardinality({}) = 0
    BY FS_EmptySet
  <1>3. Cardinality(Requests) \in Nat
    BY FiniteAssumption, FS_CardinalityType
  <1>4. \A s \in Slots : /\ IsFiniteSet(BookedFor(s))
                         /\ Cardinality(BookedFor(s)) + Cardinality(BookingFor(s)) = 0
    BY <1>1, <1>2
  <1>5. \A b \in BookingIds : booking[b].slot = None
    BY DEF Init, NoBooking
  <1> QED
    BY <1>3, <1>4, <1>5 DEF SlotInv

\* The generator books a slot again only next to a run that found it free as well:
\* however many runs there are, a slot never has more bookings than requests run at
\* one time, whatever is cancelled, fails or is booked directly in between.
THEOREM SlotsOnce == Spec => []SlotsBookedOnce
  <1>1. SlotInv => SlotsBookedOnce
    BY DEF SlotInv, SlotsBookedOnce
  <1> QED
    BY <1>1, PaidInit, PaidNext, SlotInit, SlotNext, TypeInit, TypeStep, PTL DEF Spec

\* Requests that run one at a time never book a slot of the enrollment twice.
THEOREM AloneBooksOnce ==
  ASSUME NEW r0, Requests = {r0}
  PROVE  Spec => [](\A s \in Slots : \A b, c \in BookedFor(s) : b = c)
  <1>1. SlotInv => \A s \in Slots : \A b, c \in BookedFor(s) : b = c
    <2> SUFFICES ASSUME SlotInv, NEW s \in Slots, NEW b \in BookedFor(s),
                        NEW c \in BookedFor(s), b # c
                 PROVE  FALSE
      OBVIOUS
    <2>1. Cardinality(Requests) = 1
      BY FS_Singleton
    <2>2. /\ IsFiniteSet(BookedFor(s)) /\ Cardinality(BookingFor(s)) \in Nat
          /\ Cardinality(BookedFor(s)) + Cardinality(BookingFor(s)) <= 1
      BY <2>1, RequestsAreFinite DEF SlotInv
    <2>3. {b, c} \subseteq BookedFor(s)
      OBVIOUS
    <2>4. {b, c} = {b} \union {c}
      OBVIOUS
    <2>5. IsFiniteSet({b}) /\ Cardinality({b}) = 1
      BY FS_Singleton
    <2>6. Cardinality({b, c}) = 2
      <3>1. c \notin {b}
        OBVIOUS
      <3>2. Cardinality({b} \union {c}) = Cardinality({b}) + 1
        BY <2>5, <3>1, FS_AddElement
      <3> QED
        BY <2>4, <2>5, <3>2
    <2>7. Cardinality(BookedFor(s)) \in Nat /\ 2 <= Cardinality(BookedFor(s))
      BY <2>2, <2>3, <2>6, FS_Subset, FS_CardinalityType
    <2> QED
      BY <2>2, <2>7
  <1> QED
    BY <1>1, PaidInit, PaidNext, SlotInit, SlotNext, TypeInit, TypeStep, PTL DEF Spec

=============================================================================
