--------------------------- MODULE StudentCredits ---------------------------
(***************************************************************************)
(* The time bank of one student: the row of app.students that holds the    *)
(* trial's and the subscription's minutes, the bookings that are paid from *)
(* it and everything that pays in or out at the same time (src/credits,    *)
(* create, createScheduledBooking and cancelBooking of src/bookings,       *)
(* src/enrollments).                                                       *)
(*                                                                         *)
(* Every request is a process.  deductCredits writes back what it has read *)
(* under the row's lock: two steps.  The other transactions that write the *)
(* row are one step, the one in which they commit, when nobody has locked  *)
(* it.  What is read before the transaction, or in it without the lock, is *)
(* a step of its own.                                                      *)
(*                                                                         *)
(* Left out: the slots of direct bookings and their overlap, tutors and    *)
(* sessions (Bookings), bookings made by admins, which cost nothing, and   *)
(* the counters of user_credits, which no booking reads.                   *)
(***************************************************************************)
EXTENDS Integers, FiniteSets

CONSTANTS
    BookingIds,     \* bookings that may be made
    Slots,          \* weekly slots of the enrollment
    Requests,       \* requests and jobs handled at one time
    None,           \* no booking, no slot, no request
    TrialCredits,   \* credits of a trial; one credit is half an hour
    FirstSession,   \* length of the first trial session
    LaterSession,   \* length of the other trial sessions
    SubSession,     \* length of the other sessions
    PlanCredits,    \* credits of a package
    GrantedCredits, \* credits an admin grants
    MaxTopUps,      \* bound on purchases and admin grants
    MaxFaults       \* bound on failed requests

ASSUME CreditAssumption ==
    /\ TrialCredits \in Nat /\ PlanCredits \in Nat /\ GrantedCredits \in Nat
    /\ FirstSession \in Nat /\ LaterSession \in Nat /\ SubSession \in Nat
ASSUME BoundAssumption ==
    MaxTopUps \in Nat /\ MaxFaults \in Nat
ASSUME NoneAssumption == None \notin BookingIds \union Slots \union Requests
ASSUME FiniteAssumption == IsFiniteSet(Requests)

VARIABLES
    account,     \* the row of app.students
    wallet,      \* app.user_credits: rows with a coming or a past reset_date
    enrollment,  \* status of app.enrollments
    booking,     \* app.bookings
    locked,      \* the request that has locked the student's row, or None
    req,         \* the requests being handled
    ledger,      \* history: what every committed entry adds up to
    topUps,      \* purchases and admin grants so far
    faults       \* failed requests so far

rows == <<account, wallet, enrollment, booking>>
bounds == <<topUps, faults>>
vars == <<rows, locked, req, ledger, bounds>>

TrialSessions == 3  \* sessions of a trial

Account ==
    [trial: Int,            \* trial_credits
     used: Nat,             \* trial_sessions_used
     trialActive: BOOLEAN,  \* is_trial_active
     trialEnded: BOOLEAN,   \* trial_expires_at has passed
     learning: BOOLEAN,     \* enrollment_status = 'learning'
     sub: Int,              \* subscription_credits
     ends: {"none", "coming", "past"}]  \* subscription_ends

\* charges and refunds are history: how often the booking was paid, repaid.
Booking ==
    [status: {"absent", "booked", "cancelled", "deleted"},
     cost: Nat, trial: BOOLEAN, slot: Slots \union {None},
     charges: Nat, refunds: Nat]

NoBooking == [status |-> "absent", cost |-> 0, trial |-> FALSE, slot |-> None,
              charges |-> 0, refunds |-> 0]

\* todo: subjects still to be booked; learning, credits, used: what the
\* request has read of the student.  Past these steps it has a booking.
HasBooking == {"deduct", "write", "delete", "cancel"}

RequestFields ==
    [op: {"idle", "create", "cancel", "generate", "grant", "expire", "reset"},
     pc: HasBooking \union {"idle", "row", "slot", "commit"},
     b: BookingIds \union {None}, todo: SUBSET BookingIds,
     slot: Slots \union {None},
     cost: Nat, trial: BOOLEAN, learning: BOOLEAN, credits: Int, used: Nat]

Request == {q \in RequestFields : q.pc \in HasBooking => q.b \in BookingIds}

Idle == [op |-> "idle", pc |-> "idle", b |-> None, todo |-> {}, slot |-> None,
         cost |-> 0, trial |-> FALSE, learning |-> FALSE, credits |-> 0,
         used |-> 0]

TypeOK ==
    /\ account \in Account
    /\ wallet \in [coming: BOOLEAN, past: BOOLEAN]
    /\ enrollment \in {"none", "active", "paused"}
    /\ booking \in [BookingIds -> Booking]
    /\ locked \in Requests \union {None}
    /\ req \in [Requests -> Request]
    /\ ledger \in [trial: Int, sub: Int]
    /\ topUps \in 0..MaxTopUps
    /\ faults \in 0..MaxFaults

\* A student who has just registered: initTrialCredits.
Init ==
    /\ account = [trial |-> TrialCredits, used |-> 0, trialActive |-> TRUE,
                  trialEnded |-> FALSE, learning |-> FALSE, sub |-> 0,
                  ends |-> "none"]
    /\ wallet = [coming |-> FALSE, past |-> FALSE]
    /\ enrollment = "none"
    /\ booking = [b \in BookingIds |-> NoBooking]
    /\ locked = None
    /\ req = [r \in Requests |-> Idle]
    /\ ledger = [trial |-> TrialCredits, sub |-> 0]
    /\ topUps = 0
    /\ faults = 0

-----------------------------------------------------------------------------
(* Requests and the ledger *)

At(r, o, step) == req[r].op = o /\ req[r].pc = step
Starts(r, first) == req[r] = Idle /\ req' = [req EXCEPT ![r] = first]
GoesTo(r, step) == req' = [req EXCEPT ![r].pc = step]
Ends(r) == req' = [req EXCEPT ![r] = Idle]

Unused(b) ==
    booking[b].status = "absent" /\ \A r \in Requests : b \notin req[r].todo

EntersTrial(n) == ledger' = [ledger EXCEPT !.trial = @ + n]
EntersSub(n) == ledger' = [ledger EXCEPT !.sub = @ + n]
SubReset(n) == ledger' = [ledger EXCEPT !.sub = n]

-----------------------------------------------------------------------------
(* create *)

LiveTrialSessions ==
    Cardinality({b \in BookingIds :
                    booking[b].status = "booked" /\ booking[b].trial})

\* getCreditStatus: learning or paid, else trial.
OnPlan == account.learning \/ account.ends = "coming"

Duration ==
    IF OnPlan THEN SubSession
    ELSE IF LiveTrialSessions = 0 THEN FirstSession ELSE LaterSession

\* canBook and the checks of create for n subjects.
MayBook(n) ==
    \/ /\ OnPlan
       /\ account.ends # "past"
       /\ account.sub > 0
       /\ account.sub >= n * Duration
    \/ /\ ~ OnPlan
       /\ account.trialActive /\ ~ account.trialEnded
       /\ account.trial > 0
       /\ LiveTrialSessions + n <= TrialSessions
       /\ account.trial >= n * Duration

\* The first session of a trial is free.
BookingCreditCost == IF ~ OnPlan /\ account.used = 0 THEN 0 ELSE Duration

\* The student, her live sessions and the cost are read once for all subjects.
CreateRead(r, subjects) ==
    /\ subjects # {}
    /\ \A b \in subjects : Unused(b)
    /\ MayBook(Cardinality(subjects))
    /\ Starts(r, [Idle EXCEPT !.op = "create", !.pc = "row", !.todo = subjects,
                              !.cost = BookingCreditCost, !.trial = ~ OnPlan])
    /\ UNCHANGED <<rows, locked, ledger, bounds>>

CreateRow(r, b) ==
    /\ At(r, "create", "row")
    /\ b \in req[r].todo
    /\ booking' = [booking EXCEPT ![b].status = "booked",
                                  ![b].cost = req[r].cost,
                                  ![b].trial = req[r].trial]
    /\ req' = [req EXCEPT ![r].pc = "deduct", ![r].b = b, ![r].todo = @ \ {b}]
    /\ UNCHANGED <<account, wallet, enrollment, locked, ledger, bounds>>

Unlocked == locked = None

\* Mutant: the student is read without FOR UPDATE.
ReadsStudent(r) == UNCHANGED locked

LocksStudent(r) == Unlocked /\ locked' = r
Unlocks(r) == locked' = IF locked = r THEN None ELSE locked

\* deductCredits reads the row under its lock ...
DeductRead(r) ==
    /\ At(r, "create", "deduct")
    /\ LocksStudent(r)
    /\ req' = [req EXCEPT
                  ![r].pc = "write",
                  ![r].credits =
                      IF req[r].trial THEN account.trial ELSE account.sub,
                  ![r].used = account.used]
    /\ UNCHANGED <<rows, ledger, bounds>>

\* Mutant: only an empty balance is refused.
NotEmpty(r) == req[r].credits > 0

Affords(r) == req[r].credits >= req[r].cost

\* ... and writes the balance it has computed from what it has read.
Charged(r) ==
    LET credits == req[r].credits - req[r].cost
        used == req[r].used + 1
    IN  IF req[r].trial
        THEN [account EXCEPT !.trial = credits, !.used = used,
                             !.trialActive =
                                credits > 0 /\ used < TrialSessions]
        ELSE [account EXCEPT !.sub = credits]

DeductCredits(r) ==
    /\ At(r, "create", "write")
    /\ Affords(r)
    /\ account' = Charged(r)
    /\ IF req[r].trial THEN EntersTrial(- req[r].cost)
       ELSE EntersSub(- req[r].cost)
    /\ booking' = [booking EXCEPT ![req[r].b].charges = @ + 1]
    /\ req' = [req EXCEPT
                  ![r] = IF @.todo = {} THEN Idle
                         ELSE [@ EXCEPT !.pc = "row", !.b = None, !.credits = 0,
                                        !.used = 0]]
    /\ Unlocks(r)
    /\ UNCHANGED <<wallet, enrollment, bounds>>

DeductFails(r) ==
    /\ At(r, "create", "write")
    /\ ~ Affords(r)
    /\ GoesTo(r, "delete")
    /\ Unlocks(r)
    /\ UNCHANGED <<rows, ledger, bounds>>

\* Mutant: the booking that could not be paid stays.
KeepsBooking(r) ==
    /\ At(r, "create", "delete")
    /\ Ends(r)
    /\ UNCHANGED <<rows, locked, ledger, bounds>>

\* The booking that could not be paid goes, those before it stay.
DeleteBooking(r) ==
    /\ At(r, "create", "delete")
    /\ booking' = [booking EXCEPT ![req[r].b].status = "deleted"]
    /\ Ends(r)
    /\ UNCHANGED <<account, wallet, enrollment, locked, ledger, bounds>>

-----------------------------------------------------------------------------
(* cancelBooking: one transaction, but the booking is read without a lock *)

Exists(b) == booking[b].status \in {"booked", "cancelled"}

CancelRead(r, b) ==
    /\ booking[b].status = "booked"
    /\ Starts(r, [Idle EXCEPT !.op = "cancel", !.pc = "cancel", !.b = b])
    /\ UNCHANGED <<rows, locked, ledger, bounds>>

\* Enrollment bookings cost 0 and are repaid by their length.
Repaid(b) == IF booking[b].slot # None THEN SubSession ELSE booking[b].cost

\* Mutant: the sessions used are not kept from going below 0.
TrialRepaidBelow(acc, cost) ==
    [acc EXCEPT !.trial = @ + cost, !.used = @ - 1, !.trialActive = TRUE]

TrialRepaid(acc, cost) ==
    [acc EXCEPT !.trial = @ + cost, !.used = IF @ > 0 THEN @ - 1 ELSE 0,
                !.trialActive = TRUE]

Cancelled(b, refunds) ==
    booking' = [booking EXCEPT ![b].status = "cancelled",
                               ![b].refunds = @ + refunds]

CancelRefunds(r) ==
    LET b == req[r].b IN
    /\ At(r, "cancel", "cancel")
    /\ Unlocked
    /\ Exists(b)
    /\ Repaid(b) > 0
    /\ booking[b].trial => ~ account.trialEnded
    /\ IF booking[b].trial
       THEN account' = TrialRepaid(account, Repaid(b)) /\ EntersTrial(Repaid(b))
       ELSE /\ account' = [account EXCEPT !.sub = @ + Repaid(b)]
            /\ EntersSub(Repaid(b))
    /\ Cancelled(b, 1)
    /\ Ends(r)
    /\ UNCHANGED <<wallet, enrollment, locked, bounds>>

\* The session has started, or nothing is to be repaid: a choice.
CancelKeeps(r) ==
    LET b == req[r].b IN
    /\ At(r, "cancel", "cancel")
    /\ Exists(b)
    /\ Cancelled(b, 0)
    /\ Ends(r)
    /\ UNCHANGED <<account, wallet, enrollment, locked, ledger, bounds>>

CancelFails(r) ==
    /\ At(r, "cancel", "cancel")
    /\ ~ Exists(req[r].b)
    /\ Ends(r)
    /\ UNCHANGED <<rows, locked, ledger, bounds>>

-----------------------------------------------------------------------------
(* createEnrollment, generateWeeklySessions, generateSessionsForEnrollment *)

Generates(r) == Starts(r, [Idle EXCEPT !.op = "generate", !.pc = "slot"])

CreateEnrollment(r) ==
    /\ enrollment = "none"
    /\ Unlocked
    /\ enrollment' = "active"
    /\ account' = [account EXCEPT !.learning = TRUE]
    /\ Generates(r)
    /\ UNCHANGED <<wallet, booking, locked, ledger, bounds>>

GenerateWeekly(r) ==
    /\ enrollment = "active"
    /\ Generates(r)
    /\ UNCHANGED <<rows, locked, ledger, bounds>>

SlotBooked(s) ==
    \E b \in BookingIds : Exists(b) /\ booking[b].slot = s

\* Mutant: the slot is not looked up first.
GenerateUnread(r, s) ==
    /\ At(r, "generate", "slot")
    /\ account.ends # "past"
    /\ account.sub > 0
    /\ req' = [req EXCEPT ![r].pc = "commit", ![r].slot = s]
    /\ UNCHANGED <<rows, locked, ledger, bounds>>

\* The slot and the balance are read, the booking is made later.
GenerateRead(r, s) ==
    /\ At(r, "generate", "slot")
    /\ ~ SlotBooked(s)
    /\ account.ends # "past"
    /\ account.sub > 0
    /\ req' = [req EXCEPT ![r].pc = "commit", ![r].slot = s]
    /\ UNCHANGED <<rows, locked, ledger, bounds>>

GeneratePauses(r) ==
    /\ At(r, "generate", "slot")
    /\ \E s \in Slots : ~ SlotBooked(s)
    /\ account.ends = "past" \/ account.sub <= 0
    /\ enrollment' = "paused"
    /\ Ends(r)
    /\ UNCHANGED <<account, wallet, booking, locked, ledger, bounds>>

\* The slots that are left are booked, past, or after the subscription's end.
GenerateDone(r) ==
    /\ At(r, "generate", "slot")
    /\ Ends(r)
    /\ UNCHANGED <<rows, locked, ledger, bounds>>

\* createScheduledBooking: confirmed at once, it costs one session of the plan.
ScheduledBooking(b, s) ==
    booking' = [booking EXCEPT ![b].status = "booked", ![b].slot = s,
                               ![b].charges = 1]

\* One transaction: the booking and an unconditional decrement.
GenerateCommit(r, b) ==
    /\ At(r, "generate", "commit")
    /\ Unlocked
    /\ Unused(b)
    /\ ScheduledBooking(b, req[r].slot)
    /\ account' = [account EXCEPT !.sub = @ - SubSession]
    /\ EntersSub(- SubSession)
    /\ req' = [req EXCEPT ![r].pc = "slot", ![r].slot = None]
    /\ UNCHANGED <<wallet, enrollment, locked, bounds>>

-----------------------------------------------------------------------------
(* Credits paid in and taken back *)

TopUp == topUps < MaxTopUps /\ topUps' = topUps + 1

\* grantCredits for a package the student has bought: the credits do not add
\* up, the old row of user_credits is reused only if its date is to come.
GrantCredits ==
    /\ Unlocked
    /\ account' = [account EXCEPT !.learning = TRUE, !.sub = PlanCredits,
                                  !.ends = "coming", !.trialActive = FALSE]
    /\ wallet' = [wallet EXCEPT !.coming = TRUE]
    /\ SubReset(PlanCredits)
    /\ TopUp
    /\ UNCHANGED <<enrollment, booking, locked, req, faults>>

PauseEnrollments ==
    enrollment' = IF enrollment = "active" THEN "paused" ELSE enrollment

SubscriptionTaken(acc) == [acc EXCEPT !.learning = FALSE, !.sub = 0]

\* revokeCredits, when the purchase is refunded; the event may come again.
RevokeCredits ==
    /\ Unlocked
    /\ wallet.coming \/ wallet.past
    /\ account' = [SubscriptionTaken(account) EXCEPT !.ends = "none"]
    /\ PauseEnrollments
    /\ SubReset(0)
    /\ UNCHANGED <<wallet, booking, locked, req, bounds>>

\* adminGrantCredits reads the mode, then adds to the balance of that mode.
AdminGrantRead(r) ==
    /\ TopUp
    /\ Starts(r, [Idle EXCEPT !.op = "grant", !.pc = "commit",
                              !.learning = account.learning])
    /\ UNCHANGED <<rows, locked, ledger, faults>>

AdminGrantCommit(r) ==
    /\ At(r, "grant", "commit")
    /\ Unlocked
    /\ IF req[r].learning
       THEN /\ account' = [account EXCEPT !.sub = @ + GrantedCredits]
            /\ EntersSub(GrantedCredits)
       ELSE /\ account' = [account EXCEPT !.trial = @ + GrantedCredits,
                                          !.trialActive = TRUE]
            /\ EntersTrial(GrantedCredits)
    /\ Ends(r)
    /\ UNCHANGED <<wallet, enrollment, booking, locked, bounds>>

-----------------------------------------------------------------------------
(* The jobs of midnight *)

ExpireStaleTrials ==
    /\ Unlocked
    /\ account.trialActive /\ account.trialEnded
    /\ account' = [account EXCEPT !.trialActive = FALSE]
    /\ UNCHANGED <<wallet, enrollment, booking, locked, req, ledger, bounds>>

ExpireRead(r) ==
    /\ account.learning /\ account.ends = "past"
    /\ Starts(r, [Idle EXCEPT !.op = "expire", !.pc = "commit"])
    /\ UNCHANGED <<rows, locked, ledger, bounds>>

\* expireStaleSubscriptions writes to the students it has read.
ExpireCommit(r) ==
    /\ At(r, "expire", "commit")
    /\ Unlocked
    /\ account' = SubscriptionTaken(account)
    /\ PauseEnrollments
    /\ SubReset(0)
    /\ Ends(r)
    /\ UNCHANGED <<wallet, booking, locked, bounds>>

\* resetExpiredCredits goes by the rows of user_credits.
ResetRead(r) ==
    /\ wallet.past
    /\ Starts(r, [Idle EXCEPT !.op = "reset", !.pc = "commit"])
    /\ UNCHANGED <<rows, locked, ledger, bounds>>

ResetCommit(r) ==
    /\ At(r, "reset", "commit")
    /\ Unlocked
    /\ wallet' = [coming |-> TRUE, past |-> FALSE]
    /\ account' = SubscriptionTaken(account)
    /\ PauseEnrollments
    /\ SubReset(0)
    /\ Ends(r)
    /\ UNCHANGED <<booking, locked, bounds>>

-----------------------------------------------------------------------------
(* Time and failures *)

TrialEnds ==
    /\ ~ account.trialEnded
    /\ account' = [account EXCEPT !.trialEnded = TRUE]
    /\ UNCHANGED <<wallet, enrollment, booking, locked, req, ledger, bounds>>

\* Thirty days after the purchase.
MonthPasses ==
    /\ account.ends = "coming"
    /\ account' = [account EXCEPT !.ends = "past"]
    /\ wallet' = [coming |-> FALSE, past |-> TRUE]
    /\ UNCHANGED <<enrollment, booking, locked, req, ledger, bounds>>

\* An await rejects or the server restarts: what has committed stays.
RequestFails(r) ==
    /\ req[r] # Idle
    /\ faults < MaxFaults
    /\ faults' = faults + 1
    /\ Unlocks(r)
    /\ Ends(r)
    /\ UNCHANGED <<rows, ledger, topUps>>

-----------------------------------------------------------------------------

Creating(r) ==
    \/ \E subjects \in SUBSET BookingIds : CreateRead(r, subjects)
    \/ \E b \in BookingIds : CreateRow(r, b)
    \/ DeductRead(r)
    \/ DeductCredits(r)
    \/ DeductFails(r)
    \/ DeleteBooking(r)

Cancelling(r) ==
    \/ \E b \in BookingIds : CancelRead(r, b)
    \/ CancelRefunds(r)
    \/ CancelKeeps(r)
    \/ CancelFails(r)

Generating(r) ==
    \/ CreateEnrollment(r)
    \/ GenerateWeekly(r)
    \/ \E s \in Slots : GenerateRead(r, s)
    \/ GeneratePauses(r)
    \/ GenerateDone(r)
    \/ \E b \in BookingIds : GenerateCommit(r, b)

Granting(r) == AdminGrantRead(r) \/ AdminGrantCommit(r)

Expiring(r) ==
    ExpireRead(r) \/ ExpireCommit(r) \/ ResetRead(r) \/ ResetCommit(r)

Next ==
    \/ \E r \in Requests :
          \/ Creating(r) \/ Cancelling(r) \/ Generating(r)
          \/ Granting(r) \/ Expiring(r) \/ RequestFails(r)
    \/ GrantCredits
    \/ RevokeCredits
    \/ ExpireStaleTrials
    \/ TrialEnds
    \/ MonthPasses

Spec == Init /\ [][Next]_vars

-----------------------------------------------------------------------------
(* Properties *)

\* The two balances are what the committed charges, refunds, grants and resets
\* add up to: no request overwrites what another has paid in or out.
NoLostUpdate == account.trial = ledger.trial /\ account.sub = ledger.sub

\* Direct bookings never overdraw a balance, whatever their requests have read
\* before; only the enrollment's generator decrements without a check.
NotOverdrawn ==
    /\ account.trial >= 0
    /\ enrollment = "none" => account.sub >= 0

WorkedOn(b) == \E r \in Requests : req[r].b = b

\* A booking that is left standing or cancelled was charged exactly once, one
\* that was refused and deleted never, once its request is through.
BookedIsCharged ==
    \A b \in BookingIds :
        /\ Exists(b) /\ ~ WorkedOn(b) /\ faults = 0 => booking[b].charges = 1
        /\ booking[b].status = "deleted" => booking[b].charges = 0

\* "Booking is already cancelled": a booking is repaid at most once.
RefundedOnce == \A b \in BookingIds : booking[b].refunds <= 1

\* The bookings of slot s, cancelled ones too, and the generators about to make one.
BookedFor(s) == {b \in BookingIds : Exists(b) /\ booking[b].slot = s}
BookingFor(s) ==
    {r \in Requests : At(r, "generate", "commit") /\ req[r].slot = s}

\* "prevents double-booking during cron or manual runs": the generator does not
\* book a slot again that it, or another run, has booked before.  Only runs that
\* overlap can, each once: a run alone books a slot once.
SlotsBookedOnce ==
    \A s \in Slots :
        Cardinality(BookedFor(s)) + Cardinality(BookingFor(s))
            <= Cardinality(Requests)

\* "Expire stale subscriptions": the jobs take away credits only of a
\* subscription that has ended.
OnlyEndedExpire ==
    [][\A r \in Requests :
          ExpireCommit(r) \/ ResetCommit(r)
          => account.ends = "past" \/ account.sub <= 0]_vars

=============================================================================
