# Formal models of the VaidikTutoring backend

The repository is a NestJS server over PostgreSQL (Prisma) for one-to-one
tutoring: students and parents buy packages, book sessions that are paid from a
time bank, tutors are assigned or claim bookings, sessions run over Daily or
Zoom. This directory holds TLA+ modules for its core, the TLC configurations
that check them, and proofs checked by TLAPS. File names below are relative to
`src/src/`.

## How the system runs

One server process handles many requests at a time. JavaScript runs a request
until its next `await`; there another request, a cron job, a webhook or a socket
event may run. Shared state is the database. A Prisma call is one transaction,
`$transaction` makes several calls one, at READ COMMITTED: an unlocked read in
it sees what is committed at that moment and may be stale when the transaction
writes. Only `SELECT ... FOR UPDATE` and the writes themselves wait for row
locks. Hence the modelling rule of every module here: **a request is a process
with a program counter (`req[r]`), a step is what happens between two awaits that
others can observe, a transaction whose first look at a row is under its lock is
one step, and an unlocked read is a step of its own.** A restart loses requests
and keeps rows.

## Inventory

| Part | State | Operations | Hard behaviour | Correct when |
|---|---|---|---|---|
| payments (`payments/`) | `purchases`, `webhook_events` | createOrder, verifyPayment, processWebhook (captured, failed, refunded) | browser and webhook race, redelivery, any order, crash between claim and grant | credits once, never for an unpaid order, gone after a refund |
| credits (`credits/`) | balances on `students`, `user_credits` | deduct, admin grant, grant and revoke for a purchase, three midnight jobs | concurrent requests on one row, jobs that act on an old read | no lost update, no overdraft, paid once, repaid once |
| bookings (`bookings/`) | `bookings`, `sessions` | create + autoAssignTutor, claimBooking, reassign, assignTutorToBooking, allocateTutor, cancelBooking, broadcasts, archive job | two locks in opposite orders, stale candidates, check then act | no double booking, a session for what is confirmed, everything ends |
| enrollments (`enrollments/`) | `enrollments` | createEnrollment, weekly generation | generation twice at once, balance read before the decrement | a slot once, charged once |
| sessions (`sessions/sessions.service.ts`, cron) | `sessions`, the student's hours and weeks | status, completion, end, sweep, dashboard repair | completion from four callers, partial completion | counted once, terminal states stay, stuck ones end |
| materials of a session (same file) | `session_messages`, notes, snapshots, views | postMessage, getMessages, notes, whiteboard, stream URL | an id that is a session's or a booking's, sessions made while asking | what belongs to a session is found there |
| attendance (`sessions/sessions.gateway.ts`, webhooks) | `attendance`, counters in memory | join, leave, disconnect, evict, mark, finalize | maps lost at restart, two sources of events, read and later write | minutes counted once, none lost |
| live room (`sessions/sessions.gateway.ts`) | in-memory maps | join, board, files, pens, poll, disconnect | a socket that is gone by the time an await returns | late joiners see the room, nothing outlives it |
| recordings (`daily/`, `zoom/`) | `session_recordings`, blobs | webhook, retries, upload, trash, alert, removal | event twice, failure half-way, restart between retries | no original lost, absence reported |
| classes (`admin/`, `zoom/`) | bookings of a class, meetings at Zoom | create, move, cancel, requests for another time | calls outside the transaction, compensation, two admins | a meeting per class and none else |
| accounts (`auth/`, `students/`, `parent/`) | `users`, `students`, copy at Clerk | guard's provisioning, sign-up, role picker, onboarding | old tokens, two requests of one page, fire and forget | role and history agree |
| staff (`admin/`, `auth/`) | `users`, `tutors` | create, invite, accept, passwords, suspend, remove | removal in four writes beside a tutor at work | a removed tutor is out |
| phone verification | `users.phone*`, copy at the provider | send, check, update; the guard's sync | one number for two users, belated calls | verified means proven |
| phases, attention (`session-phases/`, `attention-events/`) | columns of `sessions` | advancePhase, createEvent, evaluations | two writers of one JSON column, fire and forget | the verdict is of all events |
| students (`students/`) | experience points, streak of days, consent, cache | practice results, edits, consent, dashboard | read, modify, write; a page made beside an update | the record is what happened |
| messages (`messages/`) | `direct_messages` | send, open, mark as read, list | fetched by one request, marked by another | unread until fetched |
| reminders, outreach (`notifications/`, `onboarding/`, `engagement/`, `email/`) | flags on sessions, `nudge_events`, the queue | hourly passes, jobs, answers, opt-out | passes overlap, a job fails three times | each mail once and in time |
| blogs (`blogs/`) | `blogs`, versions, cache | write, edit, restore, approve, remove, list | article, version and cache in three writes | published by an admin, list current |
| ratings, assignments | `tutor_ratings`, `assignment_submissions` | offer, rate, submit, grade | look and write | one rating, one submission |
| catalogue, CMS, leads, chatbot, storage, backup, health, support, vault, assessments | single rows, files, outside services | create, read, update, delete | none of its own | not modelled |

Interactions: payments call `grantCredits` and `revokeCredits`; create calls
`deductCredits`, then `autoAssignTutor`; cancelBooking pays back; enrollments
call `createScheduledBooking` and decrement the balance; `removeTutor` sends
bookings back to the queue; the gateway's join starts a session, which the
fallback broadcast looks at, counts attendance and fills the room; completion of
a session, from a person, a webhook, the sweep or a dashboard, closes the
attendance and completes the booking. `PROJECT.json` lists every component with
what is and is not modelled, and the hazards with their lines.

## Modules

| Module | Models | State | Steps |
|---|---|---|---|
| `PaymentLedger` | what payments promise a customer | grants and holder of each customer's credits | Grant, Revoke, provider moves |
| `Payments` | `payments.service.ts`, `grantCredits`, `revokeCredits` | rows `purchase`, `event`, provider `payment`, history `grants`, `holder`, requests | one action per step of each handler, deliveries, failures, crash |
| `Assignments` | what the platform promises about who teaches a booking | what stands of each booking and its tutor, `active` tutors, automatic assignments `pending` | Book, AutoAssign, Claim, Choose, Offer, Release, Dismiss, Close, Delete, GiveUp, each one step |
| `Bookings` | who teaches a booking | rows `booking`, number of sessions per status, `active` tutors, both row locks, requests, clock | one action per step of create, claim, reassign, assign, allocate, cancel, removeTutor, fallback, archive, the queue |
| `StudentCredits` | the time bank of one student | row `account`, `wallet` (dates of user_credits), `enrollment`, `booking`, the row's lock, requests, history `ledger` | create, cancel, generation, grants, jobs |
| `Sessions` | the lessons of one booking | `session`, `parent` (the booking), `streak`, `call`s, history `tally` | resolve or make a session, set, complete, hours, booking, streak, sweep, repair, cancel, failure |
| `Recordings` | one recording | provider's original, `rows`, `blobs`, `transfer`s, alert | deliver, copy, retry, write, trash, upload, alert, removal, restart |
| `Attendance` | the row of one student | `row`, sockets in memory, `mark`s being written | join, leave, evict, restart, provider's events, manual mark, end |
| `Classroom` | the live room | `kept` (the maps), `room`, `client`s, what each was `given` | join in three steps, draw, file, pen, poll, vote, close, leave |
| `GroupClasses` | classes and meetings | `class`, `zoom`, `task`s of admins, `request`s | create, move, cancel, clean up, answer, calls that fail |
| `Accounts` | the account of one address | role, profiles, Clerk's copy, `req`s | guard, picker, sign-up, onboarding, child, admin |
| `Outreach` | mails after sign-up | `event` rows, `jobs`, `inbox`, `pass`es | read, decide, record, enqueue, send or fail, answer, opt out |
| `Reminders` | reminders of lessons | `lesson`, flags, `job`s, the hour | plan, move, pass in its steps, lapse |
| `Learning` | phases and attention of a lesson | `flow`, `notes`, `attention`, `update`s, `eval`uations | advance, gateway's append, note, evaluate, fail |
| `Students` | one student's record | `record`, `consent`, `cache`, `call`s | practise, edit, consent, make the dashboard, clear |
| `Materials` | what hangs on sessions | `held` sessions, `posts`, `shared`, `handed`, `ask`s | resolve, make, check, act |
| `Blogs` | one article | `blog`, `versions`, `shelf` (the cached list), `draft`s | open, write, version, clear, approve, remove, list, break |
| `Threads` | messages of pupils and advisers | `tie`s, `letters`, `page`s, the list | look who belongs to whom, post, open, mark, list |
| `Staff` | a tutor's account | `tutor`, `load` (what points to him), `deed`s | create, invite, accept, passwords, suspend, work, remove in four writes |
| `Phones` | verified numbers | `line`, `checked`, `says` (the provider), `attempt`s | send, check, update, sync, edit, restart |
| `Coursework` | rating and submission | `course`, `rated`, `submitted`, `errand`s | offer, rate, upload, submit, grade |
| `PaymentsProofs`, `BookingsProofs`, `StudentCreditsProofs`, `SessionsProofs`, `PhonesProofs` | theorems about the module of that name | | |
| `AdminProofs` | theorems about `Staff`, `GroupClasses` | | |
| `LessonProofs` | theorems about `Classroom`, `Recordings`, `Learning`, `Attendance`, `Materials` | | |
| `PlatformProofs` | theorems about `Accounts`, `Coursework`, `Students`, `Threads`, `Blogs`, `Outreach`, `Reminders` | | |
| `MCLessons` | `Sessions` and `Recordings`, one per scene, with fairness | `scene` | |
| `MCPlatform` | the fourteen modules from `Attendance` to `Coursework`, one per scene | `scene` | |
| other `MC...` | instances for TLC | | |

Names follow the source: rows carry the column names, actions the function
names, with a suffix for the part of the function they are (`CancelRead`,
`CancelCommit`). Operators whose comment begins with *Mutant* are defects that
the code might have had; none is used by a specification. The `map` in
`PROJECT.json` gives the lines behind each definition.

A property often says "unless": a history variable (`overlap`, `mixed`, `late`,
`muddled`, `unruly`, `torn`, ...) is set by the step at which something happens
that the code does not guard against, and the property claims the rest. Each of
these variables names one such hazard, and the comment at its declaration says
which; the list under *Observations* says what they cost.

What is abstracted: prices, coupons and currencies; minutes are counted in half
hours in `StudentCredits` (a trial has 4: 120 minutes) and in half minutes in
`Attendance`; texts, notifications and logs; the choice among candidate tutors
(`Bookings` lets any active tutor be chosen, or none); whether a session has
begun when it is cancelled (`StudentCredits` allows both). Sessions of a booking
are interchangeable for `Bookings`, which counts them per status; `Sessions`
numbers them. In `create` the reads before the first write are one step. In
`Bookings` two transactions take two locks one after the other and are split
there, so that the lock order is visible: PostgreSQL resolves the deadlock
between `claimBooking` and `autoAssignTutor` by `DeadlockVictim`. The header of
each module says what it leaves out.

## Runs

| Run | Instance | Shows |
|---|---|---|
| `payments` | 2 purchases of one customer, 2 requests, no faults | type invariant, `RefundNotUndone`, and that `Payments` implements `PaymentLedger` |
| `payments_faults` | 1 purchase, 2 requests, 2 faults, fairness | `AtMostOneGrant`, `ProcessedIsCredited`, liveness `CapturedIsCredited` |
| `payments_refund` | as above without faults | **violated** `RefundRevokes` |
| `payments_lost_grant` | 1 purchase, 1 fault | **violated** `MarkedMeansGranted` |
| `bookings` | 2 bookings of one slot, 2 tutors, 2 requests, 1 step of an admin | type invariant, `NoDoubleBooking`, `AutoAssignsActive`, and that `Bookings` implements `Assignments` (`AssignmentsSpec`) |
| `bookings_life` | 1 booking, 2 tutors, 2 requests, 1 fault, fairness | `ConfirmedHasSession`, liveness `EventuallySettled` |
| `bookings_cancel` | 1 booking, 1 tutor, no faults | **violated** `CancelledHasNoSession` |
| `student_credits` | 2 bookings, 1 slot, 2 requests, 2 top-ups, 1 fault | type invariant, `NoLostUpdate`, `NotOverdrawn`, `BookedIsCharged`, `SlotsBookedOnce` |
| `credits_refund` | 1 booking, 2 requests, no faults | **violated** `RefundedOnce` |
| `credits_renewal` | 1 booking, 2 top-ups, no faults | **violated** `OnlyEndedExpire` |
| `lessons` | 2 sessions of a booking, 2 callers and the sweep, 3 weeks, 1 failed call; 2 transfers, 2 attempts, 1 upload; fairness | `HoursOnce`, `CompletedIsCounted`, `StreakEarned`, `MissingIsReported`, liveness `StuckSessionsEnd`, `TransferArrives`, action property `TrashedIsKept` |
| `platform` | fourteen components, see below | one property each, and the action properties `ClosedPollIsFinal`, `PrivilegedIsKept` |

`lessons` and `platform` play one *scene* per behaviour: the components in them
share no state that the models keep, so that composing them would only multiply
states. A scene leaves the variables of the others as they began. `platform`
checks, with its parts defined in the module:

| Scene | Property | Is |
|---|---|---|
| attendance | `AttendanceIsTrue` | `CountedOnce` (a minute is credited once, whatever restarts, evictions and providers do) and `NothingLost` |
| classroom | `RoomIsKept`, `ClosedPollIsFinal` | `RoomUpToDate` (who joins late sees the latest board, files, pens, poll), `RoomIsCleaned`; a closed poll keeps its votes |
| classes | `MeetingsFitClasses` | `ClassHasMeeting`, `NoOrphanMeeting`, `RequestMovesOnce` |
| accounts | `RoleFitsHistory`, `PrivilegedIsKept` | no parent with a student's profile and no student with children; no tutor or admin demoted by a token |
| outreach | `MailIsWanted` | `MailedOnce`, `OptOutIsHeeded` |
| reminders | `RemindedInTime` | in the hour that is promised, and once |
| learning | `LessonIsRecorded` | `VerdictIsCurrent`, `PhasesAreKept` |
| students | `RecordIsTrue` | `PracticeCounts`, `DashboardIsFresh`, `SelfConsentIsOfAge` |
| materials | `MaterialsInPlace` | `OneSessionByAsking`, `PostsAreRead`, `SharedAfterwards` |
| blogs | `BlogIsKept` | `NewestIsLive`, `ListIsCurrent`, `PublishedByAdmin` |
| threads | `MessagesArrive` | `GoesToHers`, `ReadWasFetched`, `ListCounts` |
| staff | `StaffInOrder` | `TemporaryIsForced`, `CreatedOnce`, `RemovedIsOut` |
| phones | `NumbersAreProven` | `VerifiedIsProven`, `NumberIsOnes`, `ProviderAgrees` |
| coursework | `CourseworkInOrder` | `OfferedIsTaken`, `RatingIsFair`, `OneSubmission` |

The violated properties quote what the code says of itself:

- A refund webhook handled before the captured one (or between the claim of a
  purchase and its grant) finds nothing to revoke and is marked as processed.
- `credit_granted_at` commits before `grantCredits` runs; a failure in between
  leaves a purchase that is skipped as "already granted" for ever.
- `create` writes the session after the assignment has committed, and
  `cancelBooking` decides from an unlocked read whether there are sessions: a
  cancelled booking keeps a scheduled session.
- Two cancellations at the same time both repay the booking.
- `resetExpiredCredits` zeroes a student who has renewed between the end of the
  old subscription and midnight, because the old row of `user_credits` is not
  reused by `grantCredits`; `expireStaleSubscriptions` does it in a narrower
  window.

**Bounds.** Two concurrent requests are what every race named above needs;
sequences of requests are unbounded. Two purchases of one customer make the
question whose credits he holds meaningful. Two bookings share one slot so that
every pair overlaps; two tutors let one lose a booking to the other.
`Horizon = 2` of `bookings_life` puts the clock before, in and after the slot;
`bookings` stops in it (`Horizon = 1`), since what ends after the slot is settled
by the other run. `MaxSessions`,
`MaxAdmin`, `MaxTopUps` and `MaxFaults` bound counters; a request that may add a
session starts only if it has room (`Room`), so the bound never makes a request
fail half-way. In `student_credits` the first booking of a trial is free and the second
paid, two purchases or grants let a subscription be renewed, and a package of one and a half sessions puts two
concurrent deductions at the limit.

In `lessons` two sessions suffice for a booking whose newest one is meant, three
weeks for a gap in a streak, two callers beside the sweep for every pair of
completions. The bounds on reverts, failures and weeks are spent only where the
session is still to be made.

In `platform` every component has two workers (requests, passes, editors,
admins), the smallest number that interleaves, and one of each fault; `Threads`
has one sender beside the readers, and `Attendance` two marks and two sockets.
`Students` has three consents, so that the second may overlap the first and the
third look at both.
A step relation of `MCPlatform` adds what keeps a scene small, each named there:
the second of two equal workers starts beside the first (they are
interchangeable); two kinds of faults are followed one or the other; after a
history variable has said that an unguarded overlap happened, where no property
claims anything more, nothing is followed; and a new user completes the profile
or books only between two passes of `Outreach`. These restrict which
interleavings TLC looks at, not what an action does, and the theorems about these
components have no such restriction.

**Fairness.** In `Payments` a pending await resolves (weak fairness of each
request) and Razorpay repeats a delivery until it is acknowledged (strong
fairness, since a request must be free to take it). In `Bookings` PostgreSQL
grants a lock to those who wait for it (strong fairness of a request in
progress), the hourly job runs again and again (strong fairness, since its rows
may be locked meanwhile), and time passes. Nobody is obliged to book, claim,
cancel or pay. `StudentCredits` states no liveness and assumes none.
Deadlock is not checked: every system comes to rest when its bounds are used up.

## Proofs

`PaymentsProofs` proves for every set of purchases, customers and requests and
every number of faults: `TypeCorrect`, `CreditedOnce` (`AtMostOneGrant`),
`ProcessedCredited` (`ProcessedIsCredited`), `RefundStands`
(`RefundNotUndone`) and `ImplementsLedger`. Assumptions: each purchase has an
owner, `NoPurchase` is not a purchase, `MaxFaults` is a natural number.

*At most one grant* is not inductive: two requests standing before `GrantCredits`
for one purchase would break it. `IInv` adds (1) `OrderInv`: a purchase is
absent until its order is made and only the request that makes it is in between;
(2) `ProviderInv`: what a stored event or a verification says of the provider is
true; (3) `GrantInv`: a request about to grant has claimed the purchase
(`credit_granted_at`), it is the only one, and nothing has been granted yet;
(4) `ClaimInv`: a claim without a grant has a request that still owes it, unless
a fault struck, and an event recorded as processed has claimed its purchase.
`MarkPaid` checks and sets the claim in one locked step, which is why (3) is
kept. The refinement maps `taken` and `refunded` to what Razorpay has done; each
step is a ledger step or a stutter.

`StudentCreditsProofs` proves `TypeCorrect`, `BalancesAgree` (`NoLostUpdate`)
and `NeverOverdrawn` (`NotOverdrawn`) for any number of bookings, slots and
concurrent requests, any plan and any number of failures, assuming that credits
and lengths are natural numbers. Neither property is inductive: `deductCredits`
writes back a balance it has computed from an earlier read. `LockInv` says why
that is safe: a request between the two holds the row's lock, and what it has
read is still the row's balance. Every other writer waits for the lock; a step
of one request never puts another before its write. `NotOverdrawn` needs in
addition `EnrolledInv`: only a request of an enrollment, which never goes back
to "none", decrements without a check.

`SessionsProofs` proves `HoursAddedOnce` (`HoursOnce`), `CompletionCounted`
(`CompletedIsCounted`) and `StreaksEarned` (`StreakEarned`) for any finite set of
callers and any number of sessions, weeks, reverts and failures. `HoursOnce` is
not inductive: two calls about to add the hours would break it. `HoursInv` adds
them: hours counted plus calls that owe them never exceed how often the session
was taken from 'completed' plus one if it is completed now. The conditional
writes (`updateMany` where the status is not 'completed', the sweep's update
where it is 'in_progress') raise both sides at once; the unconditional ones only
the right side. `StreakEarned` needs `PendingStreak`, the same of what
`updateStreak` has computed and not yet written.

`AdminProofs` has two parts. (1) `StaffKept` (`StaffInOrder`) holds for any number
of requests. `RemovedIsOut` needs to know what each of the four writes of `removeTutor` may
rely on (`RemovalInv`: what it took away is gone unless something came late)
and that whoever could still undo one had looked before it and is known
(`OvertakenInv`). `CreatedOnce` follows from `AbsentInv`: without an account
only creations are at work, and with one exactly one creation succeeded.
(2) `MeetingsServed` (`MeetingsFitClasses`) holds for any number of admins, dates,
meetings and failed calls. It rests on `MeetingsApart`: a meeting is for one thing
only, the class that has it or is moved from it, one date of a creation, or one
move that has made it and not written it; a new number (`Numbered`) is for nothing
yet, so no step makes two of them share one. `OneMover` says that, unless two
admins move a class at one time, the meeting the mover read is still the
class's; that is why the write after a re-creation does not strand the meeting
of somebody else. `HasMeeting` and `InTime` then follow the meeting through a
move: while the old one is gone or going there is a writer with the new one, and the time
at Zoom is the class's or that of the writer. `AllPlaced` names for every meeting at
Zoom who has it, will write it, or left it behind. The requests need who handles
them (`RequestsFit`) and that no request in hand can be asked anew (`ForReal`),
even if a second admin has answered it.

`PhonesProofs` proves `NumbersProven` (`NumbersAreProven`) for any number of
users, numbers and attempts.

`BookingsProofs` proves `TypeCorrect`, `NotDoubleBooked` (`NoDoubleBooking`),
`AssignsActive` (`AutoAssignsActive`) and `ConfirmedServed`
(`ConfirmedHasSession`) for any number of bookings, tutors and requests, any
slots and any number of failures and steps of admins; a booking may have at
least one session. Even types need an invariant: `RoomInv` says that the
sessions a booking has, together with the requests that may still add one, never
exceed the bound. `LockInv` is the discipline of `autoAssignTutor` and
`claimBooking`: whoever has checked a tutor's calendar holds his row's lock until
the write, what was checked is still so, and every other write that gives a tutor
a booking waits for that lock or is marked as one that does not ask (the admin's,
a reassignment). `OwedInv` names, for a confirmed booking without a session, the
request that will make it.

`ImplementsAssignments` shows that every behaviour of `Bookings` is one of the
board in `Assignments`, where nobody waits and nothing is half done. The mapping
shows of a row its tutor, whether it was offered by the fallback broadcast, and
whether it stands or is over; a booking is pending while a request of `create`
has its automatic assignment before it. So a step that only locks, reads, checks
or makes a session is a stutter, and the step that writes the tutor is the
assignment, which must then be allowed by the board as it is at that moment:
`NoDoubleBooking` and `LockInv` say that the tutor who was found free still is;
`BoardInv`, that whoever claims holds the booking's lock, so that the row is
still without a tutor or offered, that a booking has one request creating it, so that
its automatic assignment happens once, and that a deleted row is not written
again. What the code does allow stands in the board: the automatic assignment
does not look at what has become of the booking since, and replaces a tutor who
has claimed it (`AutoAssign`); nothing else but an admin, a reassignment, a
removal or a claim after an offer replaces a tutor.

`ChargedOnce` (`BookedIsCharged`) needs `PaidInv`: what the ledger holds of a
booking is what its status and its request's pc say, in `create` between the row,
the deduction and the deletion of a refused row, and in the weekly generation.

`SlotsOnce` (`SlotsBookedOnce`) assumes that finitely many requests run at one
time. `generateSessionsForEnrollment` looks for a booking of the slot and makes
one later, without a lock, so two overlapping runs book a slot twice. What it
keeps is a bound, and `SlotInv` counts it: the bookings of a slot, with the
generators that have found it free and not booked it yet, never exceed the
requests that run at one time. A generator joins them only while the slot has no booking at
all, and by booking it leaves them. `AloneBooksOnce` is the case of one
request at a time: there a slot is booked once.

`LessonProofs` proves the properties of the live room, the recording, the phases,
the attendance and what hangs on sessions. (1) `RoomKept` needs to know what a joining client has been
given while its replay is awaited, and `PollFinal` that an answer is written only
after the poll was looked at again. (2) `OriginalKept` and `MissingReported`
follow from what a transfer knows at each pc: whoever may trash the original has
a blob stored and a row written, and every window of the alert that passed was
looked at or a run failed. (3) `LessonRecorded` follows a note and an evaluation
from the read to the write: without crossing, what was read is still the row's.
(4) `AttendanceTrue` is an interval: the minutes counted, with those of the mark
at work and of the visit that is open, are bounded above by the time since the
first join and below by the time the student was there. (5) `MaterialsPlaced`
needs `AsksFit`, what each request has looked up at its pc and what a new session
may have changed of it; `ViewsCounted`, a serving is counted before its URL is
given, so views never fall behind the requests between count and answer (and never
exceed the requests made, which even the types need); and `OneMaker`, whoever may
still make a session found none.

`PlatformProofs` has a part per component, each for any number of requests:

- `RoleFits`, `PrivilegedStay` (`Accounts`): unless something unruly has
  happened, one request is at work, and what it has read of the account holds.
- `CourseworkOrdered`: the file of a submission is the newest one or is about to
  be replaced by it.
- `RecordTrue` (`Students`): what a result will write is the row as it is, plus
  itself; what is cached tells the row unless it is marked stale. The proof of
  `SelfConsentIsOfAge` failed at first, for a good reason: two consents that give
  different dates of birth cross, and a consent "by herself" then stands beside a
  date by which she was a minor. The property now says so (`redated`), and the run
  allows three consents.
- `MessagesDo` (`Threads`), `BlogKept` (`Blogs`): what each request has fetched
  or read, and who has yet to clear the cached list.
- `MailWanted` (`Outreach`), assuming that the passes are finitely many: mails sent
  of a kind and mails that a pass may still send never exceed one, unless two
  passes were at it or a row was not written (`SentOnce`); after the opt-out only
  the passes that had decided before may send (`Heeded`). The attempt showed that
  the model never reached the third and fourth rule of a pass; it does now.
- `RemindedDuly` (`Reminders`): for every lesson and hour promised there is a
  notice, a pass at work that will give it, or the hour's reason why not
  (`NoneForgotten`); and a notice is given once or two passes crossed (`OneEach`).

The type invariants of the components in `lessons` and `platform` are proved
(theorems `...Typed`) and no longer part of those runs.

Only model-checked: the liveness properties (`CapturedIsCredited`,
`EventuallySettled`, `StuckSessionsEnd`, `TransferArrives`; fairness and ENABLED
are beyond the prover).

## Observations

What the models found and no run states as violated, because no comment or test
of the repository says otherwise or because a property names it as its
exception:

- **Accounts.** The guard makes a student's profile for a user of the default
  role at her first request; the role picker then refuses 'parent' because there
  is one, unless picking is the very first request. A signup profile without an
  e-mail beside an unlinked row with her address fails the guard at every
  request. A payment between `updateRole`'s look at the history and its write
  leaves a parent who paid as a student. `POST /students` and
  `PATCH /students/me` ask for no role.
- **Bookings.** `assignTutorToBooking` and `allocateTutor` are content with a
  session of any status: a cancelled booking that an admin assigns is confirmed
  without a session to join (`Revived` in `ConfirmedHasSession`), though the
  comment there says "Ensure a session exists so the student can actually join".
  Neither asks whether the tutor is busy. Looking at the allocation queue
  expires bookings.
- **Enrollments.** The comment at `enrollments/enrollments.service.ts:189` says that
  the look for an existing booking "prevents double-booking during cron or manual
  runs". It does between runs; two that overlap (the weekly job and a new
  enrollment, or a second server) book and charge the slot once each. A cancelled
  booking keeps its slot from being booked again.
- **Phases.** The entries `advancePhase` writes carry `startedAt`, the balance
  reads `timestamp`: the sums are NaN and the rules on teaching time never speak.
  The gateway writes every phase a second time. The two evaluations overwrite
  each other's part of `attention_meta`.
- **Attendance.** A leave that overlaps the join of the page that was refreshed
  may undo it, since both read the row first. The backstop in the comment of the
  finalization is not called by `updateSessionStatus`.
- **Reminders.** A failing mail ends the pass, with it the check a day ahead,
  and it is not repeated. A session moved within the reach of a reminder that was
  sent is not reminded of its new time.
- **Outreach.** The unique key that is to make racing passes harmless does so for
  the row and not for the mail. A job that fails three times leaves the row "sent".
  The opt-out shows its page also when the write failed.
- **Sessions and materials.** Asking for messages, notes, recordings or a token
  by the id of a booking without a session makes one; two requests make two. An
  exception of one stuck session ends the whole sweep. The repair of the
  dashboard completes without counting hours. The snapshot of the whiteboard by a
  booking's id fails right after the access check has made the session.
- **Staff.** `suspendTutor` writes `users.tutor_status`, `TutorStatusGuard` reads
  `tutors.is_active` and `tutor_approved`: a suspension stops nothing. An
  invitation outlives `removeTutor`. Work taken between its writes stays.
- **Phones.** `updateTutorProfile` changes a number and leaves it verified. A
  belated call of the guard ("not verified") can land after the answer "verified".
- **Blogs.** With cache-manager 6 a cache has no `store`, so clearing the list
  finds no keys. A tutor's edit of a published article stays published. Restoring
  a version of an unpublished one is refused to admins too.
- **Coursework.** Two submissions at one time make two rows; a resubmission keeps
  the old score.

## Plan

1. The core and the components above (done).
2. Proofs: every safety property and every action property of the runs that pass
   (done).
3. The refinement of `Assignments`, and the slots of an enrollment inside
   `StudentCredits` (done): every hazard listed in `PROJECT.json` has a property.
4. Next: several enrollments of one student, and the overlap of direct bookings
   with the slots of an enrollment.

## Not modelled

Outside services (Razorpay, Daily, Zoom, Twilio, Resend, Clerk, Azure) beyond
what the code observes of them; queries, statistics and content (catalogue, CMS,
leads, chatbot, invitations to the calendar); storage, backup, health checks and
alerts, which are input and output only; support tickets, the vault and
assessments, which insert single rows; login, the reset of a password by mail and
the verification of an address, which write one row by a token; HTTP routing and
guards except `TutorStatusGuard` and the provisioning of `ClerkAuthGuard`;
`refundCredits`, `subscribe` and `tutors.service` `createTutor`, which nothing
calls; the numbers in `user_credits`, which no booking reads; `handleClaimBroadcast`,
which writes markers only; several students, since nothing but tutors connects
them; several enrollments of one student.
