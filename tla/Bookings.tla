------------------------------ MODULE Bookings ------------------------------
(***************************************************************************)
(* Who teaches a booking: its row, its sessions and its tutor, from        *)
(* create and autoAssignTutor over claimBooking, reassign, cancelBooking   *)
(* and what admins do (assign, allocate, remove, their queue) to the jobs  *)
(* that broadcast and archive (src/bookings, src/admin, the join of        *)
(* src/sessions).                                                          *)
(*                                                                         *)
(* Every request is a process.  Transactions run at READ COMMITTED: a      *)
(* statement sees what has been committed, FOR UPDATE and UPDATE wait for  *)
(* the row's lock, and what a transaction writes shows when it commits.    *)
(* The two transactions that take locks one after the other                *)
(* (autoAssignTutor and claimBooking) are split at each lock; the others   *)
(* are one step, taken when no lock they need is held.                     *)
(*                                                                         *)
(* Left out: the credits, which StudentCredits models (here a deduction    *)
(* succeeds or fails), the completion of sessions, notifications, and what *)
(* makes a tutor a candidate (skills, program, last_seen): any active      *)
(* tutor may be, or none.                                                  *)
(***************************************************************************)
EXTENDS Naturals, FiniteSets

CONSTANTS
    BookingIds,   \* bookings that may be created
    Tutors,
    Requests,     \* requests and jobs handled at one time
    None,         \* no tutor, no booking, no request
    Start, End,   \* requested_start and requested_end of each booking
    Horizon,      \* bound on the clock
    MaxSessions,  \* bound on the sessions made for a booking
    MaxAdmin,     \* bound on what admins do
    MaxFaults     \* bound on failed requests

ASSUME SlotAssumption ==
    /\ Start \in [BookingIds -> Nat]
    /\ End \in [BookingIds -> Nat]
ASSUME BoundAssumption ==
    /\ Horizon \in Nat
    /\ MaxSessions \in Nat \ {0}
    /\ MaxAdmin \in Nat
    /\ MaxFaults \in Nat
ASSUME NoneAssumption == None \notin BookingIds \union Tutors \union Requests

VARIABLES
    booking,      \* app.bookings
    sessions,     \* app.sessions: how many of a booking have a status
    active,       \* tutors.is_active /\ tutor_approved
    bookingLock,  \* the transaction that holds the row, or None
    tutorLock,
    req,          \* the requests being handled
    now,          \* the clock
    adminSteps,   \* what admins have done so far
    faults        \* failed requests so far

counters == <<adminSteps, faults>>
vars ==
    <<booking, sessions, active, bookingLock, tutorLock, req, now, counters>>
locks == <<bookingLock, tutorLock>>

BookingStatus ==
    {"absent", "requested", "confirmed", "cancelled", "expired", "archived",
     "deleted"}

BookingRow ==
    [status: BookingStatus,
     tutor: Tutors \union {None},  \* assigned_tutor_id
     fallback: BOOLEAN,            \* fallback_broadcasted_at is set
     chosenBy: {"platform", "reassign", "admin"}]   \* history: who chose him

SessionCount == [{"scheduled", "in_progress", "cancelled"} -> 0..MaxSessions]

NoBooking == [status |-> "absent", tutor |-> None, fallback |-> FALSE,
              chosenBy |-> "platform"]
NoSessions == [s \in {"scheduled", "in_progress", "cancelled"} |-> 0]

\* seen: what the request read of the booking's sessions.
Request ==
    [op: {"idle", "create", "claim", "reassign", "allocate", "cancel", "remove",
          "fallback"},
     b: BookingIds \union {None}, t: Tutors \union {None},
     pc: {"idle", "deduct", "lockTutor", "check", "commit", "session",
          "look", "assign", "find", "save", "cancel", "deactivate", "mark"},
     seen: BOOLEAN]

Idle == [op |-> "idle", b |-> None, t |-> None, pc |-> "idle", seen |-> FALSE]

TypeOK ==
    /\ booking \in [BookingIds -> BookingRow]
    /\ sessions \in [BookingIds -> SessionCount]
    /\ active \in [Tutors -> BOOLEAN]
    /\ bookingLock \in [BookingIds -> Requests \union {None}]
    /\ tutorLock \in [Tutors -> Requests \union {None}]
    /\ req \in [Requests -> Request]
    /\ now \in 0..Horizon
    /\ adminSteps \in 0..MaxAdmin
    /\ faults \in 0..MaxFaults

Init ==
    /\ booking = [b \in BookingIds |-> NoBooking]
    /\ sessions = [b \in BookingIds |-> NoSessions]
    /\ active = [t \in Tutors |-> TRUE]
    /\ bookingLock = [b \in BookingIds |-> None]
    /\ tutorLock = [t \in Tutors |-> None]
    /\ req = [r \in Requests |-> Idle]
    /\ now = 0
    /\ adminSteps = 0
    /\ faults = 0

-----------------------------------------------------------------------------
(* Rows, locks and requests *)

Exists(b) == booking[b].status \notin {"absent", "deleted"}
HasSessions(b) == sessions[b] # NoSessions

At(r, o, step) == req[r].op = o /\ req[r].pc = step
Starts(r, o, q, u, step) ==
    /\ req[r] = Idle
    /\ req' = [req EXCEPT ![r] =
                  [op |-> o, b |-> q, t |-> u, pc |-> step, seen |-> FALSE]]
GoesTo(r, step) == req' = [req EXCEPT ![r].pc = step]
Ends(r) == req' = [req EXCEPT ![r] = Idle]

Free(b) == bookingLock[b] = None

\* Mutant: the booking is read without FOR UPDATE.
ReadsBooking(r, b) == Free(b) /\ UNCHANGED bookingLock

LocksBooking(r, b) ==
    /\ Free(b)
    /\ bookingLock' = [bookingLock EXCEPT ![b] = r]

\* The bound on what admins do.
AdminSteps == adminSteps < MaxAdmin /\ adminSteps' = adminSteps + 1

\* Mutant: the tutor is read without FOR UPDATE.
ReadsTutor(r, t) == UNCHANGED tutorLock

LocksTutor(r, t) ==
    /\ tutorLock[t] = None
    /\ tutorLock' = [tutorLock EXCEPT ![t] = r]

Unlocks(r) ==
    /\ bookingLock' = [b \in BookingIds |->
                          IF bookingLock[b] = r THEN None ELSE bookingLock[b]]
    /\ tutorLock' = [t \in Tutors |->
                          IF tutorLock[t] = r THEN None ELSE tutorLock[t]]

\* A transaction that throws: nothing is written, the locks are released.
RollsBack(r) == Unlocks(r) /\ Ends(r) /\ UNCHANGED <<booking, sessions>>

\* lte and gte: slots that touch overlap.
Overlap(b, c) == Start[c] <= End[b] /\ Start[b] <= End[c]
Holds(t, b) ==
    booking[b].tutor = t /\ booking[b].status \in {"confirmed", "requested"}
Busy(t, b) == \E c \in BookingIds : Holds(t, c) /\ Overlap(b, c)

Assigned(row, t) ==
    [row EXCEPT !.tutor = t, !.status = "confirmed", !.chosenBy = "platform"]
Chosen(row, t, who) == [Assigned(row, t) EXCEPT !.chosenBy = who]

Total(count) == count["scheduled"] + count["in_progress"] + count["cancelled"]
Scheduled(count) == [count EXCEPT !["scheduled"] = @ + 1]

\* The bound: a request that may add a session starts only if one more fits.
Adding(b) ==
    {r \in Requests :
        req[r].b = b /\ req[r].op \in {"create", "claim", "reassign", "allocate"}}
Room(b) == Total(sessions[b]) + Cardinality(Adding(b)) < MaxSessions

-----------------------------------------------------------------------------
(* create and autoAssignTutor *)

CreateBooking(r, b) ==
    /\ booking[b].status = "absent"
    /\ now <= Start[b]
    /\ Starts(r, "create", b, None, "deduct")
    /\ booking' = [booking EXCEPT ![b].status = "requested"]
    /\ UNCHANGED <<sessions, active, locks, now, counters>>

\* A booking that cannot be paid is deleted, its sessions with it.
DeductFails(r) ==
    LET b == req[r].b IN
    /\ At(r, "create", "deduct")
    /\ Free(b)
    /\ booking' = [booking EXCEPT ![b] = [NoBooking EXCEPT !.status = "deleted"]]
    /\ sessions' = [sessions EXCEPT ![b] = NoSessions]
    /\ Ends(r)
    /\ UNCHANGED <<active, locks, now, counters>>

\* Once it is paid, autoAssignTutor reads the candidates and their bookings.
PickTutor(r, t) ==
    /\ At(r, "create", "deduct")
    /\ active[t]
    /\ ~ Busy(t, req[r].b)
    /\ req' = [req EXCEPT ![r].t = t, ![r].pc = "lockTutor"]
    /\ UNCHANGED <<booking, sessions, active, locks, now, counters>>

PickNobody(r) ==
    /\ At(r, "create", "deduct")
    /\ Ends(r)
    /\ UNCHANGED <<booking, sessions, active, locks, now, counters>>

AssignLockTutor(r) ==
    /\ At(r, "create", "lockTutor")
    /\ LocksTutor(r, req[r].t)
    /\ GoesTo(r, "check")
    /\ UNCHANGED <<booking, sessions, active, bookingLock, now, counters>>

AssignRefused(r) ==
    /\ At(r, "create", "check")
    /\ ~ active[req[r].t] \/ Busy(req[r].t, req[r].b)
    /\ RollsBack(r)
    /\ UNCHANGED <<active, now, counters>>

AssignChecked(r) ==
    /\ At(r, "create", "check")
    /\ active[req[r].t]
    /\ ~ Busy(req[r].t, req[r].b)
    /\ GoesTo(r, "commit")
    /\ UNCHANGED <<booking, sessions, active, locks, now, counters>>

\* The update waits for the row but does not look at its status.
AssignCommit(r) ==
    LET b == req[r].b IN
    /\ At(r, "create", "commit")
    /\ Free(b)
    /\ booking' = [booking EXCEPT ![b] = Assigned(@, req[r].t)]
    /\ Unlocks(r)
    /\ GoesTo(r, "session")
    /\ UNCHANGED <<sessions, active, now, counters>>

\* create makes the session when autoAssignTutor has returned: another write.
CreateSession(r) ==
    LET b == req[r].b IN
    /\ At(r, "create", "session")
    /\ Free(b)
    /\ sessions' = [sessions EXCEPT ![b] = Scheduled(@)]
    /\ Ends(r)
    /\ UNCHANGED <<booking, active, locks, now, counters>>

-----------------------------------------------------------------------------
(* claimBooking: the row's lock, then the tutor's *)

Claimed(b) ==
    /\ ~ booking[b].fallback
    /\ booking[b].tutor # None \/ booking[b].status = "confirmed"

\* TutorStatusGuard reads the tutor before the service is called, and nothing
\* reads is_active again.
Claim(r, b, t) ==
    /\ active[t]
    /\ Exists(b)
    /\ ~ Claimed(b)
    /\ Room(b)
    /\ Starts(r, "claim", b, t, "lockTutor")
    /\ LocksBooking(r, b)
    /\ UNCHANGED <<booking, sessions, active, tutorLock, now, counters>>

ClaimLockTutor(r) ==
    /\ At(r, "claim", "lockTutor")
    /\ LocksTutor(r, req[r].t)
    /\ GoesTo(r, "check")
    /\ UNCHANGED <<booking, sessions, active, bookingLock, now, counters>>

ClaimOverlaps(r) ==
    /\ At(r, "claim", "check")
    /\ Busy(req[r].t, req[r].b)
    /\ RollsBack(r)
    /\ UNCHANGED <<active, now, counters>>

ClaimChecked(r) ==
    /\ At(r, "claim", "check")
    /\ ~ Busy(req[r].t, req[r].b)
    /\ GoesTo(r, "commit")
    /\ UNCHANGED <<booking, sessions, active, locks, now, counters>>

\* Every claim that succeeds makes a session.
ClaimCommit(r) ==
    LET b == req[r].b IN
    /\ At(r, "claim", "commit")
    /\ booking' = [booking EXCEPT ![b] = Assigned(@, req[r].t)]
    /\ sessions' = [sessions EXCEPT ![b] = Scheduled(@)]
    /\ Unlocks(r)
    /\ Ends(r)
    /\ UNCHANGED <<active, now, counters>>

-----------------------------------------------------------------------------
(* reassign: no transaction, the session is looked up after the write *)

\* The foreign key makes the update wait for the tutor's row as well.
Reassign(r, b, t) ==
    /\ Exists(b)
    /\ Room(b)
    /\ Free(b)
    /\ tutorLock[t] = None
    /\ Starts(r, "reassign", b, t, "find")
    /\ booking' = [booking EXCEPT ![b] = Chosen(@, t, "reassign")]
    /\ AdminSteps
    /\ UNCHANGED <<sessions, active, locks, now, faults>>

ReassignFind(r) ==
    /\ At(r, "reassign", "find")
    /\ req' = [req EXCEPT ![r].pc = "save", ![r].seen = HasSessions(req[r].b)]
    /\ UNCHANGED <<booking, sessions, active, locks, now, counters>>

\* Mutant: the session that was found keeps its status.
Kept(count, s) == count

\* The session goes back from status s to scheduled.
Rescheduled(count, s) == Scheduled([count EXCEPT ![s] = @ - 1])

\* The session that findFirst returned is any of the booking's.
ReassignUpdate(r) ==
    LET b == req[r].b IN
    /\ At(r, "reassign", "save")
    /\ req[r].seen
    /\ \E s \in {"scheduled", "in_progress", "cancelled"} :
          /\ sessions[b][s] > 0
          /\ sessions' = [sessions EXCEPT ![b] = Rescheduled(@, s)]
    /\ Ends(r)
    /\ UNCHANGED <<booking, active, locks, now, counters>>

ReassignCreate(r) ==
    LET b == req[r].b IN
    /\ At(r, "reassign", "save")
    /\ ~ req[r].seen
    /\ Free(b)
    /\ Exists(b)
    /\ sessions' = [sessions EXCEPT ![b] = Scheduled(@)]
    /\ Ends(r)
    /\ UNCHANGED <<booking, active, locks, now, counters>>

\* The row was deleted meanwhile: the update or the insert throws.
ReassignFails(r) ==
    /\ At(r, "reassign", "save")
    /\ ~ Exists(req[r].b)
    /\ Ends(r)
    /\ UNCHANGED <<booking, sessions, active, locks, now, counters>>

-----------------------------------------------------------------------------
(* assignTutorToBooking and allocateTutor, the admin's *)

\* Any booking to any tutor, in one write.
AssignTutor(r, b, t) ==
    /\ Exists(b)
    /\ Room(b)
    /\ Free(b)
    /\ tutorLock[t] = None
    /\ Starts(r, "allocate", b, t, "find")
    /\ booking' = [booking EXCEPT ![b] = Chosen(@, t, "admin")]
    /\ AdminSteps
    /\ UNCHANGED <<sessions, active, locks, now, faults>>

\* The tutor must be active when he is read, before the student, the program
\* and the subject are.
AllocateReads(r, t) ==
    /\ active[t]
    /\ Starts(r, "allocate", None, t, "look")
    /\ AdminSteps
    /\ UNCHANGED <<booking, sessions, active, locks, now, faults>>

\* By its id, whatever its status, or the newest of the subject that is requested.
AllocateLooks(r, b) ==
    /\ At(r, "allocate", "look")
    /\ Exists(b)
    /\ Room(b)
    /\ req' = [req EXCEPT ![r].b = b, ![r].pc = "assign"]
    /\ UNCHANGED <<booking, sessions, active, locks, now, counters>>

AllocateAssigns(r) ==
    LET b == req[r].b IN
    /\ At(r, "allocate", "assign")
    /\ Exists(b)
    /\ Free(b)
    /\ tutorLock[req[r].t] = None
    /\ booking' = [booking EXCEPT ![b] = Chosen(@, req[r].t, "admin")]
    /\ GoesTo(r, "find")
    /\ UNCHANGED <<sessions, active, locks, now, counters>>

\* None was found: a booking for tomorrow, confirmed at once.
AllocateCreates(r, b) ==
    LET t == req[r].t IN
    /\ At(r, "allocate", "look")
    /\ booking[b].status = "absent"
    /\ now <= Start[b]
    /\ tutorLock[t] = None
    /\ booking' = [booking EXCEPT ![b] = Chosen(@, t, "admin")]
    /\ req' = [req EXCEPT ![r].b = b, ![r].pc = "save"]
    /\ UNCHANGED <<sessions, active, locks, now, counters>>

\* A session of any status will do, a cancelled one too.
AllocateFinds(r) ==
    /\ At(r, "allocate", "find")
    /\ IF HasSessions(req[r].b) THEN Ends(r) ELSE GoesTo(r, "save")
    /\ UNCHANGED <<booking, sessions, active, locks, now, counters>>

AllocateMakes(r) ==
    LET b == req[r].b IN
    /\ At(r, "allocate", "save")
    /\ Exists(b)
    /\ Free(b)
    /\ sessions' = [sessions EXCEPT ![b] = Scheduled(@)]
    /\ Ends(r)
    /\ UNCHANGED <<booking, active, locks, now, counters>>

\* The row was deleted meanwhile.
AllocateFails(r) ==
    /\ req[r].op = "allocate" /\ req[r].pc \in {"assign", "save"}
    /\ ~ Exists(req[r].b)
    /\ Ends(r)
    /\ UNCHANGED <<booking, sessions, active, locks, now, counters>>

-----------------------------------------------------------------------------
(* cancelBooking *)

\* findUnique takes no lock: the row and its sessions are read as they are.
CancelRead(r, b) ==
    /\ Exists(b)
    /\ booking[b].status # "cancelled"
    /\ req[r] = Idle
    /\ req' = [req EXCEPT ![r] = [op |-> "cancel", b |-> b, t |-> None,
                                  pc |-> "cancel", seen |-> HasSessions(b)]]
    /\ UNCHANGED <<booking, sessions, active, locks, now, counters>>

AllCancelled(count) == [NoSessions EXCEPT !["cancelled"] = Total(count)]

\* Only sessions that were there when the booking was read make the code
\* cancel sessions.
CancelCommit(r) ==
    LET b == req[r].b IN
    /\ At(r, "cancel", "cancel")
    /\ Free(b)
    /\ IF Exists(b)
       THEN /\ booking' = [booking EXCEPT ![b].status = "cancelled"]
            /\ sessions' = [sessions EXCEPT ![b] =
                               IF req[r].seen THEN AllCancelled(@) ELSE @]
       ELSE UNCHANGED <<booking, sessions>>
    /\ Ends(r)
    /\ UNCHANGED <<active, locks, now, counters>>

-----------------------------------------------------------------------------
(* removeTutor: his bookings first, then his is_active *)

\* Mutant: the booking becomes available, a status that only the alerts know.
MadeAvailable(row) == [row EXCEPT !.tutor = None, !.status = "available"]

Unassigned(row) == [row EXCEPT !.tutor = None, !.status = "requested"]

Theirs(t) == {b \in BookingIds : booking[b].tutor = t}

RemoveUnassign(r, t) ==
    /\ active[t]
    /\ \A b \in Theirs(t) : Free(b)
    /\ booking' = [b \in BookingIds |->
                      IF b \in Theirs(t) THEN Unassigned(booking[b])
                      ELSE booking[b]]
    /\ Starts(r, "remove", None, t, "deactivate")
    /\ AdminSteps
    /\ UNCHANGED <<sessions, active, locks, now, faults>>

RemoveDeactivate(r) ==
    /\ At(r, "remove", "deactivate")
    /\ tutorLock[req[r].t] = None
    /\ active' = [active EXCEPT ![req[r].t] = FALSE]
    /\ Ends(r)
    /\ UNCHANGED <<booking, sessions, locks, now, counters>>

-----------------------------------------------------------------------------
(* The jobs, the tutor's arrival and the clock *)

\* handleUnclaimedAssignments: the clock does not resolve its 15 minutes and
\* 2 hours, a booking that has started is old enough.  The broadcast between
\* the read and the mark needs another tutor who is online.
FallbackRead(r, b) ==
    /\ booking[b].status = "confirmed"
    /\ booking[b].tutor # None
    /\ ~ booking[b].fallback
    /\ Start[b] < now
    /\ sessions[b]["in_progress"] = 0
    /\ Starts(r, "fallback", b, None, "mark")
    /\ UNCHANGED <<booking, sessions, active, locks, now, counters>>

FallbackMark(r) ==
    LET b == req[r].b IN
    /\ At(r, "fallback", "mark")
    /\ Free(b)
    /\ booking' = [booking EXCEPT ![b].fallback = Exists(b)]
    /\ Ends(r)
    /\ UNCHANGED <<sessions, active, locks, now, counters>>

ExpireExempt == {"expired", "cancelled", "archived", "absent", "deleted"}

\* Mutant: assigned bookings are archived only if they were requested.
ArchiveExemptConfirmed ==
    {"archived", "cancelled", "confirmed", "absent", "deleted"}

ArchiveExempt == {"archived", "cancelled", "absent", "deleted"}

ToExpire(b) ==
    /\ booking[b].tutor = None
    /\ Start[b] < now
    /\ booking[b].status \notin ExpireExempt

ToArchive(b) ==
    /\ booking[b].tutor # None
    /\ End[b] < now
    /\ booking[b].status \notin ArchiveExempt

\* One updateMany: it waits for the rows that are locked.
UpdateMany(which, status) ==
    /\ which # {}
    /\ \A b \in which : Free(b)
    /\ booking' = [b \in BookingIds |->
                      IF b \in which THEN [booking[b] EXCEPT !.status = status]
                      ELSE booking[b]]

ExpireUnassigned ==
    /\ UpdateMany({b \in BookingIds : ToExpire(b)}, "expired")
    /\ UNCHANGED <<sessions, active, locks, req, now, counters>>

\* getAllocationQueue: an admin who looks at the queue expires what is past.
QueueExpires ==
    /\ UpdateMany({b \in BookingIds : /\ booking[b].tutor = None
                                      /\ booking[b].status = "requested"
                                      /\ Start[b] < now}, "expired")
    /\ UNCHANGED <<sessions, active, locks, req, now, counters>>

ArchiveAssigned ==
    /\ UpdateMany({b \in BookingIds : ToArchive(b)}, "archived")
    /\ UNCHANGED <<sessions, active, locks, req, now, counters>>

\* handleJoinSession: the booking's tutor joins a session that is scheduled.
TutorJoins(b) ==
    /\ booking[b].tutor # None
    /\ sessions[b]["scheduled"] > 0
    /\ sessions' = [sessions EXCEPT ![b]["scheduled"] = @ - 1,
                                    ![b]["in_progress"] = @ + 1]
    /\ UNCHANGED <<booking, active, locks, req, now, counters>>

Tick ==
    /\ now < Horizon
    /\ now' = now + 1
    /\ UNCHANGED <<booking, sessions, active, locks, req, counters>>

-----------------------------------------------------------------------------
(* Failures *)

\* An await rejects or the server restarts: the open transaction rolls back,
\* what is committed stays.
RequestFails(r) ==
    /\ req[r] # Idle
    /\ faults < MaxFaults
    /\ faults' = faults + 1
    /\ RollsBack(r)
    /\ UNCHANGED <<active, now, adminSteps>>

\* claimBooking waits for the tutor with the booking locked, autoAssignTutor
\* for the booking with the tutor locked.
WaitsFor(r, s) ==
    \/ At(r, "claim", "lockTutor") /\ tutorLock[req[r].t] = s
    \/ At(r, "create", "commit") /\ bookingLock[req[r].b] = s

\* PostgreSQL detects the deadlock and aborts one of the transactions.
DeadlockVictim(r) ==
    /\ \E s \in Requests : WaitsFor(r, s) /\ WaitsFor(s, r)
    /\ RollsBack(r)
    /\ UNCHANGED <<active, now, counters>>

-----------------------------------------------------------------------------

Starting(r) ==
    \/ \E b \in BookingIds :
          \/ CreateBooking(r, b)
          \/ CancelRead(r, b)
          \/ FallbackRead(r, b)
          \/ \E t \in Tutors : Claim(r, b, t) \/ Reassign(r, b, t)
                                \/ AssignTutor(r, b, t)
    \/ \E t \in Tutors : RemoveUnassign(r, t) \/ AllocateReads(r, t)

Creating(r) ==
    \/ DeductFails(r)
    \/ \E t \in Tutors : PickTutor(r, t)
    \/ PickNobody(r)
    \/ AssignLockTutor(r)
    \/ AssignRefused(r)
    \/ AssignChecked(r)
    \/ AssignCommit(r)
    \/ CreateSession(r)

Claiming(r) ==
    \/ ClaimLockTutor(r)
    \/ ClaimOverlaps(r)
    \/ ClaimChecked(r)
    \/ ClaimCommit(r)

Reassigning(r) ==
    \/ ReassignFind(r)
    \/ ReassignUpdate(r)
    \/ ReassignCreate(r)
    \/ ReassignFails(r)

Allocating(r) ==
    \/ \E b \in BookingIds : AllocateLooks(r, b) \/ AllocateCreates(r, b)
    \/ AllocateAssigns(r)
    \/ AllocateFinds(r)
    \/ AllocateMakes(r)
    \/ AllocateFails(r)

Continuing(r) ==
    \/ Creating(r)
    \/ Claiming(r)
    \/ Reassigning(r)
    \/ Allocating(r)
    \/ CancelCommit(r)
    \/ RemoveDeactivate(r)
    \/ FallbackMark(r)
    \/ DeadlockVictim(r)

Jobs == ExpireUnassigned \/ QueueExpires \/ ArchiveAssigned

Next ==
    \/ \E r \in Requests : Starting(r) \/ Continuing(r) \/ RequestFails(r)
    \/ Jobs
    \/ \E b \in BookingIds : TutorJoins(b)
    \/ Tick

\* A lock is given to those who wait for it, the jobs run every hour, and time
\* passes.  Nobody has to create, claim or cancel anything.
Fairness ==
    /\ \A r \in Requests : SF_vars(Continuing(r))
    /\ SF_vars(ExpireUnassigned)
    /\ SF_vars(ArchiveAssigned)
    /\ WF_vars(Tick)

Spec == Init /\ [][Next]_vars

FairSpec == Spec /\ Fairness

-----------------------------------------------------------------------------
(* Properties *)

\* No tutor holds two bookings whose slots overlap, unless an admin gave him one
\* of them: reassign, assignTutorToBooking and allocateTutor look at no other.
NoDoubleBooking ==
    \A t \in Tutors : \A b, c \in BookingIds :
        /\ b # c /\ Holds(t, b) /\ Holds(t, c) /\ Overlap(b, c)
        => {booking[b].chosenBy, booking[c].chosenBy} # {"platform"}

WorkedOn(b) == \E r \in Requests : req[r].b = b

\* The admin's assignment takes a cancelled session for one.
Revived(b) == booking[b].chosenBy = "admin" /\ sessions[b]["cancelled"] > 0

\* A booking that stands confirmed has a session to be held in, once nobody
\* works on it: create makes it after the assignment, reassign looks for one and
\* reschedules it.  Only a cancelled booking that an admin assigns has none.
ConfirmedHasSession ==
    \A b \in BookingIds :
        booking[b].status = "confirmed" /\ ~ WorkedOn(b) /\ faults = 0
        => sessions[b]["scheduled"] + sessions[b]["in_progress"] > 0 \/ Revived(b)

\* autoAssignTutor never gives a booking to a tutor who has been removed,
\* though he was active when the candidates were read.
AutoAssignsActive ==
    [][\A r \in Requests : AssignCommit(r) => active[req[r].t]]_vars

\* What the board shows of a row.
Stage(status) ==
    CASE status \in {"requested", "confirmed"} -> "standing"
      [] status \in {"cancelled", "expired", "archived"} -> "over"
      [] OTHER -> status
Shown(row) ==
    [state |-> Stage(row.status), tutor |-> row.tutor, offered |-> row.fallback]

\* Request q is to assign booking b automatically.
Tries(q, b) ==
    /\ q.op = "create" /\ q.b = b
    /\ q.pc \in {"deduct", "lockTutor", "check", "commit"}

\* The board every assignment of which is one step.  A claim stands until an admin,
\* a removal or another claim that was offered replaces it, or the one automatic
\* assignment that was under way; nothing is given to a tutor who is busy, and
\* nothing brings a deleted booking back.
Board == INSTANCE Assignments WITH
    assignment <- [b \in BookingIds |-> Shown(booking[b])],
    pending <- {b \in BookingIds : \E r \in Requests : Tries(req[r], b)},
    Clashing <- [b \in BookingIds |-> {c \in BookingIds : Overlap(b, c)}]

AssignmentsSpec == Board!Spec

Settled == {"expired", "archived", "cancelled", "deleted"}

\* Every booking ends: the jobs archive or expire what nobody cancels, however
\* claims, reassignments and removals bring it back in the meantime.
EventuallySettled ==
    \A b \in BookingIds :
        booking[b].status \in {"requested", "confirmed"}
        ~> booking[b].status \in Settled

\* "Cancel the associated sessions": a booking that stays cancelled has no
\* session that can still be joined.
CancelledHasNoSession ==
    \A b \in BookingIds :
        booking[b].status = "cancelled" /\ ~ WorkedOn(b)
        => sessions[b]["scheduled"] + sessions[b]["in_progress"] = 0

=============================================================================
