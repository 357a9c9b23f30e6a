------------------------------ MODULE Sessions ------------------------------
(***************************************************************************)
(* The lessons of one booking (src/sessions): how a session is found or    *)
(* made, started by the tutor's join, given a status by a person or the    *)
(* video provider's webhook, ended, completed by the sweep of stuck        *)
(* sessions, cancelled with its booking, and what completing it does to    *)
(* the booking, to the student's hours and to her streak.                  *)
(*                                                                         *)
(* A request, webhook or job is a process; each write that commits on its  *)
(* own is a step, and so is a read on which a later write goes.            *)
(*                                                                         *)
(* Left out: who may do it, the attendance that the end of a session also  *)
(* closes (Attendance), badges, meetings and mails.                        *)
(***************************************************************************)
EXTENDS Integers, FiniteSets

CONSTANTS
    MaxSessions,    \* bound on the sessions made for the booking
    Callers,        \* requests and webhooks handled at one time
    Sweeper,        \* the job of every quarter of an hour
    NoOne,          \* no session
    MaxReverts,     \* bound on statuses set and cancellations
    LastWeek,       \* bound on the weeks that pass
    MaxCallFaults   \* bound on failed calls

ASSUME SessionsAssumption ==
    /\ MaxSessions \in Nat /\ MaxReverts \in Nat
    /\ LastWeek \in Nat /\ MaxCallFaults \in Nat
    /\ IsFiniteSet(Callers) /\ Sweeper \notin Callers
    /\ NoOne \notin 1..MaxSessions

VARIABLES
    session,    \* app.sessions of the booking, numbered as they were made
    parent,     \* status of the booking
    hour,       \* the schedule: "before" its end, "after" it, "late"
    week,       \* the week of the calendar
    streak,     \* streak_weeks and last_session_week of the student
    call,       \* the calls being handled
    tally,      \* history of each session
    lessonWeeks, \* history: weeks in which updateStreak counted a lesson
    reverts,    \* statuses set and cancellations so far
    callFaults  \* failed calls so far

sessionsVars == <<session, parent, hour, week, streak, call, tally, lessonWeeks,
                  reverts, callFaults>>
clock == <<hour, week>>

SessionIds == 1..MaxSessions
Workers == Callers \union {Sweeper}
SessionStatus == {"absent", "scheduled", "in_progress", "completed", "cancelled"}

\* reopened: how often it was taken from 'completed'; counted: how often its
\* hours were; repaired: it was completed by the auto-fix of the dashboard;
\* dropped: the call that had completed it failed before it counted its hours.
Tally == [reopened: Nat, counted: Nat, repaired: BOOLEAN, dropped: BOOLEAN]

\* s: the session; set: the status to be written; todo: sessions that were
\* read; weekRead, streakRead: what updateStreak will write.
Call == [op: {"idle", "set", "complete", "join", "cancel", "sweep", "fix"},
         pc: {"idle", "create", "write", "hours", "booking", "streak",
              "streakWrite"},
         s: SessionIds \union {NoOne}, set: SessionStatus,
         todo: SUBSET SessionIds, weekRead: Nat, streakRead: Nat]

NoCall == [op |-> "idle", pc |-> "idle", s |-> NoOne, set |-> "absent",
           todo |-> {}, weekRead |-> 0, streakRead |-> 0]

SessionsTypeOK ==
    /\ session \in [SessionIds -> SessionStatus]
    /\ parent \in {"confirmed", "completed", "cancelled"}
    /\ hour \in {"before", "after", "late"}
    /\ week \in 1..LastWeek
    /\ streak \in [weeks: Nat, last: Nat]
    /\ call \in [Workers -> Call]
    /\ tally \in [SessionIds -> Tally]
    /\ lessonWeeks \subseteq 1..LastWeek
    /\ reverts \in 0..MaxReverts
    /\ callFaults \in 0..MaxCallFaults

\* A confirmed booking, with the session that was made with it or still without;
\* how much of the bounds is left is open.
SessionsInit ==
    /\ \E first \in {"absent", "scheduled"} :
          session = [s \in SessionIds |-> IF s = 1 THEN first ELSE "absent"]
    /\ parent = "confirmed"
    /\ hour = "before"
    /\ week \in 1..LastWeek
    /\ streak = [weeks |-> 0, last |-> 0]
    /\ call = [c \in Workers |-> NoCall]
    /\ tally = [s \in SessionIds |->
                   [reopened |-> 0, counted |-> 0, repaired |-> FALSE,
                    dropped |-> FALSE]]
    /\ lessonWeeks = {}
    /\ reverts \in 0..MaxReverts
    /\ callFaults \in 0..MaxCallFaults

-----------------------------------------------------------------------------
(* Calls *)

Calling(c, op, pc) == call[c].op = op /\ call[c].pc = pc
CallBegins(c, first) == call[c] = NoCall /\ call' = [call EXCEPT ![c] = first]
CallGoesTo(c, pc) == call' = [call EXCEPT ![c].pc = pc]
CallEnds(c) == call' = [call EXCEPT ![c] = NoCall]

Made == {s \in SessionIds : session[s] # "absent"}
Newest(s) == s \in Made /\ \A t \in Made : t <= s

\* Statuses set by hand and cancellations are bounded.
Reverts == reverts < MaxReverts /\ reverts' = reverts + 1
Bounded(op) == IF op \in {"set", "cancel"} THEN Reverts ELSE UNCHANGED reverts

\* The writes that do not look at the status: those that take a session from
\* 'completed' are remembered.
Overwritten(ids, status) ==
    /\ session' = [s \in SessionIds |-> IF s \in ids THEN status ELSE session[s]]
    /\ tally' = [s \in SessionIds |->
                    IF s \in ids /\ session[s] = "completed"
                                 /\ status # "completed"
                    THEN [tally[s] EXCEPT !.reopened = @ + 1] ELSE tally[s]]

-----------------------------------------------------------------------------
(* ensureSessionId: the id is a session's, or a booking's *)

\* updateSessionStatus and endSession, the gateway's joinSession.
Requested == {<<"set", "scheduled">>, <<"set", "in_progress">>,
              <<"set", "cancelled">>, <<"complete", "completed">>,
              <<"join", "in_progress">>}

\* What was asked goes on with the session that was found; a join has read
\* that it is scheduled.
Resolved(o, s) == [NoCall EXCEPT !.op = o[1], !.pc = "write", !.s = s, !.set = o[2]]
Resolves(c, o, s) ==
    /\ o[1] = "join" => session[s] = "scheduled"
    /\ CallBegins(c, Resolved(o, s))

\* With the id of a session, or of the booking: then it is the newest.
EnsureFinds(c, o) ==
    /\ \E s \in Made : Resolves(c, o, s)
    /\ Bounded(o[1])
    /\ UNCHANGED <<session, parent, clock, streak, tally, lessonWeeks, callFaults>>

\* The booking has no session.
EnsureMisses(c, o) ==
    /\ Made = {}
    /\ CallBegins(c, [Resolved(o, NoOne) EXCEPT !.pc = "create"])
    /\ Bounded(o[1])
    /\ UNCHANGED <<session, parent, clock, streak, tally, lessonWeeks, callFaults>>

EnsureCreates(c, s) ==
    /\ call[c].pc = "create"
    /\ s \notin Made /\ \A t \in SessionIds : t < s => t \in Made
    /\ session' = [session EXCEPT ![s] = "scheduled"]
    /\ call' = [call EXCEPT ![c].pc = "write", ![c].s = s]
    /\ UNCHANGED <<parent, clock, streak, tally, lessonWeeks, reverts, callFaults>>

-----------------------------------------------------------------------------
(* updateSessionStatus, endSession, joinSession, cancelBooking *)

\* Any status but 'completed', and the tutor's join, is written over whatever
\* is there.
WriteStatus(c) ==
    /\ call[c].op \in {"set", "join"} /\ call[c].pc = "write"
    /\ Overwritten({call[c].s}, call[c].set)
    /\ CallEnds(c)
    /\ UNCHANGED <<parent, clock, streak, lessonWeeks, reverts, callFaults>>

\* Mutant: 'completed' is written whatever the status is.
OpenAnyway(s) == session[s] # "absent"

Open(s) == session[s] # "completed"

Completes(s) ==
    /\ session' = [session EXCEPT ![s] = "completed"]
    /\ UNCHANGED <<parent, clock, streak, tally, lessonWeeks, reverts, callFaults>>

\* Only the call that completes the session does what follows from it.
WriteCompleted(c) ==
    /\ Calling(c, "complete", "write")
    /\ Open(call[c].s)
    /\ CallGoesTo(c, "hours")
    /\ Completes(call[c].s)

AlreadyCompleted(c) ==
    /\ Calling(c, "complete", "write")
    /\ ~ Open(call[c].s)
    /\ CallEnds(c)
    /\ UNCHANGED <<session, parent, clock, streak, tally, lessonWeeks, reverts,
                   callFaults>>

\* Who is neither of the session nor an admin may not end it; the session that
\* was made for the booking stays.
EndRefused(c) ==
    /\ Calling(c, "complete", "write")
    /\ CallEnds(c)
    /\ UNCHANGED <<session, parent, clock, streak, tally, lessonWeeks, reverts,
                   callFaults>>

CancelReads(c) ==
    /\ parent # "cancelled"
    /\ CallBegins(c, [NoCall EXCEPT !.op = "cancel", !.pc = "write"])
    /\ Bounded("cancel")
    /\ UNCHANGED <<session, parent, clock, streak, tally, lessonWeeks, callFaults>>

CancelWrites(c) ==
    /\ Calling(c, "cancel", "write")
    /\ parent' = "cancelled"
    /\ Overwritten(Made, "cancelled")
    /\ CallEnds(c)
    /\ UNCHANGED <<clock, streak, lessonWeeks, reverts, callFaults>>

-----------------------------------------------------------------------------
(* handleSessionCompletion; checkBadges, its last step, writes nothing here  *)
(* but what a dashboard does by itself                                      *)

\* The call is through, the sweep goes on with the next.
Settled(c) ==
    IF call[c].op = "sweep" /\ call[c].todo # {}
    THEN [NoCall EXCEPT !.op = "sweep", !.pc = "write", !.todo = call[c].todo]
    ELSE NoCall

AddHours(c) ==
    /\ call[c].pc = "hours"
    /\ tally' = [tally EXCEPT ![call[c].s].counted = @ + 1]
    /\ CallGoesTo(c, "booking")
    /\ UNCHANGED <<session, parent, clock, streak, lessonWeeks, reverts, callFaults>>

\* The booking is completed whatever it was.
CompleteBooking(c) ==
    /\ call[c].pc = "booking"
    /\ parent' = "completed"
    /\ CallGoesTo(c, "streak")
    /\ UNCHANGED <<session, clock, streak, tally, lessonWeeks, reverts, callFaults>>

\* Mutant: a week without a lesson does not end the streak.
NextStreakGapless(k) == k.weeks + 1

NextStreak(k) == IF k.last = week - 1 THEN k.weeks + 1 ELSE 1

\* updateStreak reads the student ...
StreakRead(c) ==
    /\ call[c].pc = "streak"
    /\ call' = IF streak.last = week
               THEN [call EXCEPT ![c] = Settled(c)]
               ELSE [call EXCEPT ![c].pc = "streakWrite", ![c].weekRead = week,
                                 ![c].streakRead = NextStreak(streak)]
    /\ lessonWeeks' = lessonWeeks \union {week}
    /\ UNCHANGED <<session, parent, clock, streak, tally, reverts, callFaults>>

\* ... and writes what follows from what it has read.
StreakWrite(c) ==
    /\ call[c].pc = "streakWrite"
    /\ streak' = [weeks |-> call[c].streakRead, last |-> call[c].weekRead]
    /\ call' = [call EXCEPT ![c] = Settled(c)]
    /\ UNCHANGED <<session, parent, clock, tally, lessonWeeks, reverts, callFaults>>

-----------------------------------------------------------------------------
(* getProgressSummary: its auto-fix of sessions that are over *)

NeedsFix == {s \in Made : /\ hour # "before"
                          /\ session[s] \notin {"completed", "cancelled"}}

\* The student opens her dashboard, or checkBadges asks for the summary.
DashboardRead(c) ==
    /\ NeedsFix # {}
    /\ CallBegins(c, [NoCall EXCEPT !.op = "fix", !.pc = "write",
                                    !.todo = NeedsFix])
    /\ UNCHANGED <<session, parent, clock, streak, tally, lessonWeeks, reverts,
                   callFaults>>

\* The sessions read are completed whatever they are by now, without hours.
FixWrites(c) ==
    /\ Calling(c, "fix", "write")
    /\ session' = [s \in SessionIds |->
                      IF s \in call[c].todo THEN "completed" ELSE session[s]]
    /\ tally' = [s \in SessionIds |->
                    IF s \in call[c].todo THEN [tally[s] EXCEPT !.repaired = TRUE]
                    ELSE tally[s]]
    /\ CallEnds(c)
    /\ UNCHANGED <<parent, clock, streak, lessonWeeks, reverts, callFaults>>

-----------------------------------------------------------------------------
(* autoCompleteStuckSessions *)

\* Mutant: sessions that ended within the last two hours, not before.
StuckLately == {s \in Made : session[s] = "in_progress" /\ hour = "after"}

Stuck == {s \in Made : session[s] = "in_progress" /\ hour = "late"}

SweepReads ==
    /\ Stuck # {}
    /\ CallBegins(Sweeper, [NoCall EXCEPT !.op = "sweep", !.pc = "write",
                                          !.todo = Stuck])
    /\ UNCHANGED <<session, parent, clock, streak, tally, lessonWeeks, reverts,
                   callFaults>>

\* The sweep has done with s.
SweepWithout(s) ==
    LET rest == call[Sweeper].todo \ {s}
    IN  IF rest = {} THEN NoCall ELSE [call[Sweeper] EXCEPT !.todo = rest]

\* Mutant: the sweep completes what it has read and does no more.
SweepOnlyCompletes(s) ==
    /\ Calling(Sweeper, "sweep", "write")
    /\ s \in call[Sweeper].todo
    /\ session[s] = "in_progress"
    /\ call' = [call EXCEPT ![Sweeper] = SweepWithout(s)]
    /\ Completes(s)

SweepCompletes(s) ==
    /\ Calling(Sweeper, "sweep", "write")
    /\ s \in call[Sweeper].todo
    /\ session[s] = "in_progress"
    /\ call' = [call EXCEPT ![Sweeper].pc = "hours", ![Sweeper].s = s,
                            ![Sweeper].todo = @ \ {s}]
    /\ Completes(s)

\* P2025: it is no longer in progress.
SweepSkips(s) ==
    /\ Calling(Sweeper, "sweep", "write")
    /\ s \in call[Sweeper].todo
    /\ session[s] # "in_progress"
    /\ call' = [call EXCEPT ![Sweeper] = SweepWithout(s)]
    /\ UNCHANGED <<session, parent, clock, streak, tally, lessonWeeks, reverts,
                   callFaults>>

-----------------------------------------------------------------------------
(* Time and failures *)

HourPasses ==
    /\ \/ hour = "before" /\ hour' = "after"
       \/ hour = "after" /\ hour' = "late"
    /\ UNCHANGED <<session, parent, week, streak, call, tally, lessonWeeks,
                   reverts, callFaults>>

WeekPasses ==
    /\ week < LastWeek
    /\ week' = week + 1
    /\ hour' = "late"
    /\ UNCHANGED <<session, parent, streak, call, tally, lessonWeeks, reverts,
                   callFaults>>

\* An await rejects or the server restarts.  Nobody calls again: Daily's
\* webhook catches the error, the next sweep looks at 'in_progress' only.
CallFails(c) ==
    /\ call[c] # NoCall
    /\ callFaults < MaxCallFaults
    /\ callFaults' = callFaults + 1
    /\ tally' = [s \in SessionIds |->
                    IF call[c].pc = "hours" /\ call[c].s = s
                    THEN [tally[s] EXCEPT !.dropped = TRUE] ELSE tally[s]]
    /\ CallEnds(c)
    /\ UNCHANGED <<session, parent, clock, streak, lessonWeeks, reverts>>

-----------------------------------------------------------------------------

Resolving(c) ==
    \/ \E o \in Requested : EnsureFinds(c, o) \/ EnsureMisses(c, o)
    \/ CancelReads(c)

Completing(c) ==
    AddHours(c) \/ CompleteBooking(c) \/ StreakRead(c) \/ StreakWrite(c)

\* What a call that has begun does next.
Proceeding(c) ==
    \/ \E s \in SessionIds : EnsureCreates(c, s)
    \/ WriteStatus(c) \/ WriteCompleted(c) \/ AlreadyCompleted(c)
    \/ EndRefused(c) \/ CancelWrites(c)
    \/ FixWrites(c)

Sweeping ==
    \/ SweepReads
    \/ \E s \in SessionIds : SweepCompletes(s) \/ SweepSkips(s)
    \/ Completing(Sweeper)

SessionsNext ==
    \/ \E c \in Callers :
          Resolving(c) \/ Proceeding(c) \/ Completing(c) \/ DashboardRead(c)
    \/ Sweeping
    \/ \E c \in Workers : CallFails(c)
    \/ HourPasses
    \/ WeekPasses

\* The job runs every quarter of an hour; nobody has to call.
SessionsFairness == WF_sessionsVars(Sweeping)

SessionsSpec == SessionsInit /\ [][SessionsNext]_sessionsVars /\ SessionsFairness

-----------------------------------------------------------------------------
(* Properties *)

\* The hours of a session are counted once, however many people, webhooks and
\* sweeps end it at the same time; again only if somebody has set it back.
HoursOnce ==
    \A s \in SessionIds : tally[s].counted <= 1 + tally[s].reopened

CompletionOwed(s) == \E c \in Workers : call[c].pc = "hours" /\ call[c].s = s

\* A completed session has had its hours counted, or will: the only ways to
\* lose them are the auto-fix of a dashboard and a failure right after the write.
CompletedIsCounted ==
    \A s \in SessionIds :
        session[s] = "completed"
        => \/ tally[s].counted > 0 \/ CompletionOwed(s)
           \/ tally[s].repaired \/ tally[s].dropped

\* A streak is earned: it never spans a week in which no lesson was counted,
\* though updateStreak writes, perhaps a week later, what it has read before.
StreakEarned ==
    \A w \in 1..streak.last :
        streak.last - streak.weeks < w => w \in lessonWeeks

\* A lesson that nobody ends does not stay in progress: the sweep gets it.
StuckSessionsEnd ==
    \A s \in SessionIds :
        (session[s] = "in_progress" /\ hour = "late") ~> session[s] # "in_progress"

=============================================================================
