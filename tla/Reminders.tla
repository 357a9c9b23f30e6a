----------------------------- MODULE Reminders -----------------------------
(***************************************************************************)
(* Reminders of lessons (src/notifications/reminders.service.ts).          *)
(*                                                                         *)
(* The clock counts hours.  Every hour a pass looks one hour ahead, then   *)
(* LongAhead hours; it reads the clock before each of the two.  A session  *)
(* of hour h starts within that hour.                                      *)
(***************************************************************************)
EXTENDS Integers, FiniteSets

CONSTANTS
    Lessons,        \* sessions
    Jobs,           \* passes that may be at work at one time
    LongAhead,      \* 24 in the code
    NoHour,         \* no hour
    LastHour,       \* bound on the clock
    MaxMoves,       \* bound on sessions moved to another time
    MaxLapses       \* bound on failures, slow passes, hours without server

ASSUME RemindersAssumption ==
    /\ LongAhead \in Nat \ {0, 1} /\ LastHour \in Nat
    /\ MaxMoves \in Nat /\ MaxLapses \in Nat
    /\ NoHour \notin Nat

VARIABLES
    hour,       \* the clock
    fired,      \* the job of this hour has begun, or was missed
    lesson,     \* the sessions: start and status
    notice,     \* notifications: hours at which a reminder was recorded
    job,        \* the passes
    reminded,   \* history: reminders sent of a session, by kind
    promised,   \* history: sessions planned before their window, not moved since
    lapsed,     \* history: hours in which a pass was missed, failed or was late
    twice,      \* history: a reminder was not recorded, or two passes were at it
    moves, lapses

remindersVars == <<hour, fired, lesson, notice, job, reminded, promised,
                   lapsed, twice, moves, lapses>>
lessonHistory == <<reminded, promised, lapsed, twice>>

Kinds == {1, LongAhead}
Hours == 0..LastHour

\* ahead: which of the two checks; todo: the sessions found, of them those
\* without a recent reminder; at: the hour that was read.
Job1 == [pc: {"idle", "find", "recent", "send", "record"}, ahead: Kinds,
         todo: SUBSET Lessons, one: Lessons \union {NoHour}, at: Hours]
NoJob == [pc |-> "idle", ahead |-> 1, todo |-> {}, one |-> NoHour, at |-> 0]

RemindersTypeOK ==
    /\ hour \in Hours
    /\ fired \in BOOLEAN
    /\ lesson \in [Lessons -> [status: {"none", "scheduled", "over"}, start: Hours]]
    /\ notice \in [Lessons \X Kinds -> SUBSET Hours]
    /\ job \in [Jobs -> Job1]
    /\ reminded \in [Lessons \X Kinds -> Nat]
    /\ promised \in [Lessons -> Hours \union {NoHour}]
    /\ lapsed \subseteq Hours
    /\ twice \in BOOLEAN
    /\ moves \in 0..MaxMoves /\ lapses \in 0..MaxLapses

RemindersInit ==
    /\ hour = 0 /\ fired = FALSE
    /\ lesson = [l \in Lessons |-> [status |-> "none", start |-> 0]]
    /\ notice = [x \in Lessons \X Kinds |-> {}]
    /\ job = [j \in Jobs |-> NoJob]
    /\ reminded = [x \in Lessons \X Kinds |-> 0]
    /\ promised = [l \in Lessons |-> NoHour]
    /\ lapsed = {} /\ twice = FALSE
    /\ moves = 0 /\ lapses = 0

-----------------------------------------------------------------------------
(* handleCron *)

CronFires(j) ==
    /\ ~ fired
    /\ job[j].pc = "idle"
    /\ fired' = TRUE
    /\ job' = [job EXCEPT ![j].pc = "find", ![j].at = hour]
    /\ UNCHANGED <<hour, lesson, notice, lessonHistory, moves, lapses>>

\* No server in this hour.
CronMissed ==
    /\ ~ fired /\ lapses < MaxLapses
    /\ fired' = TRUE
    /\ lapsed' = lapsed \union {hour}
    /\ lapses' = lapses + 1
    /\ UNCHANGED <<hour, lesson, notice, job, reminded, promised, twice, moves>>

\* The pass is over, or goes on with the second check; an error ends it.
CheckEnds(j, ok) ==
    job' = [job EXCEPT ![j] = IF ok /\ @.ahead = 1
                              THEN [@ EXCEPT !.pc = "find", !.ahead = LongAhead,
                                        !.todo = {}, !.one = NoHour]
                              ELSE NoJob]

\* Mutant: the window is an hour late.
InWindowLate(l, ahead) ==
    lesson[l].status = "scheduled" /\ lesson[l].start = hour + ahead - 1

InWindow(l, ahead) ==
    lesson[l].status = "scheduled" /\ lesson[l].start = hour + ahead

\* The clock is read by each check: a slow pass looks at another hour.
FindsSessions(j) ==
    /\ job[j].pc = "find"
    /\ job' = [job EXCEPT ![j].pc = "recent", ![j].at = hour,
                          ![j].todo = {l \in Lessons : InWindow(l, job[j].ahead)}]
    /\ lapsed' = IF job[j].at = hour THEN lapsed ELSE lapsed \union {job[j].at}
    /\ UNCHANGED <<hour, fired, lesson, notice, reminded, promised, twice,
                   moves, lapses>>

\* A reminder of this session and kind within two hours.
Recent(l, ahead, from) == \E h \in notice[<<l, ahead>>] : h >= from - 2

ReadsRecent(j) ==
    /\ job[j].pc = "recent"
    /\ LET left == {l \in job[j].todo : ~ Recent(l, job[j].ahead, job[j].at)}
       IN  IF left = {} THEN CheckEnds(j, TRUE)
           ELSE job' = [job EXCEPT ![j].pc = "send", ![j].todo = left]
    /\ twice' = (twice \/ \E i \in Jobs \ {j} :
                             job[i].pc \in {"send", "record"} /\ job[i].ahead = job[j].ahead)
    /\ UNCHANGED <<hour, fired, lesson, notice, reminded, promised, lapsed,
                   moves, lapses>>

\* The mail to student, parent and tutor is put into the queue.
SendsReminder(j, l) ==
    /\ job[j].pc = "send" /\ l \in job[j].todo
    /\ job' = [job EXCEPT ![j].pc = "record", ![j].one = l, ![j].todo = @ \ {l}]
    /\ reminded' = [reminded EXCEPT ![<<l, job[j].ahead>>] = @ + 1]
    /\ UNCHANGED <<hour, fired, lesson, notice, promised, lapsed, twice,
                   moves, lapses>>

RecordsReminder(j) ==
    /\ job[j].pc = "record"
    /\ notice' = [notice EXCEPT ![<<job[j].one, job[j].ahead>>] = @ \union {hour}]
    /\ IF job[j].todo = {} THEN CheckEnds(j, TRUE)
       ELSE job' = [job EXCEPT ![j].pc = "send", ![j].one = NoHour]
    /\ UNCHANGED <<hour, fired, lesson, lessonHistory, moves, lapses>>

\* A query or the queue fails, or the server stops: nobody else is reminded in
\* this pass, nor is the second check made.
PassFails(j) ==
    /\ job[j].pc # "idle" /\ lapses < MaxLapses
    /\ lapses' = lapses + 1
    /\ lapsed' = lapsed \union {job[j].at}
    /\ twice' = (twice \/ job[j].pc = "record")
    /\ CheckEnds(j, FALSE)
    /\ UNCHANGED <<hour, fired, lesson, notice, reminded, promised, moves>>

\* Hours whose pass is still at work.
Unfinished == {job[j].at : j \in {i \in Jobs : job[i].pc # "idle"}}

\* A pass may take longer than an hour.
HourPasses ==
    /\ hour < LastHour /\ fired
    /\ hour' = hour + 1
    /\ fired' = FALSE
    /\ IF Unfinished = {} THEN UNCHANGED lapses
       ELSE lapses < MaxLapses /\ lapses' = lapses + 1
    /\ lesson' = [l \in Lessons |->
                    IF lesson[l].status = "scheduled" /\ lesson[l].start <= hour
                    THEN [lesson[l] EXCEPT !.status = "over"] ELSE lesson[l]]
    /\ UNCHANGED <<notice, job, lessonHistory, moves>>

-----------------------------------------------------------------------------
(* Sessions *)

Planned(l, start) ==
    /\ lesson[l].status = "none" /\ start > hour
    /\ lesson' = [lesson EXCEPT ![l] = [status |-> "scheduled", start |-> start]]
    /\ promised' = [promised EXCEPT ![l] = hour]
    /\ UNCHANGED <<hour, fired, notice, job, reminded, lapsed, twice, moves, lapses>>

\* Rescheduled or cancelled.
Replanned(l, start) ==
    /\ lesson[l].status = "scheduled" /\ moves < MaxMoves
    /\ start > hour /\ start # lesson[l].start
    /\ lesson' = [lesson EXCEPT ![l].start = start]
    /\ promised' = [promised EXCEPT ![l] = NoHour]
    /\ moves' = moves + 1
    /\ UNCHANGED <<hour, fired, notice, job, reminded, lapsed, twice, lapses>>

CalledOff(l) ==
    /\ lesson[l].status = "scheduled" /\ moves < MaxMoves
    /\ lesson' = [lesson EXCEPT ![l].status = "over"]
    /\ promised' = [promised EXCEPT ![l] = NoHour]
    /\ moves' = moves + 1
    /\ UNCHANGED <<hour, fired, notice, job, reminded, lapsed, twice, lapses>>

-----------------------------------------------------------------------------

Reminding(j) ==
    \/ CronFires(j) \/ FindsSessions(j) \/ ReadsRecent(j)
    \/ \E l \in Lessons : SendsReminder(j, l)
    \/ RecordsReminder(j) \/ PassFails(j)

RemindersNext ==
    \/ \E j \in Jobs : Reminding(j)
    \/ CronMissed \/ HourPasses
    \/ \E l \in Lessons, start \in Hours : Planned(l, start) \/ Replanned(l, start)
    \/ \E l \in Lessons : CalledOff(l)

RemindersSpec == RemindersInit /\ [][RemindersNext]_remindersVars

-----------------------------------------------------------------------------
(* Properties *)

\* A session that was planned before the hour of its reminder, and not moved, has
\* been reminded when it starts, unless in that hour the pass was missed, failed
\* or so slow that it looked at the next hour, or is still at work; in any case
\* once, unless a reminder was not recorded or two passes overlapped.
RemindedInTime ==
    \A l \in Lessons, k \in Kinds :
        /\ promised[l] # NoHour /\ promised[l] < lesson[l].start - k
           /\ hour >= lesson[l].start
           /\ lesson[l].start - k \notin lapsed \union Unfinished
           => reminded[<<l, k>>] > 0
        /\ promised[l] # NoHour /\ ~ twice => reminded[<<l, k>>] <= 1

=============================================================================
