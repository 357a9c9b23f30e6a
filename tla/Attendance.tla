----------------------------- MODULE Attendance -----------------------------
(***************************************************************************)
(* The attendance row of one student in one session: her sockets, which    *)
(* the gateway counts in memory (src/sessions/sessions.gateway), the marks *)
(* it writes when the first one joins and the last one leaves, the         *)
(* participant events of Daily and Zoom, the tutor's manual mark and the   *)
(* finalization at the end of the session.                                 *)
(*                                                                         *)
(* A mark reads the row and writes it later: two steps.  The clock ticks   *)
(* in half minutes and only between marks: a write takes less than that.   *)
(* Everything of the gateway's that runs without an await is one step.     *)
(*                                                                         *)
(* Left out: whose socket it is, marks that fail (they are logged), and    *)
(* what the reports make of the minutes.                                   *)
(***************************************************************************)
EXTENDS Integers, FiniteSets

CONSTANTS
    Sockets,        \* the student's tabs and devices
    Marks,          \* marks that may be written at one time
    Never,          \* no time, no row, no minutes
    ScheduledEnd,   \* end_time of the session, in half minutes
    LastTick,       \* bound on the clock
    MaxJoins,       \* bound on joins of a socket
    MaxRestarts,    \* bound on restarts of the server
    MaxEvents       \* bound on events of the providers and manual marks

ASSUME AttendanceAssumption ==
    /\ ScheduledEnd \in Nat /\ LastTick \in Nat
    /\ MaxJoins \in Nat /\ MaxRestarts \in Nat /\ MaxEvents \in Nat
    /\ Never \notin Int

VARIABLES
    tick,      \* the clock, from the scheduled start
    socket,    \* what each socket is doing
    tracked,   \* clientAttendanceMap, as far as it holds this student
    row,       \* the row of app.attendance
    mark,      \* marks that have read the row and are going to write it
    ended,     \* the session is completed
    presence,  \* history: see below
    joins,     \* joins so far
    restarts,  \* restarts of the server so far
    events     \* events and manual marks so far

attendanceVars == <<tick, socket, tracked, row, mark, ended, presence, joins,
                    restarts, events>>

Row == [present: BOOLEAN, marked: BOOLEAN, minutes: Nat,
        joined: Nat \union {Never}, left: Nat \union {Never}]

\* do: what will be written.  at: the anchor that was read, the minutes too.
Mark == [do: {"none", "present", "left", "finalize"},
         joined: Nat \union {Never}, minutes: Nat]

NoMark == [do |-> "none", joined |-> Never, minutes |-> 0]
NoRow == [present |-> FALSE, marked |-> FALSE, minutes |-> 0, joined |-> Never,
          left |-> Never]

\* exists: there is a row; first: when she first joined; attended: half
\* minutes in which a socket of hers was in the room; closed: intervals that
\* were closed; overlap: two marks were at work at the same time; early: time
\* to come was counted, since the session was ended before its scheduled end;
\* foreign: an event of a provider, or an eviction.
Presence ==
    [exists: BOOLEAN, first: Nat \union {Never}, attended: Nat, closed: Nat,
     overlap: BOOLEAN, early: BOOLEAN, foreign: BOOLEAN]

AttendanceTypeOK ==
    /\ tick \in 0..LastTick
    /\ socket \in [Sockets -> {"off", "joining", "in"}]
    /\ tracked \subseteq Sockets
    /\ row \in Row
    /\ mark \in [Marks -> Mark]
    /\ ended \in BOOLEAN
    /\ presence \in Presence
    /\ joins \in 0..MaxJoins
    /\ restarts \in 0..MaxRestarts
    /\ events \in 0..MaxEvents

\* No row yet, or that of a group's student, made with the class.
AttendanceInit ==
    /\ tick = 0
    /\ socket = [c \in Sockets |-> "off"]
    /\ tracked = {}
    /\ row = NoRow
    /\ mark = [k \in Marks |-> NoMark]
    /\ ended = FALSE
    /\ \E group \in BOOLEAN :
          presence = [exists |-> group, first |-> Never, attended |-> 0,
                      closed |-> 0, overlap |-> FALSE, early |-> FALSE,
                      foreign |-> FALSE]
    /\ joins = 0
    /\ restarts = 0
    /\ events = 0

-----------------------------------------------------------------------------
(* markStudentPresent, markStudentLeft and finalizeSessionAttendance *)

Marking == {k \in Marks : mark[k] # NoMark}

\* Mutant: every join starts a new interval.
AnchorNow == tick

IntervalOpen == row.joined # Never /\ row.left = Never
OpenAnchor == IF IntervalOpen THEN row.joined ELSE tick

\* A mark begins: it has read the row.
MarkReads(k, m) ==
    /\ mark[k] = NoMark
    /\ mark' = [mark EXCEPT ![k] = m]

PresentRead == [do |-> "present", joined |-> OpenAnchor, minutes |-> 0]
LeftRead == [do |-> "left", joined |-> row.joined, minutes |-> row.minutes]
FinalizeRead == [LeftRead EXCEPT !.do = "finalize"]

\* Mutant: a closed interval is counted again.
HasRow == presence.exists

\* Nothing to close: no row, or closed already.
ToBeClosed == presence.exists /\ row.left = Never

\* Math.round of the half minutes since the anchor, never below 0.
Rounded(m, end) ==
    IF m.joined = Never \/ end < m.joined THEN 0 ELSE (end - m.joined + 1) \div 2

PresentWrites(k) ==
    /\ mark[k].do = "present"
    /\ row' = [row EXCEPT !.present = TRUE, !.left = Never,
                          !.joined = IF presence.exists THEN mark[k].joined ELSE tick]
    /\ mark' = [mark EXCEPT ![k] = NoMark]
    /\ presence' = [presence EXCEPT !.exists = TRUE,
                                    !.first = IF @ = Never THEN tick ELSE @]
    /\ UNCHANGED <<tick, socket, tracked, ended, joins, restarts, events>>

\* The interval is closed at the given time.
Closes(k, end) ==
    /\ row' = [row EXCEPT !.left = end, !.minutes = mark[k].minutes + Rounded(mark[k], end)]
    /\ mark' = [mark EXCEPT ![k] = NoMark]
    /\ presence' = [presence EXCEPT !.closed = @ + 1, !.early = @ \/ end > tick]
    /\ UNCHANGED <<tick, socket, tracked, ended, joins, restarts, events>>

LeftWrites(k) ==
    /\ mark[k].do = "left"
    /\ Closes(k, tick)

\* endSession finalizes at the scheduled end, the sweep at the present time.
FinalizeWrites(k) ==
    /\ mark[k].do = "finalize"
    /\ Closes(k, ScheduledEnd) \/ (tick > ScheduledEnd /\ Closes(k, tick))

-----------------------------------------------------------------------------
(* The gateway *)

\* joinSession has checked who it is and goes on to await the rest ...
JoinBegins(c) ==
    /\ socket[c] = "off"
    /\ joins < MaxJoins
    /\ joins' = joins + 1
    /\ socket' = [socket EXCEPT ![c] = "joining"]
    /\ UNCHANGED <<tick, tracked, row, mark, ended, presence, restarts, events>>

\* ... and counts the socket, whether it is still connected or not.  Only the
\* first of the student's sockets writes a mark.
JoinCounts(c, k, connected) ==
    /\ socket[c] = "joining"
    /\ tracked' = tracked \union {c}
    /\ socket' = [socket EXCEPT ![c] = IF connected THEN "in" ELSE "off"]
    /\ IF tracked = {} THEN MarkReads(k, PresentRead)
       ELSE UNCHANGED mark
    /\ presence' = [presence EXCEPT !.overlap = @ \/ Marking # {}]
    /\ UNCHANGED <<tick, row, ended, joins, restarts, events>>

\* handleDisconnect and handleLeaveSession: only the last one writes a mark.
Leaves(c, k) ==
    /\ socket[c] = "in"
    /\ socket' = [socket EXCEPT ![c] = "off"]
    /\ tracked' = tracked \ {c}
    /\ IF tracked = {c} /\ ToBeClosed THEN MarkReads(k, LeftRead)
       ELSE UNCHANGED mark
    /\ presence' = [presence EXCEPT
                       !.overlap = @ \/ (tracked = {c} /\ Marking # {})]
    /\ UNCHANGED <<tick, row, ended, joins, restarts, events>>

\* The bounded map is full of other sockets and drops this one.
Evicted(c) ==
    /\ c \in tracked
    /\ events < MaxEvents
    /\ events' = events + 1
    /\ tracked' = tracked \ {c}
    /\ presence' = [presence EXCEPT !.foreign = TRUE]
    /\ UNCHANGED <<tick, socket, row, mark, ended, joins, restarts>>

\* All sockets and the map are gone, and marks that were not yet written.
ServerRestarts ==
    /\ restarts < MaxRestarts
    /\ restarts' = restarts + 1
    /\ socket' = [c \in Sockets |-> "off"]
    /\ tracked' = {}
    /\ mark' = [k \in Marks |-> NoMark]
    /\ UNCHANGED <<tick, row, ended, presence, joins, events>>

-----------------------------------------------------------------------------
(* The end of the session, the tutor, the providers *)

EndSession(k) ==
    /\ ~ ended
    /\ ended' = TRUE
    /\ IF row.present /\ row.left = Never THEN MarkReads(k, FinalizeRead)
       ELSE UNCHANGED mark
    /\ presence' = [presence EXCEPT !.overlap = @ \/ Marking # {}]
    /\ UNCHANGED <<tick, socket, tracked, row, joins, restarts, events>>

Event == events < MaxEvents /\ events' = events + 1

\* recordAttendance: 'present' opens the interval again with its old anchor.
RecordAttendance(said) ==
    /\ Event
    /\ row' = [row EXCEPT !.present = (said = "present"), !.marked = TRUE,
                          !.joined = IF presence.exists THEN @
                                     ELSE IF said = "present" THEN tick ELSE Never,
                          !.left = IF said = "present" THEN Never ELSE tick]
    /\ presence' = [presence EXCEPT !.exists = TRUE,
                                    !.overlap = @ \/ Marking # {}]
    /\ UNCHANGED <<tick, socket, tracked, mark, ended, joins, restarts>>

\* Zoom's participant events are marks like the gateway's.
ZoomEvent(k) ==
    /\ Event
    /\ \/ MarkReads(k, PresentRead)
       \/ ToBeClosed /\ MarkReads(k, LeftRead)
    /\ presence' = [presence EXCEPT !.foreign = TRUE, !.overlap = @ \/ Marking # {}]
    /\ UNCHANGED <<tick, socket, tracked, row, ended, joins, restarts>>

\* Daily's participant events write the row as it comes, and count nothing.
DailyEvent(joined) ==
    /\ Event
    /\ row' = [row EXCEPT !.present = joined,
                          !.joined = IF joined THEN tick ELSE @,
                          !.left = IF joined THEN Never ELSE tick]
    /\ presence' = [presence EXCEPT !.exists = TRUE, !.foreign = TRUE,
                                    !.first = IF joined /\ @ = Never THEN tick ELSE @,
                                    !.overlap = @ \/ Marking # {}]
    /\ UNCHANGED <<tick, socket, tracked, mark, ended, joins, restarts>>

Ticks ==
    /\ tick < LastTick
    /\ Marking = {}
    /\ tick' = tick + 1
    /\ presence' = [presence EXCEPT
                       !.attended = IF ~ ended /\ tick < ScheduledEnd
                                       /\ \E c \in tracked : socket[c] = "in"
                                    THEN @ + 1 ELSE @]
    /\ UNCHANGED <<socket, tracked, row, mark, ended, joins, restarts, events>>

-----------------------------------------------------------------------------

AttendanceNext ==
    \/ \E c \in Sockets :
          \/ JoinBegins(c)
          \/ \E k \in Marks : \/ \E connected \in BOOLEAN : JoinCounts(c, k, connected)
                              \/ Leaves(c, k)
          \/ Evicted(c)
    \/ \E k \in Marks :
          PresentWrites(k) \/ LeftWrites(k) \/ FinalizeWrites(k)
          \/ EndSession(k) \/ ZoomEvent(k)
    \/ \E said \in {"present", "absent"} : RecordAttendance(said)
    \/ \E joined \in BOOLEAN : DailyEvent(joined)
    \/ ServerRestarts
    \/ Ticks

AttendanceSpec == AttendanceInit /\ [][AttendanceNext]_attendanceVars

-----------------------------------------------------------------------------
(* Properties *)

\* What the row stands for, in half minutes: the minutes and the open interval.
Credit == 2 * row.minutes + IF IntervalOpen THEN tick - row.joined ELSE 0

\* "Minutes are counted once": as long as no two marks overlap, the tutor marks
\* nobody and no session is ended early, the row never stands for more than the
\* time since the first join and the rounding, whatever restarts, evictions,
\* providers, late leaves and joins after the end do.
CountedOnce ==
    ~ presence.overlap /\ ~ presence.early /\ ~ row.marked
    => Credit <= presence.closed +
                 IF presence.first = Never THEN 0 ELSE tick - presence.first

\* No attended time is lost as long as no two marks overlap and no provider's
\* event or eviction intervenes: restarts and sockets that were counted after
\* they had gone lose nothing.
NothingLost ==
    ~ presence.overlap /\ ~ presence.foreign /\ ~ row.marked /\ Marking = {}
    => Credit >= presence.attended

\* The minutes of the row are those the student was there: none is counted twice
\* and none is lost, whatever joins, leaves, evictions, restarts and events of
\* the providers come between.
AttendanceIsTrue == CountedOnce /\ NothingLost

=============================================================================
