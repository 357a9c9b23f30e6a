---------------------------- MODULE GroupClasses ----------------------------
(***************************************************************************)
(* Classes of the admin and their Zoom meetings (src/admin, src/zoom):     *)
(* createGroupSession, rescheduleGroupSession, cancelBooking's clean-up of *)
(* the meetings, the students' requests for another time and what the      *)
(* admin does with them.                                                   *)
(*                                                                         *)
(* A meeting is made, changed and deleted by calls to Zoom, which are not  *)
(* part of any transaction of the database.  A request to the server is a  *)
(* process; each call and each write is a step of its own.                 *)
(*                                                                         *)
(* Left out: tutors, students and their mails, recurrence rules (a series  *)
(* is the set of its dates), consent to recording, and lessons (Sessions). *)
(***************************************************************************)
EXTENDS Integers, FiniteSets

CONSTANTS
    MaxTasks,      \* bound on what admins ask of the server
    MaxSlot,       \* times at which a class may be
    MaxMeetings,   \* bound on the meetings made
    Requests,      \* requests for another time that students may make
    MaxMishaps     \* bound on failed calls and restarts

ASSUME GroupClassesAssumption ==
    /\ MaxTasks \in Nat \ {0} /\ MaxSlot \in Nat \ {0}
    /\ MaxMeetings \in Nat /\ MaxMishaps \in Nat

VARIABLES
    class,      \* booking and session of each class
    zoom,       \* the time of every meeting at Zoom, or NoSlot
    issued,     \* meetings made so far
    removing,   \* meetings whose deletion has been asked for
    request,    \* app.reschedule_requests
    task,       \* what every request of an admin is doing
    leftOver,   \* history: meetings that a failure or a race has left behind
    torn,       \* history: classes whose move has failed half-way
    raced,      \* history: classes that two admins have moved at one time
    disputed,   \* history: requests handled by two, or marked by nobody
    mishaps     \* failed calls and restarts so far

groupClassesVars == <<class, zoom, issued, removing, request, task, leftOver, torn,
                      raced, disputed, mishaps>>
history == <<leftOver, torn, raced, disputed>>

\* What is asked of the server is numbered in its order.
Admins == 1..MaxTasks
Slots == 1..MaxSlot
Meetings == 1..MaxMeetings
NoSlot == 0
NoMeeting == 0

\* A class is known by the request that made it and the time it was made for.
Classes == Admins \X Slots
Class == [status: {"none", "scheduled", "cancelled"}, slot: Slots \union {NoSlot},
          meeting: Meetings \union {NoMeeting}]

\* moved: how often the class was moved for it.
Request == [status: {"none", "checked", "pending", "approved", "declined"},
            class: Classes, moved: Nat]

\* todo: times still without a meeting; got: the meetings made; class, slot:
\* what is moved where; old, new: its meeting as it was read, and the one made
\* in its place; for: the requests that asked for it.
Task == [pc: {"idle", "done", "check", "meet", "undo", "commit", "update", "recreate",
              "write", "mark"},
         todo: SUBSET Slots, zoomed: BOOLEAN, slots: SUBSET Slots,
         got: [Slots -> Meetings \union {NoMeeting}],
         class: Classes, slot: Slots \union {NoSlot},
         old: Meetings \union {NoMeeting}, new: Meetings \union {NoMeeting},
         for: SUBSET Requests]

GotNothing == [s \in Slots |-> NoMeeting]
NoTask == [pc |-> "idle", todo |-> {}, zoomed |-> FALSE, slots |-> {},
           got |-> GotNothing, class |-> <<1, 1>>,
           slot |-> NoSlot, old |-> NoMeeting, new |-> NoMeeting, for |-> {}]

GroupClassesTypeOK ==
    /\ class \in [Classes -> Class]
    /\ zoom \in [Meetings -> Slots \union {NoSlot}]
    /\ issued \in 0..MaxMeetings
    /\ removing \subseteq Meetings
    /\ request \in [Requests -> Request]
    /\ task \in [Admins -> Task]
    /\ leftOver \subseteq Meetings
    /\ torn \subseteq Classes /\ raced \subseteq Classes
    /\ disputed \subseteq Requests
    /\ mishaps \in 0..MaxMishaps

GroupClassesInit ==
    /\ class = [c \in Classes |->
                   [status |-> "none", slot |-> NoSlot, meeting |-> NoMeeting]]
    /\ zoom = [m \in Meetings |-> NoSlot]
    /\ issued = 0
    /\ removing = {}
    /\ request = [r \in Requests |-> [status |-> "none", moved |-> 0,
                                      class |-> <<1, 1>>]]
    /\ task = [a \in Admins |-> NoTask]
    /\ leftOver = {} /\ torn = {} /\ raced = {} /\ disputed = {}
    /\ mishaps = 0

Mishap == mishaps < MaxMishaps /\ mishaps' = mishaps + 1

TaskBegins(a, t) ==
    /\ task[a] = NoTask /\ \A b \in Admins : b < a => task[b] # NoTask
    /\ task' = [task EXCEPT ![a] = t]
TaskGoesTo(a, pc) == task' = [task EXCEPT ![a].pc = pc]
Over == [NoTask EXCEPT !.pc = "done"]
TaskEnds(a) == task' = [task EXCEPT ![a] = Over]

\* The meetings of a creation that nobody else knows of yet.
Held(t) == {t.got[s] : s \in Slots} \ {NoMeeting}

-----------------------------------------------------------------------------
(* zoom.service *)

MeetingMade(s) ==
    /\ issued < MaxMeetings
    /\ issued' = issued + 1
    /\ zoom' = [zoom EXCEPT ![issued + 1] = s]

\* deleteMeeting: a meeting that is gone already is none of its concern.
Deleted(m) == zoom' = [zoom EXCEPT ![m] = NoSlot]

\* The deletions that nobody waits for: cancelBooking's and those of a move.
DeletesMeeting(m) ==
    /\ m \in removing
    /\ Deleted(m)
    /\ removing' = removing \ {m}
    /\ UNCHANGED <<class, issued, request, task, history, mishaps>>

DeletionFails(m) ==
    /\ m \in removing
    /\ Mishap
    /\ removing' = removing \ {m}
    /\ leftOver' = leftOver \union {m}
    /\ UNCHANGED <<class, zoom, issued, request, task, torn, raced, disputed>>

-----------------------------------------------------------------------------
(* createGroupSession; sessions.create for a single lesson *)

\* With Daily there are no meetings to be made first.
CreateBegins(a, slots, zoomed) ==
    /\ slots # {}
    /\ \A s \in slots : class[<<a, s>>].status = "none"
    /\ TaskBegins(a, [NoTask EXCEPT !.pc = IF zoomed THEN "check" ELSE "commit",
                                    !.todo = IF zoomed THEN slots ELSE {},
                                    !.slots = slots, !.zoomed = zoomed])
    /\ UNCHANGED <<class, zoom, issued, removing, request, history, mishaps>>

\* assertNoZoomOverlap looks at the rows, not at Zoom.
Clash(s) ==
    \E c \in Classes : /\ class[c].status = "scheduled" /\ class[c].slot = s
                       /\ class[c].meeting # NoMeeting

\* The dates are handled one by one, the earliest first.
Next1(t, s) == s \in t.todo /\ \A u \in t.todo : s <= u

ChecksOverlap(a, s) ==
    /\ task[a].pc = "check" /\ Next1(task[a], s)
    /\ TaskGoesTo(a, IF Clash(s) THEN "undo" ELSE "meet")
    /\ UNCHANGED <<class, zoom, issued, removing, request, history, mishaps>>

Got(t, s, m) ==
    [t EXCEPT !.pc = IF t.todo = {s} THEN "commit" ELSE "check",
              !.todo = t.todo \ {s},
              !.got = [t.got EXCEPT ![s] = m]]

MakesMeeting(a, s) ==
    /\ task[a].pc = "meet" /\ Next1(task[a], s)
    /\ MeetingMade(s)
    /\ task' = [task EXCEPT ![a] = Got(task[a], s, issued + 1)]
    /\ UNCHANGED <<class, removing, request, history, mishaps>>

MeetingFails(a) ==
    /\ task[a].pc = "meet"
    /\ Mishap
    /\ TaskGoesTo(a, "undo")
    /\ UNCHANGED <<class, zoom, issued, removing, request, history>>

\* Mutant: the meetings made before the failure are forgotten.
UndoesNothing(a) ==
    /\ task[a].pc = "undo"
    /\ TaskEnds(a)
    /\ UNCHANGED <<class, zoom, issued, removing, request, history, mishaps>>

\* The compensation: whatever was made is deleted, and a failure only logged.
Undoes(a) ==
    /\ task[a].pc = "undo"
    /\ \/ Held(task[a]) = {} /\ TaskEnds(a)
          /\ UNCHANGED <<zoom, leftOver, mishaps>>
       \/ \E s \in Slots :
             /\ task[a].got[s] # NoMeeting
             /\ task' = [task EXCEPT ![a].got = [task[a].got EXCEPT ![s] = NoMeeting]]
             /\ \/ Deleted(task[a].got[s]) /\ UNCHANGED <<leftOver, mishaps>>
                \/ Mishap /\ leftOver' = leftOver \union {task[a].got[s]}
                   /\ UNCHANGED zoom
    /\ UNCHANGED <<class, issued, removing, request, torn, raced, disputed>>

\* All bookings and sessions of the series in one transaction ...
CreatesClasses(a) ==
    /\ task[a].pc = "commit"
    /\ class' = [c \in Classes |->
                    IF c[1] = a /\ c[2] \in task[a].slots
                    THEN [status |-> "scheduled", slot |-> c[2],
                          meeting |-> task[a].got[c[2]]]
                    ELSE class[c]]
    /\ TaskEnds(a)
    /\ UNCHANGED <<zoom, issued, removing, request, history, mishaps>>

\* ... which is not compensated for when it fails.
CreationFails(a) ==
    /\ task[a].pc = "commit"
    /\ Mishap
    /\ leftOver' = leftOver \union Held(task[a])
    /\ TaskEnds(a)
    /\ UNCHANGED <<class, zoom, issued, removing, request, torn, raced, disputed>>

-----------------------------------------------------------------------------
(* rescheduleGroupSession *)

Moving(c) == {a \in Admins : task[a].pc \in {"update", "recreate", "write"}
                             /\ task[a].class = c}

\* The class is read, whatever its status.
MoveOf(c, s, for) ==
    [NoTask EXCEPT !.pc = IF class[c].meeting = NoMeeting THEN "write" ELSE "update",
                   !.class = c, !.slot = s, !.old = class[c].meeting, !.for = for]

MoveBegins(a, c, s) ==
    /\ class[c].status # "none"
    /\ TaskBegins(a, MoveOf(c, s, {}))
    /\ raced' = IF Moving(c) = {} THEN raced ELSE raced \union {c}
    /\ UNCHANGED <<class, zoom, issued, removing, request, leftOver, torn, disputed,
                   mishaps>>

UpdatesMeeting(a) ==
    /\ task[a].pc = "update"
    /\ zoom[task[a].old] # NoSlot
    /\ zoom' = [zoom EXCEPT ![task[a].old] = task[a].slot]
    /\ TaskGoesTo(a, "write")
    /\ UNCHANGED <<class, issued, removing, request, history, mishaps>>

\* The meeting is gone, or the app may not update it: it is made anew.
UpdateFails(a) ==
    /\ task[a].pc = "update"
    /\ TaskGoesTo(a, "recreate")
    /\ UNCHANGED <<class, zoom, issued, removing, request, history, mishaps>>

RecreatesMeeting(a) ==
    /\ task[a].pc = "recreate"
    /\ MeetingMade(task[a].slot)
    /\ removing' = removing \union {task[a].old}
    /\ task' = [task EXCEPT ![a].pc = "write", ![a].new = issued + 1]
    /\ UNCHANGED <<class, request, history, mishaps>>

RecreationFails(a) ==
    /\ task[a].pc = "recreate"
    /\ Mishap
    /\ TaskEnds(a)
    /\ UNCHANGED <<class, zoom, issued, removing, request, history>>

\* Mutant: the class keeps the meeting it had.
KeepsMeeting(c, t) == [class[c] EXCEPT !.slot = t.slot]

Moved(c, t) == [class[c] EXCEPT !.slot = t.slot,
                                !.meeting = IF t.new = NoMeeting THEN @ ELSE t.new]

\* What a write leaves behind: the meeting that somebody else has put there
\* meanwhile, and its own if the class is cancelled by now.
LeftByMove(c, t) ==
    IF t.new = NoMeeting THEN {}
    ELSE (IF class[c].meeting # t.old THEN {class[c].meeting} ELSE {})
         \union (IF class[c].status = "cancelled" THEN {t.new} ELSE {})

MovesClass(a) ==
    LET t == task[a] IN
    /\ t.pc = "write"
    /\ class' = [class EXCEPT ![t.class] = Moved(t.class, t)]
    /\ leftOver' = leftOver \union LeftByMove(t.class, t)
    /\ torn' = IF t.new = NoMeeting THEN torn ELSE torn \ {t.class}
    /\ request' = [r \in Requests |->
                      IF r \in t.for THEN [request[r] EXCEPT !.moved = @ + 1]
                      ELSE request[r]]
    /\ IF t.for = {} THEN TaskEnds(a) ELSE TaskGoesTo(a, "mark")
    /\ UNCHANGED <<zoom, issued, removing, raced, disputed, mishaps>>

\* The transaction fails: Zoom has the new time, the class has the old one.
MoveFails(a) ==
    /\ task[a].pc = "write"
    /\ Mishap
    /\ leftOver' = leftOver \union ({task[a].new} \ {NoMeeting})
    /\ torn' = torn \union {task[a].class}
    /\ TaskEnds(a)
    /\ UNCHANGED <<class, zoom, issued, removing, request, raced, disputed>>

-----------------------------------------------------------------------------
(* Requests for another time: createRescheduleRequest, handleRescheduleRequest *)

\* The student has no other pending request for this class, whatever its status ...
AsksForMove(r, c) ==
    /\ request[r].status = "none"
    /\ class[c].status # "none"
    /\ ~ \E q \in Requests : request[q].status = "pending" /\ request[q].class = c
    /\ request' = [request EXCEPT ![r].status = "checked", ![r].class = c]
    /\ UNCHANGED <<class, zoom, issued, removing, task, history, mishaps>>

\* ... and the request is written without a lock: two may be pending.
WritesRequest(r) ==
    /\ request[r].status = "checked"
    /\ request' = [request EXCEPT ![r].status = "pending"]
    /\ UNCHANGED <<class, zoom, issued, removing, task, history, mishaps>>

Handling(r) == {a \in Admins : r \in task[a].for}

\* Mutant: a request may be handled again.
IsThere(r) == request[r].status \notin {"none", "checked"}

IsPending(r) == request[r].status = "pending"

\* The request is read as pending: approving it moves the class first.
Approves(a, r, s) ==
    /\ IsPending(r)
    /\ TaskBegins(a, MoveOf(request[r].class, s, {r}))
    /\ raced' = IF Moving(request[r].class) = {} THEN raced
                ELSE raced \union {request[r].class}
    /\ disputed' = IF Handling(r) = {} THEN disputed ELSE disputed \union {r}
    /\ UNCHANGED <<class, zoom, issued, removing, request, leftOver, torn, mishaps>>

Declines(a, r) ==
    /\ IsPending(r)
    /\ TaskBegins(a, Over)
    /\ request' = [request EXCEPT ![r].status = "declined"]
    /\ disputed' = IF Handling(r) = {} THEN disputed ELSE disputed \union {r}
    /\ UNCHANGED <<class, zoom, issued, removing, leftOver, torn, raced, mishaps>>

MarksApproved(a) ==
    /\ task[a].pc = "mark"
    /\ request' = [r \in Requests |->
                      IF r \in task[a].for THEN [request[r] EXCEPT !.status = "approved"]
                      ELSE request[r]]
    /\ TaskEnds(a)
    /\ UNCHANGED <<class, zoom, issued, removing, history, mishaps>>

\* The class is moved and the request still pending.
MarkFails(a) ==
    /\ task[a].pc = "mark"
    /\ Mishap
    /\ disputed' = disputed \union task[a].for
    /\ TaskEnds(a)
    /\ UNCHANGED <<class, zoom, issued, removing, request, leftOver, torn, raced>>

-----------------------------------------------------------------------------
(* cancelBooking and restarts *)

\* One transaction; the meeting it has read is deleted afterwards.
CancelsClass(c) ==
    /\ class[c].status = "scheduled"
    /\ class' = [class EXCEPT ![c].status = "cancelled"]
    /\ removing' = removing \union ({class[c].meeting} \ {NoMeeting})
    /\ UNCHANGED <<zoom, issued, request, task, history, mishaps>>

\* Whatever was under way is left as it is.
ServerStops ==
    /\ Mishap
    /\ leftOver' = leftOver \union removing \union
                   UNION {Held(task[a]) \union ({task[a].new} \ {NoMeeting}) : a \in Admins}
    /\ torn' = torn \union {c \in Classes : \E a \in Moving(c) : task[a].pc = "write"}
    /\ disputed' = disputed \union UNION {task[a].for : a \in Admins}
    /\ removing' = {}
    /\ task' = [a \in Admins |-> IF task[a] = NoTask THEN NoTask ELSE Over]
    /\ request' = [r \in Requests |->
                      IF request[r].status = "checked"
                      THEN [request[r] EXCEPT !.status = "none"] ELSE request[r]]
    /\ UNCHANGED <<class, zoom, issued, raced>>

-----------------------------------------------------------------------------

Creating(a) ==
    \/ \E slots \in SUBSET Slots, zoomed \in BOOLEAN : CreateBegins(a, slots, zoomed)
    \/ \E s \in Slots : ChecksOverlap(a, s) \/ MakesMeeting(a, s)
    \/ MeetingFails(a) \/ Undoes(a) \/ CreatesClasses(a) \/ CreationFails(a)

Rescheduling(a) ==
    \/ \E c \in Classes, s \in Slots : MoveBegins(a, c, s)
    \/ UpdatesMeeting(a) \/ UpdateFails(a) \/ RecreatesMeeting(a)
    \/ RecreationFails(a) \/ MovesClass(a) \/ MoveFails(a)

GroupClassesNext ==
    \/ \E a \in Admins : Creating(a) \/ Rescheduling(a)
                         \/ MarksApproved(a) \/ MarkFails(a)
    \/ \E r \in Requests :
          \/ \E c \in Classes : AsksForMove(r, c)
          \/ WritesRequest(r)
          \/ \E a \in Admins : \/ \E s \in Slots : Approves(a, r, s)
                               \/ Declines(a, r)
    \/ \E c \in Classes : CancelsClass(c)
    \/ \E m \in Meetings : DeletesMeeting(m) \/ DeletionFails(m)
    \/ ServerStops

GroupClassesSpec == GroupClassesInit /\ [][GroupClassesNext]_groupClassesVars

-----------------------------------------------------------------------------
(* Properties *)

\* A scheduled class has its meeting, at the time of the class, though a move
\* may have deleted the one and made another: only a failure half-way leaves it
\* without, and only two moves at one time leave it with another time.
ClassHasMeeting ==
    \A c \in Classes :
        /\ class[c].status = "scheduled" /\ class[c].meeting # NoMeeting
        /\ c \notin torn /\ Moving(c) = {}
        => /\ zoom[class[c].meeting] # NoSlot
           /\ c \notin raced => zoom[class[c].meeting] = class[c].slot

\* Every meeting at Zoom is that of a class, will be, or is about to be deleted,
\* unless a failure, a race of two moves or the move of a cancelled class has
\* left it behind.
NoOrphanMeeting ==
    \A m \in Meetings :
        zoom[m] # NoSlot
        => \/ \E c \in Classes : class[c].meeting = m /\ class[c].status # "cancelled"
           \/ \E a \in Admins : m \in Held(task[a]) \union {task[a].new}
           \/ m \in removing \union leftOver

\* A request moves the class once if it is approved and never if it is declined,
\* unless two admins handle it at one time or the answer is not written.
RequestMovesOnce ==
    \A r \in Requests \ disputed :
        /\ request[r].moved <= 1
        /\ request[r].status = "declined" => request[r].moved = 0
        /\ request[r].status = "approved" => request[r].moved = 1

\* Classes and meetings fit together: no scheduled class is without its meeting,
\* no meeting without a class, and no approved request without its one move,
\* whatever tasks of several admins cross and calls of Zoom fail.
MeetingsFitClasses == ClassHasMeeting /\ NoOrphanMeeting /\ RequestMovesOnce

=============================================================================
