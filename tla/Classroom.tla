----------------------------- MODULE Classroom ------------------------------
(***************************************************************************)
(* The live room of one session (src/sessions/sessions.gateway): sockets   *)
(* join and go, and the whiteboard, slides, files, pens and the poll are   *)
(* kept in the memory of the server for those who come later.              *)
(*                                                                         *)
(* joinSession awaits the database before and after it enters the room; a  *)
(* socket may be gone by then.  The handlers of the board run without an   *)
(* await and are one step, those of the poll await the session first.      *)
(*                                                                         *)
(* Left out: broadcasts that leave nothing behind (cursors, confetti,      *)
(* reactions, viewports, chat), stickers, the rights of the callers, and   *)
(* the attendance that the same sockets record (Attendance).               *)
(***************************************************************************)
EXTENDS Integers, FiniteSets

CONSTANTS
    Clients,        \* sockets; one that comes back is a new one
    TutorClients,   \* those of the tutor
    MaxBoards,      \* bound on what is drawn and shown
    MaxPolls,       \* bound on polls
    MaxWipes        \* bound on restarts and evictions

ASSUME ClassroomAssumption ==
    /\ TutorClients \subseteq Clients
    /\ MaxBoards \in Nat /\ MaxPolls \in Nat /\ MaxWipes \in Nat

Students == Clients \ TutorClients

VARIABLES
    client,    \* what each socket is doing
    mapped,    \* clientSessionMap: sockets that are known to be in the session
    room,      \* the room of the adapter
    kept,      \* what the server keeps for the room
    given,     \* what the server has had from, or sent to, each socket
    asking,    \* what a socket has asked about the poll, while it is awaited
    made,      \* how much has been drawn and asked so far
    outlived,  \* history: a handler went on after its socket had gone
    wipes      \* restarts and evictions so far

classroomVars == <<client, mapped, room, kept, given, asking, made, outlived,
                   wipes>>

\* whiteboardState and slidesState as versions, filesState and penAccessState
\* as sets, pollState with those who voted; 0 and {}: nothing is kept.
Kept == [board: 0..MaxBoards, files: SUBSET (1..MaxBoards), pens: SUBSET Students,
         poll: 0..MaxPolls, active: BOOLEAN, votes: SUBSET Students]
NothingKept == [board |-> 0, files |-> {}, pens |-> {}, poll |-> 0,
                active |-> FALSE, votes |-> {}]

\* poll: the open poll the socket shows, or 0.
Given == [board: 0..MaxBoards, files: SUBSET (1..MaxBoards), pen: BOOLEAN,
          poll: 0..MaxPolls]
NothingGiven == [board |-> 0, files |-> {}, pen |-> FALSE, poll |-> 0]

\* "entered": in the room, not yet told what is kept; "gone": disconnected
\* while its join was awaited.
ClassroomTypeOK ==
    /\ client \in [Clients -> {"new", "joining", "entered", "in", "gone", "off"}]
    /\ mapped \subseteq Clients
    /\ room \subseteq Clients
    /\ kept \in Kept
    /\ given \in [Clients -> Given]
    /\ asking \in [Clients -> {"nothing", "launch", "respond", "close"}]
    /\ made \in [board: 0..MaxBoards, poll: 0..MaxPolls]
    /\ outlived \in BOOLEAN
    /\ wipes \in 0..MaxWipes

ClassroomInit ==
    /\ client = [c \in Clients |-> "new"]
    /\ mapped = {}
    /\ room = {}
    /\ kept = NothingKept
    /\ given = [c \in Clients |-> NothingGiven]
    /\ asking = [c \in Clients |-> "nothing"]
    /\ made = [board |-> 0, poll |-> 0]
    /\ outlived = FALSE
    /\ wipes = 0

-----------------------------------------------------------------------------
(* joinSession *)

\* Who the socket is and what it may is awaited.
JoinAsks(c) ==
    /\ client[c] = "new"
    /\ client' = [client EXCEPT ![c] = "joining"]
    /\ UNCHANGED <<mapped, room, kept, given, asking, made, outlived, wipes>>

\* The socket is put into the map and the room, even if it is gone by now.
JoinEnters(c) ==
    /\ client[c] \in {"joining", "gone"}
    /\ mapped' = mapped \union {c}
    /\ room' = room \union {c}
    /\ client' = [client EXCEPT ![c] = IF @ = "gone" THEN "off" ELSE "entered"]
    /\ outlived' = (outlived \/ client[c] = "gone")
    /\ UNCHANGED <<kept, given, asking, made, wipes>>

OpenPoll == IF kept.active THEN kept.poll ELSE 0

\* Mutant: the open poll is not among what it gets.
JoinReplaysNoPoll(c) ==
    /\ client[c] = "entered"
    /\ client' = [client EXCEPT ![c] = "in"]
    /\ given' = [given EXCEPT ![c] = [board |-> kept.board, files |-> kept.files,
                                      pen |-> c \in kept.pens, poll |-> given[c].poll]]
    /\ UNCHANGED <<mapped, room, kept, asking, made, outlived, wipes>>

\* After more awaits it gets what is kept by now, and the poll if it is open.
JoinReplays(c) ==
    /\ client[c] = "entered"
    /\ client' = [client EXCEPT ![c] = "in"]
    /\ given' = [given EXCEPT ![c] = [board |-> kept.board, files |-> kept.files,
                                      pen |-> c \in kept.pens, poll |-> OpenPoll]]
    /\ UNCHANGED <<mapped, room, kept, asking, made, outlived, wipes>>

-----------------------------------------------------------------------------
(* handleDisconnect and handleLeaveSession *)

\* Mutant: the poll is kept.
CleanedButPoll == [kept EXCEPT !.board = 0, !.files = {}, !.pens = {}]

Cleaned == NothingKept

\* The socket has left its rooms already; the last one takes everything with
\* it.  A socket that is still joining is not in the map.
Disconnects(c) ==
    /\ client[c] \in {"joining", "entered", "in"}
    /\ client' = [client EXCEPT ![c] = IF @ = "joining" THEN "gone" ELSE "off"]
    /\ room' = room \ {c}
    /\ mapped' = mapped \ {c}
    /\ kept' = IF c \in mapped /\ room' = {} THEN Cleaned ELSE kept
    /\ given' = [given EXCEPT ![c] = NothingGiven]
    /\ UNCHANGED <<asking, made, outlived, wipes>>

\* Out of the room, but still in the map.
LeavesRoom(c) ==
    /\ client[c] = "in" /\ c \in room
    /\ room' = room \ {c}
    /\ UNCHANGED <<client, mapped, kept, given, asking, made, outlived, wipes>>

-----------------------------------------------------------------------------
(* The board: whoever is in the map may send, those in the room are told *)

Sends(c) == c \in mapped /\ client[c] \in {"entered", "in"}
Told(c) == room \union {c}

\* handleWhiteboardUpdate and handleWhiteboardSyncSlides.
UpdateBoard(c) ==
    /\ Sends(c)
    /\ made.board < MaxBoards
    /\ made' = [made EXCEPT !.board = @ + 1]
    /\ kept' = [kept EXCEPT !.board = made.board + 1]
    /\ given' = [d \in Clients |->
                    IF d \in Told(c) THEN [given[d] EXCEPT !.board = made.board + 1]
                    ELSE given[d]]
    /\ UNCHANGED <<client, mapped, room, asking, outlived, wipes>>

\* handleWhiteboardSyncFiles sends the new files and keeps all of them.
SyncFiles(c) ==
    /\ Sends(c)
    /\ made.board < MaxBoards
    /\ made' = [made EXCEPT !.board = @ + 1]
    /\ kept' = [kept EXCEPT !.files = @ \union {made.board + 1}]
    /\ given' = [d \in Clients |->
                    IF d \in Told(c)
                    THEN [given[d] EXCEPT !.files = @ \union {made.board + 1}]
                    ELSE given[d]]
    /\ UNCHANGED <<client, mapped, room, asking, outlived, wipes>>

TogglePenAccess(c, student, hasAccess) ==
    /\ Sends(c)
    /\ kept' = [kept EXCEPT !.pens = IF hasAccess THEN @ \union {student}
                                     ELSE @ \ {student}]
    /\ given' = [given EXCEPT ![student].pen =
                    IF student \in Told(c) THEN hasAccess ELSE @]
    /\ UNCHANGED <<client, mapped, room, asking, made, outlived, wipes>>

-----------------------------------------------------------------------------
(* The poll: the session is awaited, then the poll is what it is by then *)

\* Only the tutor launches and closes a poll.
MayAsk(c, what) == c \in (IF what = "respond" THEN Students ELSE TutorClients)

PollAsks(c, what) ==
    /\ client[c] = "in"
    /\ MayAsk(c, what)
    /\ asking[c] = "nothing"
    /\ asking' = [asking EXCEPT ![c] = what]
    /\ UNCHANGED <<client, mapped, room, kept, given, made, outlived, wipes>>

Answered(c, what) ==
    /\ asking[c] = what
    /\ asking' = [asking EXCEPT ![c] = "nothing"]

PollLaunch(c) ==
    /\ Answered(c, "launch")
    /\ made.poll < MaxPolls
    /\ made' = [made EXCEPT !.poll = @ + 1]
    /\ kept' = [kept EXCEPT !.poll = made.poll + 1, !.active = TRUE, !.votes = {}]
    /\ given' = [d \in Clients |->
                    IF d \in room THEN [given[d] EXCEPT !.poll = made.poll + 1]
                    ELSE given[d]]
    /\ outlived' = (outlived \/ client[c] = "off")
    /\ UNCHANGED <<client, mapped, room, wipes>>

\* Mutant: an answer is counted in a poll that is closed.
AcceptsAll == kept.poll # 0

Accepts == kept.poll # 0 /\ kept.active

PollRespond(c) ==
    /\ Answered(c, "respond")
    /\ kept' = IF Accepts THEN [kept EXCEPT !.votes = @ \union {c}] ELSE kept
    /\ UNCHANGED <<client, mapped, room, given, made, outlived, wipes>>

\* The results are written to the audit log as they are now.
PollClose(c) ==
    /\ Answered(c, "close")
    /\ kept' = [kept EXCEPT !.active = FALSE]
    /\ given' = [d \in Clients |-> IF d \in room /\ kept.poll # 0
                                   THEN [given[d] EXCEPT !.poll = 0] ELSE given[d]]
    /\ UNCHANGED <<client, mapped, room, made, outlived, wipes>>

-----------------------------------------------------------------------------
(* BoundedMap and restarts *)

Wipes == wipes < MaxWipes /\ wipes' = wipes + 1

\* One of the maps is full of other rooms and drops this one, in use or not.
EvictsBoard == Wipes /\ kept' = [kept EXCEPT !.board = 0]
EvictsFiles == Wipes /\ kept' = [kept EXCEPT !.files = {}]
EvictsPoll == Wipes /\ kept' = [kept EXCEPT !.poll = 0, !.active = FALSE, !.votes = {}]
Evicts ==
    /\ EvictsBoard \/ EvictsFiles \/ EvictsPoll
    /\ UNCHANGED <<client, mapped, room, given, asking, made, outlived>>

Restarts ==
    /\ Wipes
    /\ client' = [c \in Clients |-> IF client[c] = "new" THEN "new" ELSE "off"]
    /\ mapped' = {}
    /\ room' = {}
    /\ kept' = NothingKept
    /\ given' = [c \in Clients |-> NothingGiven]
    /\ asking' = [c \in Clients |-> "nothing"]
    /\ UNCHANGED <<made, outlived>>

-----------------------------------------------------------------------------

ClassroomNext ==
    \/ \E c \in Clients :
          \/ JoinAsks(c) \/ JoinEnters(c) \/ JoinReplays(c)
          \/ Disconnects(c) \/ LeavesRoom(c)
          \/ UpdateBoard(c) \/ SyncFiles(c)
          \/ \E student \in Students, hasAccess \in BOOLEAN :
                TogglePenAccess(c, student, hasAccess)
          \/ \E what \in {"launch", "respond", "close"} : PollAsks(c, what)
          \/ PollLaunch(c) \/ PollRespond(c) \/ PollClose(c)
    \/ Evicts
    \/ Restarts

ClassroomSpec == ClassroomInit /\ [][ClassroomNext]_classroomVars

-----------------------------------------------------------------------------
(* Properties *)

\* Whoever has joined has seen the latest board, all files that are kept, its
\* own pen and the open poll, however its join, the broadcasts, evictions and
\* the departures of others interleave.
RoomUpToDate ==
    \A c \in room :
        client[c] = "in"
        => /\ kept.board # 0 => given[c].board = kept.board
           /\ kept.files \subseteq given[c].files
           /\ c \in kept.pens => given[c].pen
           /\ kept.active => given[c].poll = kept.poll

\* When the last socket is gone nothing of the lesson is kept, unless a handler
\* went on after its socket had gone.
RoomIsCleaned ==
    (\A c \in Clients : client[c] \in {"new", "joining", "gone", "off"})
    /\ ~ outlived
    => kept = NothingKept

\* Everybody in the room has what the room has, and nothing of it outlives it.
RoomIsKept == RoomUpToDate /\ RoomIsCleaned

\* The results of a closed poll, which the audit log has, do not change.
ClosedPollIsFinal ==
    [][kept.poll # 0 /\ ~ kept.active /\ kept'.poll = kept.poll
       => kept'.votes = kept.votes]_classroomVars

=============================================================================
