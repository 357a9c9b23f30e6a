---------------------------- MODULE LessonProofs ----------------------------
(***************************************************************************)
(* Proofs about what surrounds the life of a session: its live room        *)
(* (Classroom), its recording (Recordings), what is noted during it        *)
(* (Learning), who was there (Attendance) and what belongs to it           *)
(* (Materials), each for any numbers of sockets, transfers, requests and   *)
(* marks and for any bounds.  The components share no variable; each part  *)
(* has an inductive invariant, a lemma for every action and its theorems.  *)
(***************************************************************************)
EXTENDS Classroom, Recordings, Learning, Attendance, Materials,
        FiniteSetTheorems, SequenceTheorems, TLAPS

-----------------------------------------------------------------------------
(* Part 1: the room.  What a socket has been given is compared with what is *)
(* kept; that nothing is kept when the last one is gone needs in addition   *)
(* that the map knows who is there, and that a handler works only for a     *)
(* socket that has been in the room.                                        *)

Present == {"entered", "in"}

\* Whoever is present is in the map; whoever else is in the map or in the room
\* has got there after it had gone.  Who asks about the poll has been in the room,
\* and students answer it.
RoomPlaces ==
    /\ room \subseteq mapped
    /\ \A c \in Clients : client[c] \in Present => c \in mapped
    /\ \A c \in mapped : client[c] \notin Present => outlived
    /\ \A c \in Clients : asking[c] # "nothing" => client[c] \in {"in", "off"}
    /\ \A c \in Clients : asking[c] = "respond" => c \in Students

\* A poll that is kept has been made.
PollIsMade == kept.poll <= made.poll

RoomInv ==
    /\ ClassroomTypeOK /\ RoomPlaces /\ PollIsMade
    /\ RoomUpToDate /\ RoomIsCleaned

\* What a handler puts into what is kept of the room.
LEMMA KeptBoard ==
  ASSUME NEW k \in Kept, NEW b \in 0..MaxBoards, NEW f \in SUBSET (1..MaxBoards),
         NEW p \in SUBSET Students
  PROVE  /\ [k EXCEPT !.board = b] \in Kept
         /\ [k EXCEPT !.files = f] \in Kept
         /\ [k EXCEPT !.pens = p] \in Kept
         /\ [k EXCEPT !.board = b].board = b
         /\ [k EXCEPT !.files = f].files = f
         /\ [k EXCEPT !.pens = p].pens = p
  BY DEF Kept

LEMMA KeptPoll ==
  ASSUME NEW k \in Kept, NEW n \in 0..MaxPolls, NEW a \in BOOLEAN,
         NEW v \in SUBSET Students
  PROVE  /\ [k EXCEPT !.poll = n, !.active = a, !.votes = v] \in Kept
         /\ [k EXCEPT !.active = a] \in Kept
         /\ [k EXCEPT !.votes = v] \in Kept
  BY DEF Kept

\* What is given to a socket.
LEMMA GivenBoard ==
  ASSUME NEW g \in Given, NEW b \in 0..MaxBoards, NEW f \in SUBSET (1..MaxBoards),
         NEW n \in 0..MaxPolls, NEW a \in BOOLEAN
  PROVE  /\ [g EXCEPT !.board = b] \in Given
         /\ [g EXCEPT !.files = f] \in Given
         /\ [g EXCEPT !.pen = a] \in Given
         /\ [g EXCEPT !.poll = n] \in Given
  BY DEF Given

LEMMA NothingTyped ==
  /\ NothingKept \in Kept /\ NothingGiven \in Given
  /\ NothingKept.board = 0 /\ NothingKept.files = {} /\ NothingKept.pens = {}
  /\ NothingKept.poll = 0 /\ NothingKept.active = FALSE /\ NothingKept.votes = {}
  BY ClassroomAssumption DEF NothingKept, NothingGiven, Kept, Given

LEMMA NothingIsKept ==
  ASSUME NEW k \in Kept, k.board = 0, k.files = {}, k.pens = {}, k.poll = 0,
         k.active = FALSE, k.votes = {}
  PROVE  k = NothingKept
  BY DEF Kept, NothingKept

LEMMA RoomInit == ClassroomInit => RoomInv
  <1> SUFFICES ASSUME ClassroomInit PROVE RoomInv
    OBVIOUS
  <1>1. ClassroomTypeOK
    <2>1. 0 \in 0..MaxBoards /\ 0 \in 0..MaxPolls /\ 0 \in 0..MaxWipes
      BY ClassroomAssumption
    <2> QED
      BY <2>1, NothingTyped DEF ClassroomInit, ClassroomTypeOK
  <1>2. RoomPlaces /\ RoomUpToDate /\ RoomIsCleaned
    BY DEF ClassroomInit, RoomPlaces, Present, RoomUpToDate, RoomIsCleaned
  <1>3. PollIsMade
    BY NothingTyped DEF ClassroomInit, PollIsMade
  <1> QED
    BY <1>1, <1>2, <1>3 DEF RoomInv

\* A socket asks to join.
LEMMA RoomJoinAsks ==
  ASSUME RoomInv, NEW c \in Clients, JoinAsks(c)
  PROVE  RoomInv'
  <1> USE DEF RoomInv, JoinAsks
  <1>1. ClassroomTypeOK'
    BY DEF ClassroomTypeOK
  <1>2. \A d \in Clients : client'[d] = IF d = c THEN "joining" ELSE client[d]
    BY DEF ClassroomTypeOK
  <1>3. RoomPlaces' /\ RoomUpToDate' /\ RoomIsCleaned' /\ PollIsMade'
    BY <1>2
    DEF RoomPlaces, Present, RoomUpToDate, RoomIsCleaned, PollIsMade, ClassroomTypeOK
  <1> QED
    BY <1>1, <1>3

\* It enters, there or not.
LEMMA RoomJoinEnters ==
  ASSUME RoomInv, NEW c \in Clients, JoinEnters(c)
  PROVE  RoomInv'
  <1> USE DEF RoomInv, JoinEnters
  <1>1. ClassroomTypeOK'
    BY DEF ClassroomTypeOK
  <1>2. \A d \in Clients : client'[d] = IF d = c
                                        THEN IF client[c] = "gone" THEN "off" ELSE "entered"
                                        ELSE client[d]
    BY DEF ClassroomTypeOK
  <1>3. RoomPlaces'
    BY <1>2 DEF RoomPlaces, Present, ClassroomTypeOK
  <1>4. RoomUpToDate' /\ PollIsMade'
    BY <1>2 DEF RoomUpToDate, PollIsMade, ClassroomTypeOK
  <1>5. RoomIsCleaned'
    BY <1>2 DEF RoomIsCleaned, ClassroomTypeOK
  <1> QED
    BY <1>1, <1>3, <1>4, <1>5

\* It is told what is kept.
LEMMA RoomJoinReplays ==
  ASSUME RoomInv, NEW c \in Clients, JoinReplays(c)
  PROVE  RoomInv'
  <1> DEFINE g == [board |-> kept.board, files |-> kept.files,
                   pen |-> c \in kept.pens, poll |-> OpenPoll]
  <1> USE DEF RoomInv, JoinReplays
  <1>1. g \in Given /\ g.board = kept.board /\ g.files = kept.files
        /\ g.pen = (c \in kept.pens) /\ (kept.active => g.poll = kept.poll)
    BY ClassroomAssumption DEF ClassroomTypeOK, Kept, Given, OpenPoll
  <1>2. given' = [given EXCEPT ![c] = g]
    OBVIOUS
  <1> HIDE DEF g
  <1>3. ClassroomTypeOK'
    BY <1>1, <1>2 DEF ClassroomTypeOK
  <1>4. \A d \in Clients : /\ client'[d] = IF d = c THEN "in" ELSE client[d]
                           /\ given'[d] = IF d = c THEN g ELSE given[d]
    BY <1>2 DEF ClassroomTypeOK
  <1>5. RoomPlaces' /\ RoomIsCleaned' /\ PollIsMade'
    BY <1>4 DEF RoomPlaces, Present, RoomIsCleaned, PollIsMade, ClassroomTypeOK
  <1>6. RoomUpToDate'
    BY ZenonT(60), <1>1, <1>4 DEF RoomUpToDate, ClassroomTypeOK
  <1> QED
    BY <1>3, <1>5, <1>6

\* It goes; the last one takes everything with it.
LEMMA RoomDisconnects ==
  ASSUME RoomInv, NEW c \in Clients, Disconnects(c)
  PROVE  RoomInv'
  <1> USE DEF RoomInv, Disconnects
  <1>1. ClassroomTypeOK'
    BY NothingTyped DEF ClassroomTypeOK, Cleaned
  <1>2. \A d \in Clients :
           /\ client'[d] = IF d = c THEN IF client[c] = "joining" THEN "gone" ELSE "off"
                           ELSE client[d]
           /\ d # c => given'[d] = given[d]
    BY DEF ClassroomTypeOK
  <1>3. RoomPlaces'
    BY <1>2 DEF RoomPlaces, Present, ClassroomTypeOK
  <1>4. RoomUpToDate' /\ PollIsMade'
    BY <1>2, NothingTyped
    DEF RoomUpToDate, PollIsMade, ClassroomTypeOK, Cleaned
  <1>5. RoomIsCleaned'
    <2> SUFFICES ASSUME \A d \in Clients : client'[d] \in {"new", "joining", "gone", "off"},
                        ~ outlived
                 PROVE  kept' = NothingKept
      BY DEF RoomIsCleaned
    <2>1. room' = {}
      BY <1>2 DEF RoomPlaces, Present, ClassroomTypeOK
    <2>2. CASE c \in mapped
      BY <2>1, <2>2 DEF Cleaned
    <2>3. CASE c \notin mapped
      BY <1>2, <2>3 DEF RoomPlaces, Present, RoomIsCleaned, ClassroomTypeOK
    <2> QED
      BY <2>2, <2>3
  <1> QED
    BY <1>1, <1>3, <1>4, <1>5

LEMMA RoomLeavesRoom ==
  ASSUME RoomInv, NEW c \in Clients, LeavesRoom(c)
  PROVE  RoomInv'
  BY DEF RoomInv, LeavesRoom, ClassroomTypeOK, RoomPlaces, Present, RoomUpToDate,
         RoomIsCleaned, PollIsMade

\* What is drawn goes to all in the room and to the sender.
LEMMA RoomUpdateBoard ==
  ASSUME RoomInv, NEW c \in Clients, UpdateBoard(c)
  PROVE  RoomInv'
  <1> DEFINE n == made.board + 1
  <1>1. n \in 0..MaxBoards /\ made' = [made EXCEPT !.board = n]
        /\ made' \in [board: 0..MaxBoards, poll: 0..MaxPolls] /\ made'.poll = made.poll
    BY ClassroomAssumption DEF RoomInv, ClassroomTypeOK, UpdateBoard
  <1>2. kept' = [kept EXCEPT !.board = n]
        /\ given' = [d \in Clients |-> IF d \in Told(c) THEN [given[d] EXCEPT !.board = n]
                                       ELSE given[d]]
    BY DEF UpdateBoard
  <1> HIDE DEF n
  <1>3. kept' \in Kept /\ kept'.board = n /\ kept'.files = kept.files
        /\ kept'.pens = kept.pens /\ kept'.poll = kept.poll /\ kept'.active = kept.active
    BY <1>1, <1>2 DEF RoomInv, ClassroomTypeOK, Kept
  <1>4. \A d \in Clients :
           /\ given'[d] \in Given /\ given'[d].files = given[d].files
           /\ given'[d].pen = given[d].pen /\ given'[d].poll = given[d].poll
           /\ d \in room => given'[d].board = n
    BY SMTT(20), ZenonT(40), <1>1, <1>2 DEF RoomInv, ClassroomTypeOK, Given, Told
  <1>5. given' \in [Clients -> Given]
    BY <1>2, <1>4
  <1>6. ClassroomTypeOK'
    BY <1>1, <1>3, <1>5 DEF RoomInv, ClassroomTypeOK, UpdateBoard
  <1>7. RoomPlaces' /\ RoomIsCleaned' /\ PollIsMade'
    BY <1>1, <1>3
    DEF RoomInv, RoomPlaces, Present, RoomIsCleaned, PollIsMade, UpdateBoard, Sends
  <1>8. RoomUpToDate'
    <2>1. room' = room /\ client' = client /\ room \subseteq Clients
      BY DEF RoomInv, ClassroomTypeOK, UpdateBoard
    <2> QED
      BY <1>3, <1>4, <2>1 DEF RoomInv, RoomUpToDate
  <1> QED
    BY <1>6, <1>7, <1>8 DEF RoomInv

LEMMA RoomSyncFiles ==
  ASSUME RoomInv, NEW c \in Clients, SyncFiles(c)
  PROVE  RoomInv'
  <1> DEFINE n == made.board + 1
  <1>1. n \in 1..MaxBoards /\ n \in 0..MaxBoards
        /\ made' = [made EXCEPT !.board = n]
        /\ made' \in [board: 0..MaxBoards, poll: 0..MaxPolls] /\ made'.poll = made.poll
    BY ClassroomAssumption DEF RoomInv, ClassroomTypeOK, SyncFiles
  <1>2. kept' = [kept EXCEPT !.files = kept.files \union {n}]
        /\ given' = [d \in Clients |->
                        IF d \in Told(c)
                        THEN [given[d] EXCEPT !.files = given[d].files \union {n}]
                        ELSE given[d]]
    BY DEF SyncFiles
  <1> HIDE DEF n
  <1>3. kept' \in Kept /\ kept'.files = kept.files \union {n} /\ kept'.board = kept.board
        /\ kept'.pens = kept.pens /\ kept'.poll = kept.poll /\ kept'.active = kept.active
    BY <1>1, <1>2 DEF RoomInv, ClassroomTypeOK, Kept
  <1>4. \A d \in Clients :
           /\ given'[d] \in Given /\ given'[d].board = given[d].board
           /\ given'[d].pen = given[d].pen /\ given'[d].poll = given[d].poll
           /\ d \in room => given'[d].files = given[d].files \union {n}
    BY <1>1, <1>2 DEF RoomInv, ClassroomTypeOK, Given, Told
  <1>5. given' \in [Clients -> Given]
    BY <1>2, <1>4
  <1>6. ClassroomTypeOK'
    BY <1>1, <1>3, <1>5 DEF RoomInv, ClassroomTypeOK, SyncFiles
  <1>7. RoomPlaces' /\ RoomIsCleaned' /\ PollIsMade'
    BY <1>1, <1>3
    DEF RoomInv, RoomPlaces, Present, RoomIsCleaned, PollIsMade, SyncFiles, Sends
  <1>8. RoomUpToDate'
    <2>1. room' = room /\ client' = client /\ room \subseteq Clients
      BY DEF RoomInv, ClassroomTypeOK, SyncFiles
    <2> QED
      BY <1>3, <1>4, <2>1 DEF RoomInv, RoomUpToDate
  <1> QED
    BY <1>6, <1>7, <1>8 DEF RoomInv

\* A pen given or taken is known to the student if she is in the room.
LEMMA RoomTogglePenAccess ==
  ASSUME RoomInv, NEW c \in Clients, NEW student \in Students, NEW has \in BOOLEAN,
         TogglePenAccess(c, student, has)
  PROVE  RoomInv'
  <1> DEFINE p == IF has THEN kept.pens \union {student} ELSE kept.pens \ {student}
             a == IF student \in Told(c) THEN has ELSE given[student].pen
  <1>1. student \in Clients
    BY DEF Students
  <1>2. kept \in Kept /\ given \in [Clients -> Given]
    BY DEF RoomInv, ClassroomTypeOK
  <1>3. p \in SUBSET Students /\ a \in BOOLEAN
    BY <1>1, <1>2 DEF Kept, Given
  <1>4. kept' = [kept EXCEPT !.pens = p]
    BY DEF TogglePenAccess
  <1>5. given' = [given EXCEPT ![student] = [given[student] EXCEPT !.pen = a]]
    BY <1>1, <1>2 DEF TogglePenAccess
  <1>6. \A d \in room : d \in p => (d # student /\ d \in kept.pens) \/ (d = student /\ a)
    BY DEF Told
  <1> HIDE DEF p, a
  <1>7. kept' \in Kept /\ kept'.pens = p /\ kept'.board = kept.board
        /\ kept'.files = kept.files /\ kept'.poll = kept.poll
        /\ kept'.active = kept.active
    BY <1>2, <1>3, <1>4 DEF Kept
  <1>8. given' \in [Clients -> Given]
        /\ \A d \in Clients :
              /\ given'[d].board = given[d].board /\ given'[d].files = given[d].files
              /\ given'[d].poll = given[d].poll
              /\ given'[d].pen = IF d = student THEN a ELSE given[d].pen
    BY <1>1, <1>2, <1>3, <1>5 DEF Given
  <1>9. ClassroomTypeOK'
    BY <1>7, <1>8 DEF RoomInv, ClassroomTypeOK, TogglePenAccess
  <1>10. RoomPlaces' /\ RoomIsCleaned' /\ PollIsMade'
    BY <1>7
    DEF RoomInv, RoomPlaces, Present, RoomIsCleaned, PollIsMade, TogglePenAccess, Sends
  <1>11. RoomUpToDate'
    BY <1>6, <1>7, <1>8 DEF RoomInv, ClassroomTypeOK, RoomUpToDate, TogglePenAccess
  <1> QED
    BY <1>9, <1>10, <1>11 DEF RoomInv

LEMMA RoomPollAsks ==
  ASSUME RoomInv, NEW c \in Clients, NEW what \in {"launch", "respond", "close"},
         PollAsks(c, what)
  PROVE  RoomInv'
  BY DEF RoomInv, PollAsks, MayAsk, ClassroomTypeOK, RoomPlaces, Present,
         RoomUpToDate, RoomIsCleaned, PollIsMade

\* A new poll is open for all in the room.
LEMMA RoomPollLaunch ==
  ASSUME RoomInv, NEW c \in Clients, PollLaunch(c)
  PROVE  RoomInv'
  <1> DEFINE n == made.poll + 1
  <1>1. n \in 0..MaxPolls /\ made' = [made EXCEPT !.poll = n]
        /\ made' \in [board: 0..MaxBoards, poll: 0..MaxPolls] /\ made'.poll = n
    BY ClassroomAssumption DEF RoomInv, ClassroomTypeOK, PollLaunch
  <1>2. kept' = [kept EXCEPT !.poll = n, !.active = TRUE, !.votes = {}]
        /\ given' = [d \in Clients |-> IF d \in room THEN [given[d] EXCEPT !.poll = n]
                                       ELSE given[d]]
    BY DEF PollLaunch
  <1> HIDE DEF n
  <1>3. kept' \in Kept /\ kept'.board = kept.board /\ kept'.files = kept.files
        /\ kept'.pens = kept.pens /\ kept'.poll = n
    BY <1>1, <1>2 DEF RoomInv, ClassroomTypeOK, Kept
  <1>4. \A d \in Clients :
           /\ given'[d] \in Given /\ given'[d].files = given[d].files
           /\ given'[d].pen = given[d].pen /\ given'[d].board = given[d].board
           /\ d \in room => given'[d].poll = n
    BY SMTT(20), ZenonT(40), <1>1, <1>2 DEF RoomInv, ClassroomTypeOK, Given
  <1>5. given' \in [Clients -> Given]
    BY <1>2, <1>4
  <1>6. asking' \in [Clients -> {"nothing", "launch", "respond", "close"}]
        /\ \A d \in Clients : asking'[d] = IF d = c THEN "nothing" ELSE asking[d]
    BY DEF RoomInv, ClassroomTypeOK, PollLaunch, Answered
  <1>7. ClassroomTypeOK'
    BY <1>1, <1>3, <1>5, <1>6 DEF RoomInv, ClassroomTypeOK, PollLaunch
  <1>8. client[c] \in {"in", "off"}
    BY DEF RoomInv, RoomPlaces, PollLaunch, Answered
  <1>9. RoomPlaces' /\ RoomIsCleaned'
    BY <1>6, <1>8 DEF RoomInv, RoomPlaces, Present, RoomIsCleaned, PollLaunch,
                      ClassroomTypeOK
  <1>10. PollIsMade'
    BY <1>1, <1>3 DEF PollIsMade
  <1>11. RoomUpToDate'
    BY <1>3, <1>4 DEF RoomInv, ClassroomTypeOK, RoomUpToDate, PollLaunch
  <1> QED
    BY <1>7, <1>9, <1>10, <1>11 DEF RoomInv

\* An answer changes only the votes, and only those of an open poll.
LEMMA RoomPollRespond ==
  ASSUME RoomInv, NEW c \in Clients, PollRespond(c)
  PROVE  RoomInv'
  <1>1. asking' \in [Clients -> {"nothing", "launch", "respond", "close"}]
        /\ \A d \in Clients : asking'[d] = IF d = c THEN "nothing" ELSE asking[d]
    BY DEF RoomInv, ClassroomTypeOK, PollRespond, Answered
  <1>2. CASE ~ Accepts
    BY <1>1, <1>2
    DEF RoomInv, PollRespond, ClassroomTypeOK, RoomPlaces, Present, RoomUpToDate,
        RoomIsCleaned, PollIsMade
  <1>3. CASE Accepts
    <2>1. CASE c \in Students
      <3>1. kept' = [kept EXCEPT !.votes = kept.votes \union {c}]
        BY <1>3 DEF PollRespond
      <3>2. kept' \in Kept /\ kept'.board = kept.board /\ kept'.files = kept.files
            /\ kept'.pens = kept.pens /\ kept'.poll = kept.poll
            /\ kept'.active = kept.active
        BY <2>1, <3>1 DEF RoomInv, ClassroomTypeOK, Kept
      <3>3. kept # NothingKept
        BY <1>3, NothingTyped DEF Accepts
      <3> QED
        BY <1>1, <3>2, <3>3
        DEF RoomInv, PollRespond, ClassroomTypeOK, RoomPlaces, Present, RoomUpToDate,
            RoomIsCleaned, PollIsMade
    <2> QED
      BY <2>1 DEF RoomInv, RoomPlaces, PollRespond, Answered
  <1> QED
    BY <1>2, <1>3

\* A closed poll is shown to nobody in the room.
LEMMA RoomPollClose ==
  ASSUME RoomInv, NEW c \in Clients, PollClose(c)
  PROVE  RoomInv'
  <1>1. kept' \in Kept /\ kept'.board = kept.board /\ kept'.files = kept.files
        /\ kept'.pens = kept.pens /\ kept'.poll = kept.poll /\ kept'.active = FALSE
    BY DEF RoomInv, ClassroomTypeOK, Kept, PollClose
  <1>2. 0 \in 0..MaxPolls
    BY ClassroomAssumption
  <1>3. \A d \in Clients :
           /\ given'[d] \in Given /\ given'[d].board = given[d].board
           /\ given'[d].files = given[d].files /\ given'[d].pen = given[d].pen
    BY SMTT(20), ZenonT(40), <1>2 DEF RoomInv, ClassroomTypeOK, Given, PollClose
  <1>4. given' \in [Clients -> Given]
    BY <1>3 DEF PollClose
  <1>5. asking' \in [Clients -> {"nothing", "launch", "respond", "close"}]
        /\ \A d \in Clients : asking'[d] = IF d = c THEN "nothing" ELSE asking[d]
    BY DEF RoomInv, ClassroomTypeOK, PollClose, Answered
  <1>6. ClassroomTypeOK'
    BY <1>1, <1>4, <1>5 DEF RoomInv, ClassroomTypeOK, PollClose
  <1>7. RoomPlaces' /\ PollIsMade'
    BY <1>1, <1>5 DEF RoomInv, RoomPlaces, Present, PollIsMade, PollClose
  <1>8. kept = NothingKept => kept' = NothingKept
    <2>1. kept'.votes = kept.votes
      BY DEF RoomInv, ClassroomTypeOK, Kept, PollClose
    <2> QED
      BY <1>1, <2>1, NothingTyped, NothingIsKept
  <1>9. RoomIsCleaned'
    BY <1>8 DEF RoomInv, RoomIsCleaned, PollClose
  <1>10. room' = room /\ client' = client /\ room \subseteq Clients
    BY DEF RoomInv, ClassroomTypeOK, PollClose
  <1>11. RoomUpToDate'
    BY <1>1, <1>3, <1>10 DEF RoomInv, RoomUpToDate
  <1> QED
    BY <1>6, <1>7, <1>9, <1>11 DEF RoomInv

\* An eviction only takes away.
LEMMA RoomEvicts ==
  ASSUME RoomInv, Evicts
  PROVE  RoomInv'
  <1>1. 0 \in 0..MaxBoards /\ 0 \in 0..MaxPolls /\ wipes' \in 0..MaxWipes
    BY ClassroomAssumption
    DEF RoomInv, ClassroomTypeOK, Evicts, EvictsBoard, EvictsFiles, EvictsPoll, Wipes
  <1>2. kept' \in Kept /\ (kept'.board = kept.board \/ kept'.board = 0)
        /\ (kept'.files = kept.files \/ kept'.files = {}) /\ kept'.pens = kept.pens
        /\ (kept'.poll = kept.poll \/ kept'.poll = 0)
        /\ (kept'.active = FALSE \/ (kept'.active = kept.active /\ kept'.poll = kept.poll))
    BY ZenonT(60), <1>1
    DEF RoomInv, ClassroomTypeOK, Kept, Evicts, EvictsBoard, EvictsFiles, EvictsPoll
  <1>3. kept = NothingKept => kept' = NothingKept
    <2>1. kept'.votes = kept.votes \/ kept'.votes = {}
      BY DEF RoomInv, ClassroomTypeOK, Kept, Evicts, EvictsBoard, EvictsFiles, EvictsPoll
    <2> QED
      BY <1>2, <2>1, NothingTyped, NothingIsKept
  <1>4. UNCHANGED <<client, mapped, room, given, asking, made, outlived>>
    BY DEF Evicts
  <1>5. ClassroomTypeOK'
    BY <1>1, <1>2, <1>4 DEF RoomInv, ClassroomTypeOK
  <1>6. RoomPlaces' /\ RoomIsCleaned'
    BY <1>3, <1>4 DEF RoomInv, RoomPlaces, Present, RoomIsCleaned
  <1>7. PollIsMade'
    <2>1. made.poll \in Nat
      BY <1>1, ClassroomAssumption DEF RoomInv, ClassroomTypeOK
    <2> QED
      BY <1>2, <1>4, <2>1 DEF RoomInv, PollIsMade
  <1>8. RoomUpToDate'
    BY <1>2, <1>4 DEF RoomInv, RoomUpToDate
  <1> QED
    BY <1>5, <1>6, <1>7, <1>8 DEF RoomInv

LEMMA RoomRestarts ==
  ASSUME RoomInv, Restarts
  PROVE  RoomInv'
  <1>1. wipes' \in 0..MaxWipes
    BY ClassroomAssumption DEF RoomInv, ClassroomTypeOK, Restarts, Wipes
  <1>2. ClassroomTypeOK'
    BY <1>1, NothingTyped DEF RoomInv, ClassroomTypeOK, Restarts
  <1>3. RoomPlaces' /\ RoomUpToDate' /\ RoomIsCleaned'
    BY DEF RoomInv, Restarts, ClassroomTypeOK, RoomPlaces, Present, RoomUpToDate,
           RoomIsCleaned
  <1>4. PollIsMade'
    <2>1. made.poll \in Nat
      BY ClassroomAssumption DEF RoomInv, ClassroomTypeOK
    <2> QED
      BY <2>1, NothingTyped DEF Restarts, PollIsMade
  <1> QED
    BY <1>2, <1>3, <1>4 DEF RoomInv

LEMMA RoomNext ==
  ASSUME RoomInv, [ClassroomNext]_classroomVars
  PROVE  RoomInv'
  <1>1. CASE UNCHANGED classroomVars
    BY <1>1
    DEF classroomVars, RoomInv, ClassroomTypeOK, RoomPlaces, Present, RoomUpToDate,
        RoomIsCleaned, PollIsMade
  <1>2. CASE ClassroomNext
    BY <1>2, RoomJoinAsks, RoomJoinEnters, RoomJoinReplays, RoomDisconnects,
       RoomLeavesRoom, RoomUpdateBoard, RoomSyncFiles, RoomTogglePenAccess,
       RoomPollAsks, RoomPollLaunch, RoomPollRespond, RoomPollClose, RoomEvicts,
       RoomRestarts
    DEF ClassroomNext
  <1> QED
    BY <1>1, <1>2

LEMMA RoomHolds == ClassroomSpec => []RoomInv
  BY RoomInit, RoomNext, PTL DEF ClassroomSpec

\* What a step may do to a poll that is closed: it stays, or another poll or none
\* takes its place.
LEMMA ClosedPollSteps ==
  ASSUME RoomInv, [ClassroomNext]_classroomVars, kept.poll # 0, ~ kept.active,
         kept'.poll = kept.poll
  PROVE  kept'.votes = kept.votes
  <1> kept \in Kept
    BY DEF RoomInv, ClassroomTypeOK
  <1>1. CASE kept' = kept
    BY <1>1
  <1>2. CASE kept' = NothingKept
    BY <1>2, NothingTyped
  <1>3. ASSUME NEW c \in Clients, UpdateBoard(c) \/ SyncFiles(c)
        PROVE  kept'.votes = kept.votes
    BY <1>3 DEF UpdateBoard, SyncFiles, Kept
  <1>4. ASSUME NEW c \in Clients, NEW student \in Students, NEW has \in BOOLEAN,
               TogglePenAccess(c, student, has)
        PROVE  kept'.votes = kept.votes
    BY <1>4 DEF TogglePenAccess, Kept
  <1>5. ASSUME NEW c \in Clients, PollLaunch(c)
        PROVE  FALSE
    <2>1. kept'.poll = made.poll + 1
      BY <1>5 DEF PollLaunch, Kept
    <2>2. kept.poll \in Nat /\ made.poll \in Nat
      BY ClassroomAssumption DEF RoomInv, ClassroomTypeOK, Kept
    <2> QED
      BY <2>1, <2>2 DEF RoomInv, PollIsMade
  <1>6. ASSUME NEW c \in Clients, PollRespond(c)
        PROVE  kept' = kept
    BY <1>6 DEF PollRespond, Accepts
  <1>7. ASSUME NEW c \in Clients, PollClose(c)
        PROVE  kept'.votes = kept.votes
    BY <1>7 DEF PollClose, Kept
  <1>8. CASE Evicts
    <2>1. CASE EvictsPoll
      BY <2>1 DEF EvictsPoll, Kept
    <2>2. CASE EvictsBoard \/ EvictsFiles
      BY <2>2 DEF EvictsBoard, EvictsFiles, Kept
    <2> QED
      BY <1>8, <2>1, <2>2 DEF Evicts
  <1>9. ASSUME NEW c \in Clients, Disconnects(c)
        PROVE  kept' = kept \/ kept' = NothingKept
    BY <1>9 DEF Disconnects, Cleaned
  <1> QED
    BY <1>1, <1>2, <1>3, <1>4, <1>5, <1>6, <1>7, <1>8, <1>9
    DEF ClassroomNext, classroomVars, JoinAsks, JoinEnters, JoinReplays, LeavesRoom,
        PollAsks, Restarts

\* What a room keeps and gives has its type.
THEOREM RoomTyped == ClassroomSpec => []ClassroomTypeOK
  <1>1. RoomInv => ClassroomTypeOK
    BY DEF RoomInv
  <1> QED
    BY <1>1, RoomHolds, PTL

\* Everybody in the room has the latest board, the files, its own pen and the open
\* poll, and nothing is kept when the last one has gone, however joins, leaves,
\* broadcasts, evictions and restarts interleave (joinSession, handleDisconnect
\* and the handlers of the board and the poll).
THEOREM RoomKept == ClassroomSpec => []RoomIsKept
  <1>1. RoomInv => RoomIsKept
    BY DEF RoomInv, RoomIsKept
  <1> QED
    BY <1>1, RoomHolds, PTL

\* The votes of a closed poll never change, whatever answers are still on their way
\* (handlePollRespond asks again after its await whether the poll is open).
THEOREM PollFinal == ClassroomSpec => ClosedPollIsFinal
  <1>1. RoomInv /\ [ClassroomNext]_classroomVars
        => [kept.poll # 0 /\ ~ kept.active /\ kept'.poll = kept.poll
            => kept'.votes = kept.votes]_classroomVars
    BY ClosedPollSteps
  <1> QED
    BY <1>1, RoomHolds, PTL DEF ClassroomSpec, ClosedPollIsFinal

-----------------------------------------------------------------------------
(* Part 2: the recording.  A transfer relies on what it has stored, since   *)
(* nothing is removed while transfers are at work; the alert relies on the  *)
(* last run before its window closes.                                       *)

\* What is old is removed only after all transfers are over.
OldIsOver ==
    /\ age # Months => cleaning = {}
    /\ \A t \in Transfers : transfer[t].pc \in Running => age # Months

\* A transfer that has stored its blob, and one that has written its row.
TransferKeeps ==
    \A t \in Transfers :
        /\ transfer[t].pc \in {"row", "after"} => BlobOf(t) \in blobs
        /\ transfer[t].pc = "after" => BlobOf(t) \in rows

\* The last run before the window closes is over.
LastRun == (age = WindowCloses /\ alert.ran) \/ age = LastAge

LastRunReports ==
    LastRun /\ finished /\ ~ alert.late /\ rows = {} => alert.sent \/ alert.missed

RecInv == RecordingsTypeOK /\ OldIsOver /\ TransferKeeps /\ LastRunReports

LEMMA Ages ==
  /\ WindowOpens \in Nat /\ WindowCloses \in Nat /\ WindowOpens <= WindowCloses
  /\ LastAge \in Nat /\ Months \in Nat /\ WindowCloses < LastAge /\ LastAge < Months
  /\ LastAge = WindowCloses + 1 /\ Months = WindowCloses + 2
  BY RecordingsAssumption DEF LastAge, Months

LEMMA BlobTyped ==
  ASSUME RecordingsTypeOK, NEW t \in Transfers
  PROVE  BlobOf(t) \in Blobs
  BY DEF RecordingsTypeOK, Transfer, BlobOf, Blobs

\* A transfer goes on with its attempt, or begins another one.
LEMMA TransferGoesTo ==
  ASSUME NEW q \in Transfer, NEW pc \in {"new", "done", "lost"} \union Running
  PROVE  /\ [q EXCEPT !.pc = pc] \in Transfer
         /\ [q EXCEPT !.pc = pc].pc = pc
         /\ [q EXCEPT !.pc = pc].attempt = q.attempt
  BY DEF Transfer

LEMMA TransferRetries ==
  ASSUME RecordingsTypeOK, NEW t \in Transfers, transfer' = RetriesOrGivesUp(t)
  PROVE  /\ transfer' \in [Transfers -> Transfer]
         /\ transfer'[t].pc \in {"copy", "lost"}
         /\ \A u \in Transfers : u # t => transfer'[u] = transfer[u]
  <1>1. transfer[t] \in Transfer /\ transfer \in [Transfers -> Transfer]
    BY DEF RecordingsTypeOK
  <1>2. CASE provider = "daily" /\ transfer[t].attempt < MaxAttempts
    <2> DEFINE q == [pc |-> "copy", attempt |-> transfer[t].attempt + 1]
    <2>1. q \in Transfer /\ q.pc = "copy"
      BY <1>1, <1>2, RecordingsAssumption DEF Transfer, Running
    <2>2. transfer' = [transfer EXCEPT ![t] = q]
      BY <1>1, <1>2 DEF RetriesOrGivesUp
    <2> HIDE DEF q
    <2> QED
      BY <1>1, <2>1, <2>2
  <1>3. CASE ~ (provider = "daily" /\ transfer[t].attempt < MaxAttempts)
    <2>1. transfer' = [transfer EXCEPT ![t] = [transfer[t] EXCEPT !.pc = "lost"]]
      BY <1>3 DEF RetriesOrGivesUp
    <2> QED
      BY <1>1, <2>1, TransferGoesTo
  <1> QED
    BY <1>2, <1>3

LEMMA RecInit == RecordingsInit => RecInv
  <1> SUFFICES ASSUME RecordingsInit PROVE RecInv
    OBVIOUS
  <1>1. 1 \in 1..MaxAttempts /\ 0 \in 0..Months /\ 0 \in 0..MaxTroubles
    BY RecordingsAssumption, Ages
  <1>2. [pc |-> "new", attempt |-> 1] \in Transfer
    BY <1>1 DEF Transfer
  <1>3. RecordingsTypeOK
    BY <1>1, <1>2 DEF RecordingsInit, RecordingsTypeOK, Alert
  <1>4. OldIsOver /\ TransferKeeps /\ LastRunReports
    BY <1>2 DEF RecordingsInit, OldIsOver, TransferKeeps, LastRunReports, Running
  <1> QED
    BY <1>3, <1>4 DEF RecInv

\* The blobs that a transfer relies on stay while it is at work, whatever else
\* happens to other transfers.
LEMMA TransferStays ==
  ASSUME RecInv, NEW t \in Transfers, transfer'[t] = transfer[t],
         blobs \subseteq blobs', rows \subseteq rows'
  PROVE  /\ transfer'[t].pc \in {"row", "after"} => BlobOf(t)' \in blobs'
         /\ transfer'[t].pc = "after" => BlobOf(t)' \in rows'
  BY DEF RecInv, TransferKeeps, BlobOf

\* Steps that leave the age, the job and what is finished alone, and take no row.
LEMMA ReportStays ==
  ASSUME RecInv, UNCHANGED <<age, finished, alert>>, rows \subseteq rows'
  PROVE  LastRunReports'
  BY DEF RecInv, LastRunReports, LastRun

-----------------------------------------------------------------------------
(* One lemma per action *)

LEMMA RecProvider ==
  ASSUME RecInv, RecordingReady \/ Purges
  PROVE  RecInv'
  BY DEF RecInv, RecordingReady, Purges, RecordingsTypeOK, OldIsOver, TransferKeeps,
         LastRunReports, LastRun, BlobOf, stored, spent

LEMMA RecDelivered ==
  ASSUME RecInv, NEW t \in Transfers, Delivered(t)
  PROVE  RecInv'
  <1>1. transfer \in [Transfers -> Transfer] /\ transfer[t] \in Transfer
    BY DEF RecInv, RecordingsTypeOK
  <1>2. transfer' = [transfer EXCEPT ![t] = [transfer[t] EXCEPT !.pc = "copy"]]
    BY DEF Delivered
  <1>3. transfer' \in [Transfers -> Transfer] /\ transfer'[t].pc = "copy"
        /\ \A u \in Transfers : u # t => transfer'[u] = transfer[u]
    BY <1>1, <1>2, TransferGoesTo DEF Running
  <1>4. age # Months
    BY Ages DEF Delivered
  <1>5. RecordingsTypeOK'
    BY <1>3 DEF RecInv, RecordingsTypeOK, Delivered, stored, spent
  <1>6. OldIsOver'
    BY <1>4 DEF RecInv, OldIsOver, Delivered
  <1>7. TransferKeeps'
    BY <1>3, TransferStays DEF TransferKeeps, Delivered, stored
  <1>8. LastRunReports'
    BY ReportStays DEF Delivered, stored
  <1> QED
    BY <1>5, <1>6, <1>7, <1>8 DEF RecInv

\* The blob is stored.
LEMMA RecCopies ==
  ASSUME RecInv, NEW t \in Transfers, Copies(t)
  PROVE  RecInv'
  <1>1. transfer \in [Transfers -> Transfer] /\ transfer[t] \in Transfer
    BY DEF RecInv, RecordingsTypeOK
  <1>2. transfer' = [transfer EXCEPT ![t] = [transfer[t] EXCEPT !.pc = "row"]]
    BY DEF Copies
  <1>3. transfer' \in [Transfers -> Transfer] /\ transfer'[t].pc = "row"
        /\ transfer'[t].attempt = transfer[t].attempt
        /\ \A u \in Transfers : u # t => transfer'[u] = transfer[u]
    BY <1>1, <1>2, TransferGoesTo DEF Running
  <1>4. RecordingsTypeOK'
    BY <1>3, BlobTyped DEF RecInv, RecordingsTypeOK, Copies, spent
  <1>5. OldIsOver'
    BY <1>3 DEF RecInv, OldIsOver, Copies, Running
  <1>6. TransferKeeps'
    <2>1. BlobOf(t)' = BlobOf(t)
      BY <1>3 DEF BlobOf
    <2> QED
      BY <1>3, <2>1, TransferStays DEF TransferKeeps, Copies
  <1>7. LastRunReports'
    BY ReportStays DEF Copies
  <1> QED
    BY <1>4, <1>5, <1>6, <1>7 DEF RecInv

\* Its row is written.
LEMMA RecWritesRow ==
  ASSUME RecInv, NEW t \in Transfers, WritesRow(t)
  PROVE  RecInv'
  <1>1. transfer \in [Transfers -> Transfer] /\ transfer[t] \in Transfer
    BY DEF RecInv, RecordingsTypeOK
  <1>2. transfer' = [transfer EXCEPT ![t] = [transfer[t] EXCEPT !.pc = "after"]]
    BY DEF WritesRow
  <1>3. transfer' \in [Transfers -> Transfer] /\ transfer'[t].pc = "after"
        /\ transfer'[t].attempt = transfer[t].attempt
        /\ \A u \in Transfers : u # t => transfer'[u] = transfer[u]
    BY <1>1, <1>2, TransferGoesTo DEF Running
  <1>4. RecordingsTypeOK'
    BY <1>3, BlobTyped DEF RecInv, RecordingsTypeOK, WritesRow, spent
  <1>5. OldIsOver'
    BY <1>3 DEF RecInv, OldIsOver, WritesRow, Running
  <1>6. TransferKeeps'
    <2>1. BlobOf(t)' = BlobOf(t) /\ BlobOf(t) \in blobs
      BY <1>3 DEF BlobOf, RecInv, TransferKeeps, WritesRow
    <2> QED
      BY <1>3, <2>1, TransferStays DEF TransferKeeps, WritesRow
  <1>7. LastRunReports'
    BY ReportStays DEF WritesRow
  <1> QED
    BY <1>4, <1>5, <1>6, <1>7 DEF RecInv

\* The session is completed, perhaps too late for the alert.
LEMMA CompletionReports ==
  ASSUME RecInv, NEW now \in BOOLEAN, CompletedNow(now), UNCHANGED <<age, rows>>
  PROVE  LastRunReports' /\ alert' \in Alert /\ finished' \in BOOLEAN
  <1>1. alert \in Alert /\ finished \in BOOLEAN /\ age \in 0..Months
    BY DEF RecInv, RecordingsTypeOK
  <1> DEFINE late == alert.late \/ (now /\ ~ finished /\ age >= WindowCloses)
  <1>2. alert' = [alert EXCEPT !.late = late]
    BY DEF CompletedNow
  <1>3. alert' \in Alert /\ alert'.late = late /\ alert'.ran = alert.ran
        /\ alert'.sent = alert.sent /\ alert'.missed = alert.missed
    <2>1. late \in BOOLEAN
      BY <1>1 DEF Alert
    <2> HIDE DEF late
    <2> QED
      BY <1>1, <1>2, <2>1 DEF Alert
  <1>4. LastRun' => LastRun
    BY <1>3 DEF LastRun
  <1>5. LastRun => age >= WindowCloses
    BY Ages DEF LastRun
  <1>6. finished' /\ ~ alert'.late /\ LastRun => finished /\ ~ alert.late
    BY <1>3, <1>5 DEF CompletedNow
  <1> QED
    BY <1>1, <1>3, <1>4, <1>6 DEF RecInv, LastRunReports, CompletedNow

LEMMA RecAfterwards ==
  ASSUME RecInv, NEW t \in Transfers, Afterwards(t)
  PROVE  RecInv'
  <1>1. transfer \in [Transfers -> Transfer] /\ transfer[t] \in Transfer
    BY DEF RecInv, RecordingsTypeOK
  <1>2. transfer' = [transfer EXCEPT ![t] = [transfer[t] EXCEPT !.pc = "done"]]
    BY DEF Afterwards
  <1>3. transfer' \in [Transfers -> Transfer] /\ transfer'[t].pc = "done"
        /\ \A u \in Transfers : u # t => transfer'[u] = transfer[u]
    BY <1>1, <1>2, TransferGoesTo
  <1>4. LastRunReports' /\ alert' \in Alert /\ finished' \in BOOLEAN
        /\ troubles' \in 0..MaxTroubles
    <2>1. CASE CompletedNow(provider = "daily") /\ UNCHANGED troubles
      BY <2>1, CompletionReports
      DEF Afterwards, stored, RecInv, RecordingsTypeOK
    <2>2. CASE Trouble /\ UNCHANGED <<finished, alert, original>>
      <3>1. troubles' \in 0..MaxTroubles
        BY <2>2, RecordingsAssumption DEF Trouble, RecInv, RecordingsTypeOK
      <3> QED
        BY <2>2, <3>1, ReportStays DEF Afterwards, stored, RecInv, RecordingsTypeOK
    <2> QED
      BY <2>1, <2>2 DEF Afterwards
  <1>5. original' \in {"recording", "ready", "trashed", "purged"}
    BY DEF Afterwards, RecInv, RecordingsTypeOK
  <1>6. RecordingsTypeOK'
    BY <1>3, <1>4, <1>5 DEF RecInv, RecordingsTypeOK, Afterwards, stored
  <1>7. OldIsOver'
    BY <1>3 DEF RecInv, OldIsOver, Afterwards, Running
  <1>8. TransferKeeps'
    BY <1>3, TransferStays DEF TransferKeeps, Afterwards, stored
  <1> QED
    BY <1>4, <1>6, <1>7, <1>8 DEF RecInv

\* An attempt fails, or finds the original gone: it is tried again or given up.
LEMMA RecRetries ==
  ASSUME RecInv, NEW t \in Transfers, transfer[t].pc \in Running,
         transfer' = RetriesOrGivesUp(t), troubles' \in 0..MaxTroubles,
         UNCHANGED <<provider, original, stored, finished, age, alert, cleaning,
                     restarted>>
  PROVE  RecInv'
  <1>1. transfer' \in [Transfers -> Transfer] /\ transfer'[t].pc \in {"copy", "lost"}
        /\ \A u \in Transfers : u # t => transfer'[u] = transfer[u]
    BY TransferRetries DEF RecInv
  <1>2. RecordingsTypeOK'
    BY <1>1 DEF RecInv, RecordingsTypeOK, stored
  <1>3. OldIsOver'
    BY <1>1 DEF RecInv, OldIsOver
  <1>4. TransferKeeps'
    BY <1>1, TransferStays DEF TransferKeeps, stored
  <1>5. LastRunReports'
    BY ReportStays DEF stored
  <1> QED
    BY <1>2, <1>3, <1>4, <1>5 DEF RecInv

LEMMA RecAttemptFails ==
  ASSUME RecInv, NEW t \in Transfers, AttemptFails(t) \/ FindsNothing(t)
  PROVE  RecInv'
  <1>1. troubles' \in 0..MaxTroubles /\ restarted' = restarted
    BY RecordingsAssumption
    DEF AttemptFails, FindsNothing, Trouble, RecInv, RecordingsTypeOK, spent
  <1>2. transfer[t].pc \in Running
    BY DEF AttemptFails, FindsNothing, Running
  <1> QED
    BY <1>1, <1>2, RecRetries DEF AttemptFails, FindsNothing, stored

\* A restart loses all that is under way.
LEMMA RecRestartLoses ==
  ASSUME RecInv, RestartLoses
  PROVE  RecInv'
  <1>1. \A t \in Transfers : transfer[t] \in Transfer
    BY DEF RecInv, RecordingsTypeOK
  <1>2. \A t \in Transfers :
           /\ transfer'[t] \in Transfer
           /\ transfer'[t].pc \notin Running
    <2> TAKE t \in Transfers
    <2> DEFINE q == [transfer[t] EXCEPT !.pc = "lost"]
    <2>1. q \in Transfer /\ q.pc \notin Running
      <3>1. transfer[t] \in Transfer /\ "lost" \in {"new", "done", "lost"} \union Running
        BY <1>1
      <3>2. q \in Transfer /\ q.pc = "lost"
        BY <3>1, TransferGoesTo
      <3> QED
        BY <3>2 DEF Running
    <2>2. transfer'[t] = IF transfer[t].pc \in Running THEN q ELSE transfer[t]
      BY DEF RestartLoses
    <2> HIDE DEF q
    <2> QED
      BY <1>1, <2>1, <2>2
  <1>3. transfer' \in [Transfers -> Transfer]
    BY <1>2 DEF RestartLoses
  <1>4. RecordingsTypeOK'
    BY <1>3, RecordingsAssumption
    DEF RestartLoses, Trouble, RecInv, RecordingsTypeOK, stored
  <1>5. OldIsOver' /\ TransferKeeps'
    BY <1>2 DEF RestartLoses, RecInv, OldIsOver, TransferKeeps, Running
  <1>6. LastRunReports'
    BY ReportStays DEF RestartLoses, stored
  <1> QED
    BY <1>4, <1>5, <1>6 DEF RecInv

LEMMA RecUpload ==
  ASSUME RecInv, NEW b \in Uploads, Upload(b)
  PROVE  RecInv'
  <1>1. b \in Blobs
    BY DEF Blobs
  <1>2. RecordingsTypeOK'
    BY <1>1 DEF Upload, RecInv, RecordingsTypeOK, spent
  <1>3. OldIsOver'
    BY DEF Upload, RecInv, OldIsOver
  <1>4. TransferKeeps'
    BY TransferStays DEF TransferKeeps, Upload
  <1>5. LastRunReports'
    BY ReportStays DEF Upload
  <1> QED
    BY <1>2, <1>3, <1>4, <1>5 DEF RecInv

LEMMA RecFinishes ==
  ASSUME RecInv, Finishes
  PROVE  RecInv'
  <1>1. LastRunReports' /\ alert' \in Alert /\ finished' \in BOOLEAN
    BY CompletionReports DEF Finishes, stored
  <1>2. RecordingsTypeOK'
    BY <1>1 DEF Finishes, RecInv, RecordingsTypeOK, stored, spent
  <1>3. OldIsOver' /\ TransferKeeps'
    BY DEF Finishes, RecInv, OldIsOver, TransferKeeps, BlobOf, stored
  <1> QED
    BY <1>1, <1>2, <1>3 DEF RecInv

\* A run within the window sees what is missing.
LEMMA RecAlertRuns ==
  ASSUME RecInv, AlertRuns
  PROVE  RecInv'
  <1>1. alert \in Alert /\ finished \in BOOLEAN /\ age \in 0..Months
    BY DEF RecInv, RecordingsTypeOK
  <1> DEFINE sent == alert.sent \/ (finished /\ InWindow /\ rows = {})
  <1>2. alert' = [alert EXCEPT !.ran = TRUE, !.sent = sent]
    BY DEF AlertRuns
  <1>3. sent \in BOOLEAN
    BY <1>1 DEF Alert, InWindow
  <1>4. alert.sent => sent
    OBVIOUS
  <1>5. finished /\ rows = {} /\ age = WindowCloses => sent
    BY Ages DEF InWindow
  <1> HIDE DEF sent
  <1>6. alert' \in Alert /\ alert'.late = alert.late /\ alert'.sent = sent
        /\ alert'.missed = alert.missed
    BY <1>1, <1>2, <1>3 DEF Alert
  <1>7. RecordingsTypeOK'
    BY <1>6 DEF AlertRuns, RecInv, RecordingsTypeOK, stored, spent
  <1>8. OldIsOver' /\ TransferKeeps'
    BY DEF AlertRuns, RecInv, OldIsOver, TransferKeeps, BlobOf, stored
  <1>9. LastRunReports'
    BY <1>4, <1>5, <1>6 DEF RecInv, LastRunReports, LastRun, AlertRuns, stored
  <1> QED
    BY <1>7, <1>8, <1>9 DEF RecInv

LEMMA RecAlertFails ==
  ASSUME RecInv, AlertFails
  PROVE  RecInv'
  <1>1. alert' \in Alert /\ alert'.missed = TRUE
    BY DEF AlertFails, RecInv, RecordingsTypeOK, Alert
  <1>2. troubles' \in 0..MaxTroubles
    BY RecordingsAssumption DEF AlertFails, Trouble, RecInv, RecordingsTypeOK
  <1>3. RecordingsTypeOK'
    BY <1>1, <1>2 DEF AlertFails, RecInv, RecordingsTypeOK, stored
  <1>4. OldIsOver' /\ TransferKeeps' /\ LastRunReports'
    BY <1>1
    DEF AlertFails, RecInv, OldIsOver, TransferKeeps, LastRunReports, BlobOf, stored
  <1> QED
    BY <1>3, <1>4 DEF RecInv

\* The half hour after the window closes begins where its last run has ended.
LEMMA RecHalfHourPasses ==
  ASSUME RecInv, HalfHourPasses
  PROVE  RecInv'
  <1>1. alert \in Alert /\ age \in 0..Months
    BY DEF RecInv, RecordingsTypeOK
  <1>2. alert' \in Alert /\ alert'.late = alert.late /\ alert'.sent = alert.sent
        /\ alert'.missed = alert.missed /\ alert'.ran = FALSE
    BY <1>1 DEF HalfHourPasses, Alert
  <1>3. age' \in 0..Months /\ age' # Months /\ age # Months
        /\ (age' = LastAge => age = WindowCloses)
    BY <1>1, Ages DEF HalfHourPasses
  <1>4. RecordingsTypeOK'
    BY <1>2, <1>3 DEF HalfHourPasses, RecInv, RecordingsTypeOK, stored, spent
  <1>5. OldIsOver' /\ TransferKeeps'
    BY <1>3 DEF HalfHourPasses, RecInv, OldIsOver, TransferKeeps, BlobOf, stored
  <1>6. LastRun' => LastRun
    BY <1>2, <1>3 DEF LastRun, HalfHourPasses
  <1>7. LastRunReports'
    BY <1>2, <1>6 DEF RecInv, LastRunReports, HalfHourPasses, stored
  <1> QED
    BY <1>4, <1>5, <1>7 DEF RecInv

LEMMA RecMonthPassesBy ==
  ASSUME RecInv, MonthPassesBy
  PROVE  RecInv'
  <1>1. Months \in 0..Months /\ LastAge # Months /\ WindowCloses # Months
    BY Ages
  <1>2. RecordingsTypeOK'
    BY <1>1 DEF MonthPassesBy, RecInv, RecordingsTypeOK, stored, spent
  <1>3. OldIsOver' /\ TransferKeeps'
    BY <1>1 DEF MonthPassesBy, RecInv, OldIsOver, TransferKeeps, BlobOf, stored
  <1>4. LastRunReports'
    BY <1>1 DEF MonthPassesBy, LastRunReports, LastRun
  <1> QED
    BY <1>2, <1>3, <1>4 DEF RecInv

\* What is old goes when no transfer and no alert is about it.
LEMMA RecRemoves ==
  ASSUME RecInv, age = Months,
         blobs' \subseteq blobs, rows' \subseteq rows, cleaning' \subseteq Blobs,
         UNCHANGED <<provider, original, transfer, finished, age, alert, spent>>
  PROVE  RecInv'
  <1>1. RecordingsTypeOK'
    BY DEF RecInv, RecordingsTypeOK, spent
  <1>2. \A t \in Transfers : transfer[t].pc \notin Running
    BY DEF RecInv, OldIsOver
  <1>3. OldIsOver' /\ TransferKeeps'
    BY <1>2 DEF OldIsOver, TransferKeeps, Running
  <1>4. LastRunReports'
    BY Ages DEF LastRunReports, LastRun
  <1> QED
    BY <1>1, <1>3, <1>4 DEF RecInv

LEMMA RecCleanup ==
  ASSUME RecInv,
         \/ CleanupLists
         \/ \E b \in Blobs : LifecyclePurges(b) \/ CleanupDeletes(b) \/ CleanupForgets(b)
  PROVE  RecInv'
  <1>1. age = Months
    BY DEF CleanupLists, LifecyclePurges, CleanupDeletes, CleanupForgets, RecInv,
           OldIsOver
  <1> QED
    BY <1>1, RecRemoves
    DEF CleanupLists, LifecyclePurges, CleanupDeletes, CleanupForgets, RecInv,
        RecordingsTypeOK, stored

LEMMA RecNext ==
  ASSUME RecInv, [RecordingsNext]_recordingsVars
  PROVE  RecInv'
  <1>1. CASE UNCHANGED recordingsVars
    BY <1>1
    DEF recordingsVars, stored, spent, RecInv, RecordingsTypeOK, OldIsOver,
        TransferKeeps, LastRunReports, LastRun, BlobOf
  <1>2. CASE RecordingsNext
    BY <1>2, RecProvider, RecDelivered, RecCopies, RecWritesRow, RecAfterwards,
       RecAttemptFails, RecRestartLoses, RecUpload, RecFinishes, RecAlertRuns,
       RecAlertFails, RecHalfHourPasses, RecMonthPassesBy, RecCleanup
    DEF RecordingsNext, TransferSteps
  <1> QED
    BY <1>1, <1>2

LEMMA RecHolds == RecordingsSpec => []RecInv
  BY RecInit, RecNext, PTL DEF RecordingsSpec

\* The step that trashes an original is that of a transfer which has its row.
LEMMA TrashSteps ==
  ASSUME RecInv, [RecordingsNext]_recordingsVars, original # "trashed",
         original' = "trashed"
  PROVE  \E t \in Transfers : BlobOf(t) \in rows \intersect blobs
  <1>1. PICK t \in Transfers : Afterwards(t)
    BY DEF RecordingsNext, recordingsVars, RecordingReady, Purges, Delivered,
           TransferSteps, Copies, WritesRow, FindsNothing, AttemptFails,
           RestartLoses, Upload, LifecyclePurges, CleanupDeletes, CleanupForgets,
           CleanupLists, Finishes, AlertRuns, AlertFails, HalfHourPasses,
           MonthPassesBy
  <1> QED
    BY <1>1 DEF Afterwards, RecInv, TransferKeeps

\* The recording's transfers, blobs and rows have their types.
THEOREM RecordingsTyped == RecordingsSpec => []RecordingsTypeOK
  <1>1. RecInv => RecordingsTypeOK
    BY DEF RecInv
  <1> QED
    BY <1>1, RecHolds, PTL

\* Zoom's original is trashed only by a transfer whose blob is stored and whose row
\* is written, whatever transfers overlap, fail or are lost, and whatever the
\* cleanup removes (deleteRecording comes after uploadFromUrl and the insert).
THEOREM OriginalKept == RecordingsSpec => TrashedIsKept
  <1>1. RecInv /\ [RecordingsNext]_recordingsVars
        => [original # "trashed" /\ original' = "trashed"
            => \E t \in Transfers : BlobOf(t) \in rows \intersect blobs]_recordingsVars
    BY TrashSteps
  <1> QED
    BY <1>1, RecHolds, PTL DEF RecordingsSpec, TrashedIsKept

\* A session that was completed in time and has no recording has been reported
\* when the window of the alert has passed, or a run of the job failed
\* (alertOnMissingRecordings).
THEOREM MissingReported == RecordingsSpec => []MissingIsReported
  <1>1. RecInv => MissingIsReported
    BY DEF RecInv, LastRunReports, LastRun, MissingIsReported
  <1> QED
    BY <1>1, RecHolds, PTL

-----------------------------------------------------------------------------
(* Part 3: what is noted during the lesson.  As long as no two updates have *)
(* crossed, the only one that has read the history knows all of it; as long *)
(* as no two evaluations have, the only one that has read the row knows the *)
(* scores in it.                                                            *)

UpdateRec == [pc: {"idle", "write", "again", "append"}, phase: Phases,
              history: History, socket: BOOLEAN]
EvalRec == [of: {"none", "attention", "phases"}, read: BOOLEAN,
            verdict: Verdicts \union Pedagogy, meta: Meta]

\* Every update that is under way has room for its two entries, or for the second.
Busy == {u \in Updates : update[u].pc # "idle"}
Half == {u \in Updates : update[u].pc \in {"again", "append"}}
RoomForEntries ==
    /\ IsFiniteSet(Busy)
    /\ writes + 2 * Cardinality(Busy) <= MaxWrites + Cardinality(Half)
    /\ Len(flow.history) <= writes
    /\ \A u \in Updates : Len(update[u].history) <= writes

\* An entry of this phase that has no timestamp.
Bare(history, phase) ==
    \E j \in DOMAIN history : history[j].phase = phase /\ ~ history[j].timestamp

\* The gateway appends an entry with a timestamp only after advancePhase has
\* written one without.
HistoryInv == ~ crossed =>
    /\ Len(flow.history) = writes
    /\ \A u \in Updates : Reading(u) =>
          /\ update[u].history = flow.history
          /\ \A v \in Updates : Reading(v) => v = u
    /\ \A i \in DOMAIN flow.history : Bare(flow.history, flow.history[i].phase)
    /\ \A u \in Updates : update[u].pc \in {"again", "append"}
                          => Bare(flow.history, update[u].phase)

\* Nobody has found, or is about to write, that the time spent teaching is short.
PedagogyInv == ~ crossed =>
    /\ flow.pedagogy # "NEEDS_IMPROVEMENT"
    /\ \A e \in Evaluations : eval[e].of = "phases" /\ eval[e].read
                              => eval[e].verdict # "NEEDS_IMPROVEMENT"

\* Evaluations of attention that have not read the events yet.
Unread(e) == eval[e].of = "attention" /\ ~ eval[e].read

VerdictInv == ~ mixed =>
    /\ \A d, e \in Evaluations : eval[d].read /\ eval[e].read => d = e
    /\ \A e \in Evaluations :
          /\ eval[e].of = "attention" /\ eval[e].read
             /\ (\A d \in Evaluations : ~ Unread(d))
             => eval[e].verdict = Verdict(notes) /\ eval[e].meta.scores = notes
          /\ eval[e].of = "phases" /\ eval[e].read
             => eval[e].meta.scores = attention.meta.scores
    /\ (\A e \in Evaluations : eval[e].of # "attention") /\ attention.status # "none"
       => attention.status = Verdict(notes) /\ attention.meta.scores = notes

\* Who has read the row is at work, and has a verdict of its own kind.
EvalKinds ==
    \A e \in Evaluations : eval[e].read =>
        \/ eval[e].of = "attention" /\ eval[e].verdict \in Verdicts
        \/ eval[e].of = "phases" /\ eval[e].verdict \in Pedagogy

LearnInv ==
    /\ LearningTypeOK /\ RoomForEntries /\ EvalKinds
    /\ HistoryInv /\ PedagogyInv /\ VerdictInv

LEMMA HistoryIsSeq ==
  ASSUME NEW h \in History
  PROVE  h \in Seq(Entry) /\ Len(h) \in Nat /\ DOMAIN h = 1..Len(h)
         /\ \A i \in DOMAIN h : h[i] \in Entry
  <1>1. PICK n \in 0..MaxWrites : h \in [1..n -> Entry]
    BY DEF History
  <1>2. n \in Nat
    BY LearningAssumption
  <1>3. h \in Seq(Entry) /\ Len(h) = n
    BY <1>1, <1>2
  <1> QED
    BY <1>1, <1>2, <1>3

LEMMA SeqIsHistory ==
  ASSUME NEW h \in Seq(Entry), Len(h) <= MaxWrites
  PROVE  h \in History
  <1>1. Len(h) \in 0..MaxWrites /\ h \in [1..Len(h) -> Entry]
    BY LearningAssumption
  <1> QED
    BY <1>1 DEF History

LEMMA LearnTypes ==
  LearningTypeOK =>
    /\ update \in [Updates -> UpdateRec] /\ eval \in [Evaluations -> EvalRec]
    /\ flow.history \in History /\ attention.meta \in Meta
  BY DEF LearningTypeOK, UpdateRec, EvalRec

LEMMA NothingNoted ==
  /\ NoUpdate \in UpdateRec /\ NoUpdate.pc = "idle" /\ NoUpdate.history = <<>>
  /\ NoEval \in EvalRec /\ NoEval.of = "none" /\ NoEval.read = FALSE
  /\ NoMeta \in Meta /\ NoScores \in Counts
  <1>1. 0 \in 0..MaxNotes /\ NoScores \in Counts
    BY LearningAssumption DEF NoScores, Counts
  <1>2. NoMeta \in Meta
    BY <1>1 DEF NoMeta, Meta
  <1>3. <<>> \in History
    <2>1. <<>> \in Seq(Entry) /\ Len(<<>>) <= MaxWrites
      BY LearningAssumption
    <2> QED
      BY <2>1, SeqIsHistory
  <1> QED
    BY <1>1, <1>2, <1>3
    DEF NoUpdate, NoEval, UpdateRec, EvalRec, Phases, Verdicts

LEMMA LearnInit == LearningInit => LearnInv
  <1> SUFFICES ASSUME LearningInit PROVE LearnInv
    OBVIOUS
  <1>1. 0 \in 0..MaxWrites /\ 0 \in 0..MaxLosses
    BY LearningAssumption
  <1>2. flow.history = <<>> /\ flow.pedagogy = "none" /\ attention.status = "none"
    BY DEF LearningInit
  <1>3. <<>> \in History /\ Len(<<>>) = 0 /\ DOMAIN (<<>>) = {}
    BY NothingNoted DEF UpdateRec
  <1>4. LearningTypeOK
    BY <1>1, <1>3, NothingNoted
    DEF LearningInit, LearningTypeOK, UpdateRec, EvalRec, Phases
  <1>5. RoomForEntries
    <2>1. Busy = {} /\ Half = {}
      BY NothingNoted DEF LearningInit, Busy, Half
    <2>2. IsFiniteSet(Busy) /\ Cardinality(Busy) = 0 /\ Cardinality(Half) = 0
      BY <2>1, FS_EmptySet
    <2>3. \A u \in Updates : update[u].history = <<>>
      BY NothingNoted DEF LearningInit
    <2>4. writes = 0
      BY DEF LearningInit
    <2> QED
      BY <1>2, <1>3, <2>2, <2>3, <2>4, LearningAssumption DEF RoomForEntries
  <1>6. HistoryInv /\ PedagogyInv /\ VerdictInv /\ EvalKinds
    <2>1. \A u \in Updates : update[u].pc = "idle"
      BY NothingNoted DEF LearningInit
    <2>2. \A e \in Evaluations : eval[e].of = "none" /\ ~ eval[e].read
      BY NothingNoted DEF LearningInit
    <2> QED
      BY <1>2, <1>3, <2>1, <2>2
      DEF LearningInit, HistoryInv, PedagogyInv, VerdictInv, EvalKinds, Reading, Unread
  <1> QED
    BY <1>4, <1>5, <1>6 DEF LearnInv

\* An update moves on.
LEMMA UpdateMoves ==
  ASSUME LearnInv, NEW u \in Updates, NEW q \in UpdateRec,
         update' = [update EXCEPT ![u] = q]
  PROVE  /\ update' \in [Updates -> UpdateRec]
         /\ update'[u] = q
         /\ \A v \in Updates : v # u => update'[v] = update[v]
  BY LearnTypes DEF LearnInv

LEMMA EntriesLeft ==
  ASSUME LearnInv
  PROVE  /\ Cardinality(Busy) \in Nat /\ Cardinality(Half) \in Nat /\ writes \in Nat
         /\ IsFiniteSet(Busy) /\ IsFiniteSet(Half)
         /\ Busy # {} => writes + 1 <= MaxWrites
         /\ writes + 2 * Cardinality(Busy) <= MaxWrites + Cardinality(Half)
  <1>1. IsFiniteSet(Busy) /\ writes \in Nat
        /\ writes + 2 * Cardinality(Busy) <= MaxWrites + Cardinality(Half)
    BY LearningAssumption DEF LearnInv, RoomForEntries, LearningTypeOK
  <1>2. Half \subseteq Busy
    BY DEF Half, Busy
  <1>3. IsFiniteSet(Half) /\ Cardinality(Half) <= Cardinality(Busy)
    BY <1>1, <1>2, FS_Subset
  <1>4. Cardinality(Busy) \in Nat /\ Cardinality(Half) \in Nat
        /\ (Busy # {} => Cardinality(Busy) # 0)
    BY <1>1, <1>3, FS_CardinalityType, FS_EmptySet
  <1> QED
    BY <1>1, <1>3, <1>4, LearningAssumption

\* What an update owes to the history after it has read and before it has ended.
Owing(pc) == IF pc = "idle" THEN 0 ELSE IF pc = "write" THEN 2 ELSE 1

LEMMA RoomMoves ==
  ASSUME LearnInv, NEW u \in Updates, NEW q \in UpdateRec,
         update' = [update EXCEPT ![u] = q],
         writes' \in Nat, writes <= writes',
         \/ writes' + Owing(q.pc) <= writes + Owing(update[u].pc)
         \/ /\ writes' = writes /\ update[u].pc = "idle" /\ q.pc = "write"
            /\ writes + 2 * Cardinality(Busy) + 2 <= MaxWrites,
         Len(flow'.history) <= writes', Len(q.history) <= writes'
  PROVE  RoomForEntries'
  <1>1. /\ update'[u] = q
        /\ \A v \in Updates : v # u => update'[v] = update[v]
    BY UpdateMoves
  <1>2. update[u] \in UpdateRec
    BY LearnTypes DEF LearnInv
  <1> DEFINE b == Cardinality(Busy)
             h == Cardinality(Half)
  <1>3. b \in Nat /\ h \in Nat /\ writes \in Nat /\ IsFiniteSet(Busy) /\ IsFiniteSet(Half)
        /\ writes + 2 * b <= MaxWrites + h /\ MaxWrites \in Nat
    BY EntriesLeft, LearningAssumption
  <1>4. Busy' = IF q.pc = "idle" THEN Busy \ {u} ELSE Busy \union {u}
    BY <1>1 DEF Busy
  <1>5. Half' = IF q.pc \in {"again", "append"} THEN Half \union {u} ELSE Half \ {u}
    BY <1>1 DEF Half
  <1>6. IsFiniteSet(Busy') /\ Cardinality(Busy') \in Nat
        /\ Cardinality(Busy') = IF q.pc = "idle"
                                THEN IF update[u].pc = "idle" THEN b ELSE b - 1
                                ELSE IF update[u].pc = "idle" THEN b + 1 ELSE b
    <2>1. u \in Busy <=> update[u].pc # "idle"
      BY DEF Busy
    <2>2. CASE q.pc = "idle"
      BY <1>3, <1>4, <2>1, <2>2, FS_RemoveElement, FS_CardinalityType
    <2>3. CASE q.pc # "idle"
      <3>1. IsFiniteSet(Busy')
        BY <1>3, <1>4, <2>3, FS_AddElement
      <3>2. CASE update[u].pc = "idle"
        BY <1>3, <1>4, <2>1, <2>3, <3>1, <3>2, FS_AddElement, FS_CardinalityType
      <3>3. CASE update[u].pc # "idle"
        <4>1. Busy' = Busy
          BY <1>4, <2>1, <2>3, <3>3
        <4> QED
          BY <1>3, <2>3, <3>3, <4>1
      <3> QED
        BY <3>2, <3>3
    <2> QED
      BY <2>2, <2>3
  <1>7. Cardinality(Half') \in Nat
        /\ Cardinality(Half') = IF q.pc \in {"again", "append"}
                                THEN IF update[u].pc \in {"again", "append"} THEN h
                                     ELSE h + 1
                                ELSE IF update[u].pc \in {"again", "append"} THEN h - 1
                                     ELSE h
    <2>1. u \in Half <=> update[u].pc \in {"again", "append"}
      BY DEF Half
    <2>2. CASE q.pc \notin {"again", "append"}
      <3>1. Half' = Half \ {u}
        BY <1>5, <2>2
      <3> QED
        BY <1>3, <2>1, <2>2, <3>1, FS_RemoveElement, FS_CardinalityType
    <2>3. CASE q.pc \in {"again", "append"}
      <3>1. Half' = Half \union {u}
        BY <1>5, <2>3
      <3>2. CASE update[u].pc \notin {"again", "append"}
        BY <1>3, <2>1, <2>3, <3>1, <3>2, FS_AddElement, FS_CardinalityType
      <3>3. CASE update[u].pc \in {"again", "append"}
        <4>1. Half' = Half
          BY <2>1, <3>1, <3>3
        <4> QED
          BY <1>3, <2>3, <3>3, <4>1
      <3> QED
        BY <3>2, <3>3
    <2> QED
      BY <2>2, <2>3
  <1>8. writes' + 2 * Cardinality(Busy') <= MaxWrites + Cardinality(Half')
    <2>1. q.pc \in {"idle", "write", "again", "append"}
          /\ update[u].pc \in {"idle", "write", "again", "append"}
      BY <1>2 DEF UpdateRec
    <2> DEFINE b1 == Cardinality(Busy')
               h1 == Cardinality(Half')
    <2>2. b1 \in Nat /\ h1 \in Nat
      BY <1>6, <1>7
    <2>3. Owing(q.pc) \in Nat /\ Owing(update[u].pc) \in Nat
      BY DEF Owing
    <2>4. 2 * b1 + h + Owing(update[u].pc) = 2 * b + h1 + Owing(q.pc)
      <3>1. b1 = IF q.pc = "idle" THEN IF update[u].pc = "idle" THEN b ELSE b - 1
                 ELSE IF update[u].pc = "idle" THEN b + 1 ELSE b
        BY <1>6
      <3>2. h1 = IF q.pc \in {"again", "append"}
                 THEN IF update[u].pc \in {"again", "append"} THEN h ELSE h + 1
                 ELSE IF update[u].pc \in {"again", "append"} THEN h - 1 ELSE h
        BY <1>7
      <3> HIDE DEF b1, h1, b, h
      <3>3. CASE update[u].pc = "idle"
        BY <1>3, <2>1, <2>2, <3>1, <3>2, <3>3 DEF Owing
      <3>4. CASE update[u].pc = "write"
        BY <1>3, <2>1, <2>2, <3>1, <3>2, <3>4 DEF Owing
      <3>5. CASE update[u].pc \in {"again", "append"}
        BY <1>3, <2>1, <2>2, <3>1, <3>2, <3>5 DEF Owing
      <3> QED
        BY <2>1, <3>3, <3>4, <3>5
    <2> HIDE DEF b1, h1, b, h
    <2>5. CASE writes' + Owing(q.pc) <= writes + Owing(update[u].pc)
      <3>1. writes' + 2 * b1 <= MaxWrites + h1
        <4> DEFINE o == Owing(update[u].pc)
                   o1 == Owing(q.pc)
                   w1 == writes'
        <4>1. w1 \in Nat /\ w1 + o1 <= writes + o /\ o \in Nat /\ o1 \in Nat
          BY <2>3, <2>5
        <4>2. 2 * b1 + h + o = 2 * b + h1 + o1
          BY <2>4
        <4>3. writes + 2 * b <= MaxWrites + h /\ writes \in Nat /\ MaxWrites \in Nat
              /\ b \in Nat /\ h \in Nat
          BY <1>3
        <4> HIDE DEF o, o1, w1
        <4>4. w1 + 2 * b1 <= MaxWrites + h1
          BY <2>2, <4>1, <4>2, <4>3
        <4> QED
          BY <4>4 DEF w1
      <3> QED
        BY <3>1 DEF b1, h1
    <2>6. CASE /\ writes' = writes /\ update[u].pc = "idle" /\ q.pc = "write"
               /\ writes + 2 * Cardinality(Busy) + 2 <= MaxWrites
      <3>1. writes' + 2 * b1 <= MaxWrites + h1
        <4>1. writes + 2 * b + 2 <= MaxWrites
          BY <2>6 DEF b
        <4>2. Owing(q.pc) = 2 /\ Owing(update[u].pc) = 0
          BY <2>6 DEF Owing
        <4> QED
          BY <1>3, <2>2, <2>4, <2>6, <4>1, <4>2
      <3> QED
        BY <3>1 DEF b1, h1
    <2> QED
      BY <2>5, <2>6
  <1>9. \A v \in Updates : Len(update'[v].history) <= writes'
    <2>1. \A v \in Updates : Len(update[v].history) \in Nat /\ Len(update[v].history) <= writes
      BY LearnTypes, HistoryIsSeq DEF LearnInv, UpdateRec, RoomForEntries
    <2> QED
      BY <1>1, <1>3, <2>1
  <1> QED
    BY <1>6, <1>8, <1>9 DEF RoomForEntries

\* An entry is appended to a history.
LEMMA HistoryGrows ==
  ASSUME NEW h \in History, NEW x \in Entry, Len(h) + 1 <= MaxWrites
  PROVE  /\ Append(h, x) \in History /\ Len(Append(h, x)) = Len(h) + 1
         /\ Append(h, x)[Len(h) + 1] = x
         /\ \A i \in DOMAIN h : i \in DOMAIN Append(h, x) /\ Append(h, x)[i] = h[i]
         /\ \A i \in DOMAIN Append(h, x) : i \in DOMAIN h \/ i = Len(h) + 1
         /\ Len(h) + 1 \in DOMAIN Append(h, x)
  <1>1. h \in Seq(Entry) /\ Len(h) \in Nat /\ DOMAIN h = 1..Len(h)
    BY HistoryIsSeq
  <1>2. Append(h, x) \in Seq(Entry) /\ Len(Append(h, x)) = Len(h) + 1
    BY <1>1
  <1>3. Append(h, x) \in History
    BY <1>2, SeqIsHistory
  <1> QED
    BY <1>1, <1>2, <1>3, HistoryIsSeq

\* What has no timestamp stays without.
LEMMA BareStays ==
  ASSUME NEW h \in History, NEW x \in Entry, Len(h) + 1 <= MaxWrites, NEW phase,
         Bare(h, phase) \/ (phase = x.phase /\ ~ x.timestamp)
  PROVE  Bare(Append(h, x), phase)
  BY HistoryGrows DEF Bare

\* What the evaluations have read is not touched.
LEMMA EvalsStay ==
  ASSUME LearnInv, UNCHANGED <<eval, notes, attention, mixed>>,
         flow'.pedagogy = flow.pedagogy, crossed => crossed'
  PROVE  EvalKinds' /\ PedagogyInv' /\ VerdictInv'
  <1>1. \A e \in Evaluations : Unread(e)' <=> Unread(e)
    BY DEF Unread
  <1> QED
    BY <1>1 DEF LearnInv, EvalKinds, PedagogyInv, VerdictInv, Verdict

\* An evaluation begins, in AdvanceWrites or CreateEvent.
LEMMA EvalStarts ==
  ASSUME LearnInv, NEW e \in Evaluations, NEW kind \in {"attention", "phases"},
         Idle(e), eval' = Started(e, kind)
  PROVE  /\ eval' \in [Evaluations -> EvalRec]
         /\ eval'[e].of = kind /\ ~ eval'[e].read
         /\ \A d \in Evaluations : d # e => eval'[d] = eval[d]
  <1>1. eval[e] \in EvalRec /\ eval \in [Evaluations -> EvalRec] /\ ~ eval[e].read
    BY LearnTypes DEF LearnInv, EvalKinds, Idle
  <1>2. eval' = [eval EXCEPT ![e] = [eval[e] EXCEPT !.of = kind]]
    BY DEF Started
  <1>3. [eval[e] EXCEPT !.of = kind] \in EvalRec /\ [eval[e] EXCEPT !.of = kind].of = kind
        /\ [eval[e] EXCEPT !.of = kind].read = eval[e].read
    BY <1>1 DEF EvalRec
  <1> QED
    BY <1>1, <1>2, <1>3

\* The history is as it was; one update has gone on.
LEMMA HistoryStays ==
  ASSUME LearnInv, NEW u \in Updates, NEW q \in UpdateRec,
         update' = [update EXCEPT ![u] = q],
         UNCHANGED <<flow, writes>>, crossed => crossed',
         ~ crossed' => \A v \in Updates \ {u} : ~ Reading(v),
         q.pc \in {"write", "append"} => q.history = flow.history,
         q.pc \in {"again", "append"} => Bare(flow.history, q.phase)
  PROVE  HistoryInv'
  <1>1. /\ update'[u] = q
        /\ \A v \in Updates : v # u => update'[v] = update[v]
    BY UpdateMoves
  <1>2. SUFFICES ASSUME ~ crossed' PROVE HistoryInv'
    BY DEF HistoryInv
  <1>3. \A v \in Updates : Reading(v)' => v = u /\ q.pc \in {"write", "append"}
    BY <1>1, <1>2 DEF Reading
  <1>4. \A phase : Bare(flow.history, phase)' <=> Bare(flow.history, phase)
    BY DEF Bare
  <1> QED
    BY <1>1, <1>2, <1>3 DEF LearnInv, HistoryInv, Bare

LEMMA LearnAdvanceReads ==
  ASSUME LearnInv, NEW u \in Updates, NEW phase \in Phases, NEW over \in BOOLEAN,
         AdvanceReads(u, phase, over)
  PROVE  LearnInv'
  <1> DEFINE q == [pc |-> "write", phase |-> phase, history |-> flow.history,
                   socket |-> over]
  <1>1. q \in UpdateRec /\ q.pc = "write" /\ q.history = flow.history
    BY LearnTypes DEF LearnInv, UpdateRec
  <1>2. update' = [update EXCEPT ![u] = q] /\ update[u].pc = "idle"
        /\ writes + 2 * Cardinality(Busy) + 2 <= MaxWrites
    BY DEF AdvanceReads, Busy
  <1> HIDE DEF q
  <1>3. crossed' = (crossed \/ \E v \in Updates \ {u} : Reading(v))
    BY DEF AdvanceReads
  <1>4. LearningTypeOK'
    BY <1>1, <1>2, <1>3, UpdateMoves
    DEF AdvanceReads, LearnInv, LearningTypeOK, UpdateRec
  <1>5. UNCHANGED <<flow, notes, attention, eval, writes, mixed, losses>>
    BY DEF AdvanceReads
  <1>6. RoomForEntries'
    <2>1. Len(flow.history) <= writes /\ writes \in Nat
      BY LearningAssumption DEF LearnInv, LearningTypeOK, RoomForEntries
    <2>2. writes' = writes /\ writes' \in Nat /\ writes <= writes'
          /\ Len(flow'.history) <= writes' /\ Len(q.history) <= writes'
      BY <1>1, <1>5, <2>1
    <2> QED
      BY <1>1, <1>2, <2>2, RoomMoves
  <1>7. HistoryInv'
    BY <1>1, <1>2, <1>3, <1>5, HistoryStays
  <1>8. EvalKinds' /\ PedagogyInv' /\ VerdictInv'
    BY <1>3, <1>5, EvalsStay
  <1> QED
    BY <1>4, <1>6, <1>7, <1>8 DEF LearnInv

LEMMA LearnGatewayReads ==
  ASSUME LearnInv, NEW u \in Updates, GatewayReadsHistory(u)
  PROVE  LearnInv'
  <1> DEFINE q == [update[u] EXCEPT !.pc = "append", !.history = flow.history]
  <1>1. q \in UpdateRec /\ q.pc = "append" /\ q.history = flow.history
        /\ q.phase = update[u].phase
    BY LearnTypes DEF LearnInv, UpdateRec
  <1>2. update' = [update EXCEPT ![u] = q] /\ update[u].pc = "again"
    BY LearnTypes DEF GatewayReadsHistory, LearnInv
  <1> HIDE DEF q
  <1>3. crossed' = (crossed \/ \E v \in Updates \ {u} : Reading(v))
    BY DEF GatewayReadsHistory
  <1>4. LearningTypeOK'
    BY SMTT(20), ZenonT(40), <1>1, <1>2, <1>3, UpdateMoves
    DEF GatewayReadsHistory, LearnInv, LearningTypeOK, UpdateRec
  <1>5. UNCHANGED <<flow, notes, attention, eval, writes, mixed, losses>>
    BY DEF GatewayReadsHistory
  <1>6. RoomForEntries'
    <2>1. Len(flow.history) <= writes /\ writes \in Nat
      BY LearningAssumption DEF LearnInv, LearningTypeOK, RoomForEntries
    <2>2. writes' = writes /\ writes' \in Nat /\ writes <= writes'
          /\ Len(flow'.history) <= writes' /\ Len(q.history) <= writes'
      BY <1>1, <1>5, <2>1
    <2>3. Owing(q.pc) = 1 /\ Owing(update[u].pc) = 1
      BY <1>1, <1>2 DEF Owing
    <2>4. writes' + Owing(q.pc) <= writes + Owing(update[u].pc)
      BY <2>1, <2>2, <2>3
    <2> QED
      BY <1>1, <1>2, <2>2, <2>4, RoomMoves
  <1>7. HistoryInv'
    <2>1. ~ crossed' => Bare(flow.history, q.phase)
      BY <1>1, <1>2, <1>3 DEF LearnInv, HistoryInv
    <2>2. CASE crossed'
      BY <2>2 DEF HistoryInv
    <2>3. CASE ~ crossed'
      BY <1>1, <1>2, <1>3, <1>5, <2>1, <2>3, HistoryStays
    <2> QED
      BY <2>2, <2>3
  <1>8. EvalKinds' /\ PedagogyInv' /\ VerdictInv'
    BY <1>3, <1>5, EvalsStay
  <1> QED
    BY <1>4, <1>6, <1>7, <1>8 DEF LearnInv

\* An update writes what it has read with one entry more.  It has a timestamp only
\* if the update is the gateway's, which has written one without before.
LEMMA EntryWritten ==
  ASSUME LearnInv, NEW u \in Updates, NEW q \in UpdateRec, NEW stamped \in BOOLEAN,
         WritesPhase(u, stamped), update' = [update EXCEPT ![u] = q],
         UNCHANGED <<crossed, notes, attention, mixed, losses>>,
         q.history \in {update[u].history, <<>>},
         \/ /\ update[u].pc = "write" /\ ~ stamped /\ q.pc = "again"
            /\ q.phase = update[u].phase
         \/ update[u].pc = "write" /\ ~ stamped /\ q.pc = "idle"
         \/ update[u].pc = "append" /\ stamped /\ q.pc = "idle"
  PROVE  /\ flow' \in [phase: Phases, history: History, pedagogy: Pedagogy \union {"none"},
                       over: BOOLEAN]
         /\ flow'.pedagogy = flow.pedagogy
         /\ writes' \in 0..MaxWrites
         /\ RoomForEntries' /\ HistoryInv'
  <1> DEFINE x == [phase |-> update[u].phase, timestamp |-> stamped]
             g == update[u].history
  <1>1. /\ update'[u] = q
        /\ \A v \in Updates : v # u => update'[v] = update[v]
    BY UpdateMoves
  <1>2. update[u] \in UpdateRec /\ g \in History /\ flow.history \in History
    BY LearnTypes DEF LearnInv, UpdateRec
  <1>3. x \in Entry /\ x.phase = update[u].phase /\ x.timestamp = stamped
    BY <1>2 DEF Entry, UpdateRec
  <1>4. writes + 1 <= MaxWrites /\ writes \in Nat /\ writes' = writes + 1
    <2>1. u \in Busy
      BY DEF Busy
    <2> QED
      BY <2>1, EntriesLeft DEF WritesPhase
  <1>5. Len(g) \in Nat /\ Len(g) <= writes /\ Len(g) + 1 <= MaxWrites
    <2>1. Len(g) \in Nat /\ Len(g) <= writes
      BY <1>2, HistoryIsSeq DEF LearnInv, RoomForEntries
    <2> QED
      BY <1>4, <2>1, LearningAssumption
  <1>6. flow' \in [phase: Phases, history: History, pedagogy: Pedagogy \union {"none"},
                   over: BOOLEAN]
        /\ flow'.pedagogy = flow.pedagogy /\ flow'.history = Append(g, x)
    <2>1. Append(g, x) \in History
      BY <1>2, <1>3, <1>5, HistoryGrows
    <2>2. flow' = [flow EXCEPT !.phase = update[u].phase, !.history = Append(g, x)]
      BY DEF WritesPhase, Longer
    <2> HIDE DEF g, x
    <2> QED
      BY <1>2, <2>1, <2>2 DEF LearnInv, LearningTypeOK, UpdateRec
  <1> HIDE DEF x, g
  <1>7. writes' \in 0..MaxWrites
    BY <1>4, LearningAssumption
  <1>8. RoomForEntries'
    <2>1. Len(flow'.history) = Len(g) + 1
      BY <1>2, <1>3, <1>5, <1>6, HistoryGrows
    <2>2. q.history = g \/ q.history = <<>>
      BY DEF g
    <2>3. Len(flow'.history) <= writes' /\ Len(q.history) <= writes' /\ writes <= writes'
          /\ writes' \in Nat
      BY <1>4, <1>5, <2>1, <2>2
    <2>4. writes' + Owing(q.pc) <= writes + Owing(update[u].pc)
      <3>1. \/ Owing(update[u].pc) = 2 /\ Owing(q.pc) = 1
            \/ Owing(update[u].pc) = 2 /\ Owing(q.pc) = 0
            \/ Owing(update[u].pc) = 1 /\ Owing(q.pc) = 0
        BY DEF Owing
      <3> QED
        BY <1>4, <3>1
    <2> QED
      BY <2>3, <2>4, RoomMoves
  <1>9. HistoryInv'
    <2> SUFFICES ASSUME ~ crossed PROVE HistoryInv'
      BY DEF HistoryInv
    <2>1. Reading(u) /\ \A v \in Updates : Reading(v) => v = u
      BY DEF Reading, LearnInv, HistoryInv
    <2>2. g = flow.history /\ Len(g) = writes
      BY <2>1 DEF g, LearnInv, HistoryInv
    <2>3. Len(flow'.history) = writes'
      BY <1>2, <1>3, <1>4, <1>5, <1>6, <2>2, HistoryGrows
    <2>4. \A v \in Updates : ~ Reading(v)'
      BY <1>1, <2>1 DEF Reading
    <2>5. Bare(flow'.history, x.phase)
      <3>1. Bare(g, x.phase) \/ ~ x.timestamp
        BY <1>3, <2>2 DEF LearnInv, HistoryInv
      <3> QED
        BY <1>2, <1>3, <1>5, <1>6, <3>1, BareStays
    <2>6. \A phase : Bare(g, phase) => Bare(flow'.history, phase)
      BY <1>2, <1>3, <1>5, <1>6, BareStays
    <2>7. \A i \in DOMAIN flow'.history : Bare(flow'.history, flow'.history[i].phase)
      <3> TAKE i \in DOMAIN flow'.history
      <3>1. (i \in DOMAIN g /\ flow'.history[i] = g[i]) \/ flow'.history[i] = x
        BY <1>2, <1>3, <1>5, <1>6, HistoryGrows
      <3>2. i \in DOMAIN g => Bare(g, g[i].phase)
        BY <2>2 DEF LearnInv, HistoryInv
      <3> QED
        BY <2>5, <2>6, <3>1, <3>2
    <2>8. \A v \in Updates : update'[v].pc \in {"again", "append"}
                             => Bare(flow'.history, update'[v].phase)
      <3> TAKE v \in Updates
      <3>1. CASE v = u
        BY <1>1, <1>3, <2>5, <3>1
      <3>2. CASE v # u
        BY <1>1, <2>2, <2>6, <3>2 DEF LearnInv, HistoryInv
      <3> QED
        BY <3>1, <3>2
    <2> QED
      BY <2>3, <2>4, <2>7, <2>8 DEF HistoryInv, Bare
  <1> QED
    BY <1>6, <1>7, <1>8, <1>9

LEMMA LearnAdvanceWrites ==
  ASSUME LearnInv, NEW u \in Updates, NEW e \in Evaluations, AdvanceWrites(u, e)
  PROVE  LearnInv'
  <1> DEFINE q == IF update[u].socket THEN [update[u] EXCEPT !.pc = "again"] ELSE NoUpdate
  <1>1. update[u] \in UpdateRec
    BY LearnTypes DEF LearnInv
  <1>2. q \in UpdateRec /\ q.history \in {update[u].history, <<>>}
        /\ ((q.pc = "again" /\ q.phase = update[u].phase) \/ q.pc = "idle")
    BY <1>1, NothingNoted DEF UpdateRec
  <1>3. update' = [update EXCEPT ![u] = q]
    BY LearnTypes DEF AdvanceWrites, LearnInv
  <1> HIDE DEF q
  <1>4. flow' \in [phase: Phases, history: History, pedagogy: Pedagogy \union {"none"},
                   over: BOOLEAN]
        /\ flow'.pedagogy = flow.pedagogy /\ writes' \in 0..MaxWrites
        /\ RoomForEntries' /\ HistoryInv'
    BY <1>2, <1>3, EntryWritten DEF AdvanceWrites
  <1>5. eval' \in [Evaluations -> EvalRec] /\ eval'[e].of = "phases" /\ ~ eval'[e].read
        /\ \A d \in Evaluations : d # e => eval'[d] = eval[d]
    BY EvalStarts DEF AdvanceWrites
  <1>6. UNCHANGED <<notes, attention, crossed, mixed, losses>>
    BY DEF AdvanceWrites
  <1>7. LearningTypeOK'
    BY <1>2, <1>3, <1>4, <1>5, <1>6, UpdateMoves
    DEF LearnInv, LearningTypeOK, UpdateRec, EvalRec
  <1>8. eval[e].of = "none"
    BY DEF AdvanceWrites, Idle
  <1>9. \A d \in Evaluations : Unread(d)' <=> Unread(d)
    BY <1>5, <1>8 DEF Unread
  <1>10. EvalKinds' /\ PedagogyInv' /\ VerdictInv'
    BY <1>4, <1>5, <1>6, <1>8, <1>9
    DEF LearnInv, EvalKinds, PedagogyInv, VerdictInv, Verdict
  <1> QED
    BY <1>4, <1>7, <1>10 DEF LearnInv

LEMMA LearnGatewayAppends ==
  ASSUME LearnInv, NEW u \in Updates, GatewayAppends(u)
  PROVE  LearnInv'
  <1>1. flow' \in [phase: Phases, history: History, pedagogy: Pedagogy \union {"none"},
                   over: BOOLEAN]
        /\ flow'.pedagogy = flow.pedagogy /\ writes' \in 0..MaxWrites
        /\ RoomForEntries' /\ HistoryInv'
    BY NothingNoted, EntryWritten DEF GatewayAppends
  <1>2. update' \in [Updates -> UpdateRec]
    BY NothingNoted, UpdateMoves DEF GatewayAppends
  <1>3. UNCHANGED <<notes, attention, eval, crossed, mixed, losses>>
    BY DEF GatewayAppends
  <1>4. LearningTypeOK'
    BY <1>1, <1>2, <1>3 DEF LearnInv, LearningTypeOK, UpdateRec
  <1>5. EvalKinds' /\ PedagogyInv' /\ VerdictInv'
    BY <1>1, <1>3, EvalsStay
  <1> QED
    BY <1>1, <1>4, <1>5 DEF LearnInv

LEMMA LearnLessonEnds ==
  ASSUME LearnInv, LessonEnds
  PROVE  LearnInv'
  <1>1. flow' \in [phase: Phases, history: History, pedagogy: Pedagogy \union {"none"},
                   over: BOOLEAN]
        /\ flow'.pedagogy = flow.pedagogy /\ flow'.history = flow.history
    BY DEF LessonEnds, LearnInv, LearningTypeOK
  <1>2. UNCHANGED <<notes, attention, update, eval, writes, crossed, mixed, losses>>
    BY DEF LessonEnds
  <1>3. LearningTypeOK'
    BY <1>1, <1>2 DEF LearnInv, LearningTypeOK
  <1>4. RoomForEntries' /\ HistoryInv'
    BY <1>1, <1>2 DEF LearnInv, RoomForEntries, Busy, Half, HistoryInv, Bare, Reading
  <1>5. EvalKinds' /\ PedagogyInv' /\ VerdictInv'
    BY <1>1, <1>2, EvalsStay
  <1> QED
    BY <1>3, <1>4, <1>5 DEF LearnInv

\* The updates and the history are not touched.
LEMMA UpdatesStay ==
  ASSUME LearnInv, UNCHANGED <<update, writes, crossed>>, flow'.history = flow.history
  PROVE  RoomForEntries' /\ HistoryInv'
  BY DEF LearnInv, RoomForEntries, Busy, Half, HistoryInv, Bare, Reading

LEMMA LearnCreateEvent ==
  ASSUME LearnInv, NEW n \in Notes, NEW e \in Evaluations, CreateEvent(n, e)
  PROVE  LearnInv'
  <1>1. notes' \in Counts
    <2>1. notes \in Counts /\ notes[n] + 1 \in 0..MaxNotes
      BY LearningAssumption DEF LearnInv, LearningTypeOK, Counts, CreateEvent
    <2>2. notes' = [notes EXCEPT ![n] = notes[n] + 1]
      BY DEF CreateEvent
    <2> QED
      BY <2>1, <2>2 DEF Counts
  <1>2. eval' \in [Evaluations -> EvalRec] /\ eval'[e].of = "attention" /\ ~ eval'[e].read
        /\ \A d \in Evaluations : d # e => eval'[d] = eval[d]
    BY EvalStarts DEF CreateEvent
  <1>3. UNCHANGED <<flow, attention, update, writes, crossed, mixed, losses>>
    BY DEF CreateEvent
  <1>4. LearningTypeOK'
    BY <1>1, <1>2, <1>3 DEF LearnInv, LearningTypeOK, EvalRec
  <1>5. RoomForEntries' /\ HistoryInv'
    BY <1>3, UpdatesStay
  <1>6. EvalKinds' /\ PedagogyInv'
    BY <1>2, <1>3 DEF LearnInv, EvalKinds, PedagogyInv
  <1>7. VerdictInv'
    <2>1. Unread(e)'
      BY <1>2 DEF Unread
    <2> QED
      BY <1>2, <1>3, <2>1 DEF LearnInv, VerdictInv
  <1> QED
    BY <1>4, <1>5, <1>6, <1>7 DEF LearnInv

\* The rules about the time spent teaching do not speak as long as every phase has
\* an entry without a timestamp.
LEMMA JudgementSilent ==
  /\ Judgement \subseteq Pedagogy
  /\ (\A i \in DOMAIN flow.history : Bare(flow.history, flow.history[i].phase))
     => "NEEDS_IMPROVEMENT" \notin Judgement
  <1>1. Judgement \subseteq Pedagogy
    BY DEF Judgement, Pedagogy
  <1>2. ASSUME \A i \in DOMAIN flow.history : Bare(flow.history, flow.history[i].phase)
        PROVE  ~ (Has("MICRO_TEACH") /\ Timed("MICRO_TEACH"))
    BY <1>2 DEF Has, Timed, Bare
  <1> QED
    BY <1>1, <1>2 DEF Judgement

\* An evaluation has read the row: it knows what is in it.
LEMMA LearnEvaluationReads ==
  ASSUME LearnInv, NEW e \in Evaluations, EvaluationReads(e)
  PROVE  LearnInv'
  <1>1. eval[e] \in EvalRec /\ eval \in [Evaluations -> EvalRec]
        /\ notes \in Counts /\ attention.meta \in Meta
    BY LearnTypes DEF LearnInv, LearningTypeOK
  <1>2. PICK v \in Verdicts \union Pedagogy, m \in Meta :
           /\ eval' = [eval EXCEPT ![e].read = TRUE, ![e].verdict = v, ![e].meta = m]
           /\ \/ /\ eval[e].of = "attention" /\ v = Verdict(notes) /\ v \in Verdicts
                 /\ m.scores = notes
              \/ /\ eval[e].of = "phases" /\ v \in Judgement
                 /\ m.scores = attention.meta.scores
    <2>1. CASE eval[e].of = "attention"
                /\ eval' = [eval EXCEPT ![e].read = TRUE, ![e].verdict = Verdict(notes),
                                        ![e].meta = Scored]
      <3>1. Verdict(notes) \in Verdicts /\ Scored \in Meta /\ Scored.scores = notes
        BY <1>1 DEF Verdict, Verdicts, Scored, Meta, Pedagogy
      <3> QED
        BY <2>1, <3>1
    <2>2. ASSUME eval[e].of = "phases", NEW v \in Judgement,
                 eval' = [eval EXCEPT ![e].read = TRUE, ![e].verdict = v,
                                      ![e].meta = [attention.meta EXCEPT !.alerts = v]]
          PROVE  \E w \in Verdicts \union Pedagogy, m \in Meta :
                    /\ eval' = [eval EXCEPT ![e].read = TRUE, ![e].verdict = w,
                                            ![e].meta = m]
                    /\ w \in Judgement /\ m.scores = attention.meta.scores
      <3> DEFINE m == [attention.meta EXCEPT !.alerts = v]
      <3>1. v \in Pedagogy
        BY JudgementSilent
      <3>2. m \in Meta /\ m.scores = attention.meta.scores
        BY <1>1, <3>1 DEF Meta
      <3> QED
        BY <2>2, <3>1, <3>2
    <2> QED
      BY <2>1, <2>2 DEF EvaluationReads
  <1> DEFINE q == [eval[e] EXCEPT !.read = TRUE, !.verdict = v, !.meta = m]
  <1>3. q \in EvalRec /\ q.of = eval[e].of /\ q.read = TRUE /\ q.verdict = v /\ q.meta = m
    BY <1>1 DEF EvalRec
  <1>4. eval' = [eval EXCEPT ![e] = q]
    BY <1>1, <1>2
  <1> HIDE DEF q
  <1>5. eval' \in [Evaluations -> EvalRec] /\ eval'[e] = q
        /\ \A d \in Evaluations : d # e => eval'[d] = eval[d]
    BY <1>1, <1>3, <1>4
  <1>6. UNCHANGED <<flow, notes, attention, update, writes, crossed, losses>>
        /\ mixed' = (mixed \/ \E d \in Evaluations \ {e} : eval[d].read)
    BY DEF EvaluationReads
  <1>7. LearningTypeOK'
    BY <1>5, <1>6 DEF LearnInv, LearningTypeOK, EvalRec
  <1>8. RoomForEntries' /\ HistoryInv'
    BY <1>6, UpdatesStay
  <1>9. EvalKinds'
    <2>1. v \in Judgement => v \in Pedagogy
      BY JudgementSilent
    <2> QED
      BY <1>2, <1>3, <1>5, <2>1 DEF LearnInv, EvalKinds
  <1>10. PedagogyInv'
    <2>1. ~ crossed /\ eval[e].of = "phases" => v # "NEEDS_IMPROVEMENT"
      BY <1>2, JudgementSilent DEF LearnInv, HistoryInv
    <2> QED
      BY <1>3, <1>5, <1>6, <2>1 DEF LearnInv, PedagogyInv
  <1>11. VerdictInv'
    <2> SUFFICES ASSUME ~ mixed' PROVE VerdictInv'
      BY DEF VerdictInv
    <2>1. \A d \in Evaluations : eval'[d].read <=> d = e
      BY <1>3, <1>5, <1>6
    <2>2. \A d \in Evaluations : eval'[d].of = eval[d].of
      BY <1>3, <1>5
    <2>3. Verdict(notes)' = Verdict(notes) /\ ~ mixed
      BY <1>6 DEF Verdict
    <2>4. eval[e].of = "attention" => q.verdict = Verdict(notes) /\ q.meta.scores = notes
      BY <1>2, <1>3
    <2>5. eval[e].of = "phases" => q.meta.scores = attention.meta.scores
      BY <1>2, <1>3
    <2>6. (\A d \in Evaluations : eval[d].of # "attention") /\ attention.status # "none"
          => attention.status = Verdict(notes) /\ attention.meta.scores = notes
      BY <2>3 DEF LearnInv, VerdictInv
    <2> QED
      BY <1>3, <1>5, <1>6, <2>1, <2>2, <2>3, <2>4, <2>5, <2>6 DEF VerdictInv
  <1> QED
    BY <1>7, <1>8, <1>9, <1>10, <1>11 DEF LearnInv

\* It writes: nobody else has read, so nothing it knew has changed.
LEMMA LearnEvaluationWrites ==
  ASSUME LearnInv, NEW e \in Evaluations, EvaluationWrites(e)
  PROVE  LearnInv'
  <1>1. eval[e] \in EvalRec /\ eval \in [Evaluations -> EvalRec] /\ eval[e].read
    BY LearnTypes DEF LearnInv, EvaluationWrites
  <1>2. eval' \in [Evaluations -> EvalRec] /\ eval'[e] = NoEval
        /\ \A d \in Evaluations : d # e => eval'[d] = eval[d]
    BY <1>1, NothingNoted DEF EvaluationWrites
  <1>3. UNCHANGED <<notes, update, writes, crossed, mixed, losses>>
    BY DEF EvaluationWrites
  <1>4. /\ attention' \in [status: Verdicts \union {"none"}, meta: Meta]
        /\ attention'.meta = eval[e].meta
        /\ eval[e].of = "attention" => attention'.status = eval[e].verdict /\ flow' = flow
        /\ eval[e].of = "phases" => /\ attention'.status = attention.status
                                    /\ flow'.pedagogy = eval[e].verdict
        /\ flow' \in [phase: Phases, history: History, pedagogy: Pedagogy \union {"none"},
                      over: BOOLEAN]
        /\ flow'.history = flow.history
    <2>1. CASE eval[e].of = "attention"
      BY <1>1, <2>1 DEF EvaluationWrites, EvalRec, LearnInv, LearningTypeOK, EvalKinds
    <2>2. CASE eval[e].of = "phases"
      <3>1. eval[e].verdict \in Pedagogy /\ eval[e].meta \in Meta
        BY <1>1, <2>2 DEF LearnInv, EvalKinds, EvalRec
      <3>2. attention' = [attention EXCEPT !.meta = eval[e].meta]
            /\ flow' = [flow EXCEPT !.pedagogy = eval[e].verdict]
        BY <2>2 DEF EvaluationWrites
      <3> QED
        BY <2>2, <3>1, <3>2 DEF LearnInv, LearningTypeOK
    <2> QED
      BY <2>1, <2>2 DEF EvaluationWrites
  <1>5. LearningTypeOK'
    BY <1>2, <1>3, <1>4 DEF LearnInv, LearningTypeOK, EvalRec
  <1>6. RoomForEntries' /\ HistoryInv'
    BY <1>3, <1>4, UpdatesStay
  <1>7. EvalKinds'
    BY <1>2, NothingNoted DEF LearnInv, EvalKinds
  <1>8. eval[e].of = "attention" \/ eval[e].of = "phases"
    BY <1>1 DEF LearnInv, EvalKinds
  <1>9. PedagogyInv'
    BY <1>1, <1>2, <1>3, <1>4, <1>8, NothingNoted DEF LearnInv, PedagogyInv
  <1>10. VerdictInv'
    <2> SUFFICES ASSUME ~ mixed PROVE VerdictInv'
      BY <1>3 DEF VerdictInv
    <2>1. \A d \in Evaluations : ~ eval'[d].read
      BY <1>1, <1>2, NothingNoted DEF LearnInv, VerdictInv
    <2>2. ASSUME \A d \in Evaluations : eval'[d].of # "attention",
                 attention'.status # "none"
          PROVE  attention'.status = Verdict(notes) /\ attention'.meta.scores = notes
      <3>1. \A d \in Evaluations : d # e => eval[d].of # "attention"
        BY <1>2, <2>2
      <3>2. \A d \in Evaluations : ~ Unread(d)
        BY <1>1, <3>1 DEF Unread
      <3>3. CASE eval[e].of = "attention"
        BY <1>1, <1>4, <3>2, <3>3 DEF LearnInv, VerdictInv
      <3>4. CASE eval[e].of = "phases"
        BY <1>1, <1>4, <2>2, <3>1, <3>4 DEF LearnInv, VerdictInv
      <3> QED
        BY <1>8, <3>3, <3>4
    <2> QED
      BY <1>3, <2>1, <2>2 DEF VerdictInv, Verdict
  <1> QED
    BY <1>5, <1>6, <1>7, <1>9, <1>10 DEF LearnInv

LEMMA LearnEvaluationFails ==
  ASSUME LearnInv, NEW e \in Evaluations, EvaluationFails(e)
  PROVE  LearnInv'
  <1>1. eval' \in [Evaluations -> EvalRec] /\ eval'[e] = NoEval
        /\ \A d \in Evaluations : d # e => eval'[d] = eval[d]
    BY LearnTypes, NothingNoted DEF LearnInv, EvaluationFails
  <1>2. UNCHANGED <<flow, notes, attention, update, writes, crossed>> /\ mixed' = TRUE
    BY DEF EvaluationFails
  <1>3. losses' \in 0..MaxLosses
    BY LearningAssumption DEF LearnInv, LearningTypeOK, EvaluationFails
  <1>4. LearningTypeOK'
    BY <1>1, <1>2, <1>3 DEF LearnInv, LearningTypeOK, EvalRec
  <1>5. RoomForEntries' /\ HistoryInv'
    BY <1>2, UpdatesStay
  <1>6. EvalKinds' /\ PedagogyInv' /\ VerdictInv'
    BY <1>1, <1>2, NothingNoted DEF LearnInv, EvalKinds, PedagogyInv, VerdictInv
  <1> QED
    BY <1>4, <1>5, <1>6 DEF LearnInv

LEMMA LearnNext ==
  ASSUME LearnInv, [LearningNext]_learningVars
  PROVE  LearnInv'
  <1>1. CASE UNCHANGED learningVars
    <2>1. LearningTypeOK'
      BY <1>1 DEF learningVars, LearnInv, LearningTypeOK
    <2>2. RoomForEntries' /\ HistoryInv'
      BY <1>1, UpdatesStay DEF learningVars
    <2>3. EvalKinds' /\ PedagogyInv' /\ VerdictInv'
      BY <1>1, EvalsStay DEF learningVars
    <2> QED
      BY <2>1, <2>2, <2>3 DEF LearnInv
  <1>2. CASE LearningNext
    BY <1>2, LearnAdvanceReads, LearnAdvanceWrites, LearnGatewayReads,
       LearnGatewayAppends, LearnLessonEnds, LearnCreateEvent, LearnEvaluationReads,
       LearnEvaluationWrites, LearnEvaluationFails
    DEF LearningNext, Advancing
  <1> QED
    BY <1>1, <1>2

LEMMA LearnHolds == LearningSpec => []LearnInv
  BY LearnInit, LearnNext, PTL DEF LearningSpec

\* What is noted has its type; in particular the history never outgrows its bound.
THEOREM LearningTyped == LearningSpec => []LearningTypeOK
  <1>1. LearnInv => LearningTypeOK
    BY DEF LearnInv
  <1> QED
    BY <1>1, LearnHolds, PTL

\* Between evaluations the verdict on attention is that of all events so far, no
\* phase is lost from the history, and the rules about the time spent teaching
\* never speak, unless two updates or two evaluations have crossed or one has failed
\* (advancePhase, the gateway's append, createEvent and the evaluations).
THEOREM LessonRecorded == LearningSpec => []LessonIsRecorded
  <1>1. LearnInv => LessonIsRecorded
    <2> SUFFICES ASSUME LearnInv PROVE LessonIsRecorded
      OBVIOUS
    <2>1. VerdictIsCurrent
      BY DEF LearnInv, VerdictInv, VerdictIsCurrent, Settled, Idle
    <2>2. PhasesAreKept
      BY DEF LearnInv, HistoryInv, PedagogyInv, PhasesAreKept
    <2> QED
      BY <2>1, <2>2 DEF LessonIsRecorded
  <1> QED
    BY <1>1, LearnHolds, PTL

-----------------------------------------------------------------------------
(* Part 4: the attendance of one student.  As long as no two marks overlap, *)
(* a mark that is to be written knows the row as it is.  What the row       *)
(* stands for is bounded from above by the time since the first join, and   *)
(* from below by its part before the scheduled end.                         *)

Since == IF presence.first = Never THEN 0 ELSE tick - presence.first

\* A row that is not there has no interval; she joined in the past.
RowExists ==
    /\ ~ presence.exists => row.joined = Never
    /\ presence.first # Never => presence.first <= tick

MarksFresh == ~ presence.overlap =>
    /\ \A k, l \in Marks : mark[k] # NoMark /\ mark[l] # NoMark => k = l
    /\ \A k \in Marks :
          /\ mark[k].do = "present" => mark[k].joined = OpenAnchor
          /\ mark[k].do \in {"left", "finalize"} =>
               mark[k].joined = row.joined /\ mark[k].minutes = row.minutes
               /\ row.left = Never

Counting == ~ presence.overlap /\ ~ row.marked =>
    /\ row.joined # Never => /\ presence.first # Never
                             /\ presence.first <= row.joined /\ row.joined <= tick
    /\ ~ presence.early => Credit <= presence.closed + Since

Undisturbed == ~ presence.overlap /\ ~ presence.foreign /\ ~ row.marked

\* What the row stands for before the scheduled end: closing the interval at that
\* end does not take it away.
Usable == IF tick < ScheduledEnd THEN tick ELSE ScheduledEnd
Secured == 2 * row.minutes +
           IF IntervalOpen /\ row.joined < Usable THEN Usable - row.joined ELSE 0

Lasting == Undisturbed =>
    /\ tracked # {} /\ ~ ended => IntervalOpen \/ \E k \in Marks : mark[k].do = "present"
    /\ \A k \in Marks : /\ mark[k].do = "left" => tracked = {}
                        /\ mark[k].do = "finalize" => ended
    /\ presence.attended <= Secured

AttendInv ==
    AttendanceTypeOK /\ RowExists /\ MarksFresh /\ Counting /\ Lasting

LEMMA NeverIsNoTime == Never \notin Nat /\ \A n \in Nat : n # Never
  BY AttendanceAssumption

LEMMA NoMarkTyped == NoMark \in Mark /\ NoMark.do = "none"
  BY DEF NoMark, Mark

\* The numbers of the row and of the history.
LEMMA AttendTypes ==
  ASSUME AttendanceTypeOK
  PROVE  /\ row \in Row /\ presence \in Presence /\ mark \in [Marks -> Mark]
         /\ tick \in Nat /\ row.minutes \in Nat
         /\ (row.joined \in Nat \/ row.joined = Never)
         /\ (row.left \in Nat \/ row.left = Never)
         /\ (presence.first \in Nat \/ presence.first = Never)
         /\ presence.closed \in Nat /\ presence.attended \in Nat
         /\ presence.exists \in BOOLEAN /\ presence.overlap \in BOOLEAN
         /\ ScheduledEnd \in Nat
  BY AttendanceAssumption DEF AttendanceTypeOK, Row, Presence

LEMMA AttendInit == AttendanceInit => AttendInv
  <1> SUFFICES ASSUME AttendanceInit PROVE AttendInv
    OBVIOUS
  <1>1. NoRow \in Row /\ NoRow.joined = Never /\ NoRow.left = Never /\ NoRow.minutes = 0
        /\ NoRow.marked = FALSE
    BY DEF NoRow, Row
  <1>2. presence \in Presence /\ presence.first = Never /\ presence.attended = 0
        /\ presence.closed = 0
    BY DEF AttendanceInit, Presence
  <1>3. 0 \in 0..LastTick /\ 0 \in 0..MaxJoins /\ 0 \in 0..MaxRestarts
        /\ 0 \in 0..MaxEvents /\ ScheduledEnd \in Nat
    BY AttendanceAssumption
  <1>4. \A k \in Marks : mark[k] = NoMark
    BY DEF AttendanceInit
  <1>5. AttendanceTypeOK
    BY <1>1, <1>2, <1>3, NoMarkTyped DEF AttendanceInit, AttendanceTypeOK
  <1>6. ~ IntervalOpen /\ row = NoRow /\ tracked = {} /\ tick = 0
    BY <1>1 DEF IntervalOpen, AttendanceInit
  <1>7. RowExists /\ MarksFresh
    BY <1>1, <1>2, <1>4, <1>6, NoMarkTyped DEF RowExists, MarksFresh
  <1>8. Counting
    BY <1>1, <1>2, <1>6 DEF Counting, Credit, Since
  <1>9. Lasting
    BY <1>1, <1>2, <1>4, <1>6, NoMarkTyped DEF Lasting, Secured
  <1> QED
    BY <1>5, <1>7, <1>8, <1>9 DEF AttendInv

\* Steps that leave the row, the clock and what was counted alone.
LEMMA RowStays ==
  ASSUME AttendInv, UNCHANGED <<tick, row>>,
         presence'.exists = presence.exists, presence'.first = presence.first,
         presence'.closed = presence.closed, presence'.early = presence.early,
         presence.overlap => presence'.overlap
  PROVE  /\ RowExists' /\ Counting' /\ Secured' = Secured
         /\ (IntervalOpen' <=> IntervalOpen)
  <1>1. IntervalOpen' <=> IntervalOpen
    BY DEF IntervalOpen
  <1>2. Credit' = Credit /\ Since' = Since /\ Secured' = Secured
    BY DEF Credit, Since, Secured, IntervalOpen, Usable
  <1> QED
    BY <1>1, <1>2 DEF AttendInv, RowExists, Counting

\* A mark that begins when there is no other knows the row.
LEMMA MarkBegins ==
  ASSUME AttendInv, NEW k \in Marks, NEW m \in {PresentRead, LeftRead, FinalizeRead},
         MarkReads(k, m), UNCHANGED <<tick, row>>,
         m # PresentRead => row.left = Never,
         ~ presence'.overlap => ~ presence.overlap /\ Marking = {}
  PROVE  /\ mark' \in [Marks -> Mark] /\ MarksFresh'
         /\ mark'[k] = m /\ \A l \in Marks : l # k => mark'[l] = mark[l]
  <1> USE AttendTypes DEF AttendInv
  <1>1. PresentRead \in Mark /\ PresentRead.do = "present"
        /\ PresentRead.joined = OpenAnchor
    BY DEF PresentRead, Mark, OpenAnchor, IntervalOpen
  <1>2. LeftRead \in Mark /\ LeftRead.do = "left" /\ LeftRead.joined = row.joined
        /\ LeftRead.minutes = row.minutes
    BY DEF LeftRead, Mark
  <1>3. FinalizeRead \in Mark /\ FinalizeRead.do = "finalize"
        /\ FinalizeRead.joined = row.joined /\ FinalizeRead.minutes = row.minutes
    BY DEF FinalizeRead, LeftRead, Mark
  <1>4. mark' \in [Marks -> Mark] /\ mark'[k] = m
        /\ \A l \in Marks : l # k => mark'[l] = mark[l]
    BY <1>1, <1>2, <1>3 DEF MarkReads
  <1>5. OpenAnchor' = OpenAnchor
    BY DEF OpenAnchor, IntervalOpen
  <1>6. MarksFresh'
    <2> SUFFICES ASSUME ~ presence'.overlap PROVE MarksFresh'
      BY DEF MarksFresh
    <2>1. \A l \in Marks : l # k => mark'[l] = NoMark
      BY <1>4 DEF Marking
    <2>2. /\ m.do = "present" => m.joined = OpenAnchor
          /\ m.do \in {"left", "finalize"} =>
               m.joined = row.joined /\ m.minutes = row.minutes /\ row.left = Never
      BY <1>1, <1>2, <1>3
    <2> QED
      BY <1>4, <1>5, <2>1, <2>2, NoMarkTyped DEF MarksFresh
  <1> QED
    BY <1>4, <1>6

\* No mark begins.
LEMMA MarksStay ==
  ASSUME AttendInv, UNCHANGED <<tick, row, mark>>, presence.overlap => presence'.overlap
  PROVE  MarksFresh'
  <1>1. OpenAnchor' = OpenAnchor
    BY DEF OpenAnchor, IntervalOpen
  <1> QED
    BY <1>1 DEF AttendInv, MarksFresh

LEMMA PresenceTyped ==
  ASSUME NEW p \in Presence, NEW b \in BOOLEAN
  PROVE  /\ [p EXCEPT !.overlap = b] \in Presence
         /\ [p EXCEPT !.foreign = b] \in Presence
         /\ [p EXCEPT !.foreign = TRUE, !.overlap = b] \in Presence
  BY DEF Presence

\* The history that the bounds of the row are about.
SameHistory ==
    /\ presence' \in Presence
    /\ presence'.exists = presence.exists /\ presence'.first = presence.first
    /\ presence'.closed = presence.closed /\ presence'.early = presence.early
    /\ presence'.attended = presence.attended
    /\ presence.overlap => presence'.overlap
    /\ presence.foreign => presence'.foreign

LEMMA HistoryKept ==
  ASSUME presence \in Presence, NEW b \in BOOLEAN,
         \/ presence' = presence
         \/ presence' = [presence EXCEPT !.overlap = @ \/ b]
         \/ presence' = [presence EXCEPT !.foreign = TRUE]
         \/ presence' = [presence EXCEPT !.foreign = TRUE, !.overlap = @ \/ b]
  PROVE  SameHistory
  <1>1. PICK d \in BOOLEAN : d = (presence.overlap \/ b)
    OBVIOUS
  <1>2. presence' \in Presence
    <2>1. CASE presence' = [presence EXCEPT !.overlap = @ \/ b]
      BY <1>1, <2>1, PresenceTyped
    <2>2. CASE presence' = [presence EXCEPT !.foreign = TRUE, !.overlap = @ \/ b]
      BY <1>1, <2>2, PresenceTyped
    <2>3. CASE presence' = presence \/ presence' = [presence EXCEPT !.foreign = TRUE]
      BY <2>3, PresenceTyped
    <2> QED
      BY <2>1, <2>2, <2>3
  <1> QED
    BY <1>2 DEF SameHistory, Presence

\* A step that leaves the row, the clock and the history of the row alone.
LEMMA QuietStep ==
  ASSUME AttendInv, UNCHANGED <<tick, row>>, SameHistory,
         AttendanceTypeOK', MarksFresh',
         Undisturbed' =>
            /\ tracked' # {} /\ ~ ended' =>
                 IntervalOpen \/ \E k \in Marks : mark'[k].do = "present"
            /\ \A k \in Marks : /\ mark'[k].do = "left" => tracked' = {}
                                /\ mark'[k].do = "finalize" => ended'
  PROVE  AttendInv'
  <1>1. /\ RowExists' /\ Counting' /\ Secured' = Secured
        /\ (IntervalOpen' <=> IntervalOpen)
    BY RowStays DEF SameHistory
  <1>2. Undisturbed' => Undisturbed
    BY DEF Undisturbed, SameHistory
  <1>3. Lasting'
    BY <1>1, <1>2 DEF AttendInv, Lasting, SameHistory
  <1> QED
    BY <1>1, <1>3 DEF AttendInv

LEMMA AttJoinBegins ==
  ASSUME AttendInv, NEW c \in Sockets, JoinBegins(c)
  PROVE  AttendInv'
  <1>1. SameHistory
    BY HistoryKept, AttendTypes DEF AttendInv, JoinBegins
  <1>2. MarksFresh'
    BY MarksStay DEF JoinBegins
  <1>3. AttendanceTypeOK'
    BY AttendanceAssumption DEF AttendInv, AttendanceTypeOK, JoinBegins
  <1>4. Undisturbed' => Undisturbed
    BY DEF Undisturbed, JoinBegins
  <1>5. UNCHANGED <<tick, row, tracked, ended, mark>>
    BY DEF JoinBegins
  <1> QED
    BY <1>1, <1>2, <1>3, <1>4, <1>5, QuietStep DEF AttendInv, Lasting

LEMMA AttJoinCounts ==
  ASSUME AttendInv, NEW c \in Sockets, NEW k \in Marks, NEW connected \in BOOLEAN,
         JoinCounts(c, k, connected)
  PROVE  AttendInv'
  <1>1. SameHistory
    <2>1. presence' = [presence EXCEPT !.overlap = @ \/ Marking # {}]
      BY DEF JoinCounts
    <2>2. (Marking # {}) \in BOOLEAN
      OBVIOUS
    <2> QED
      BY <2>1, <2>2, HistoryKept, AttendTypes DEF AttendInv
  <1>2. ~ presence'.overlap => ~ presence.overlap /\ Marking = {}
    BY AttendTypes DEF AttendInv, JoinCounts, Presence
  <1>3. Undisturbed' => Undisturbed
    BY <1>1 DEF Undisturbed, SameHistory, JoinCounts
  <1>4. UNCHANGED <<tick, row, ended>>
    BY DEF JoinCounts
  <1>5. socket' \in [Sockets -> {"off", "joining", "in"}] /\ tracked' \subseteq Sockets
    BY DEF AttendInv, AttendanceTypeOK, JoinCounts
  <1>6. CASE tracked = {}
    <2>1. MarkReads(k, PresentRead)
      BY <1>6 DEF JoinCounts
    <2>2. /\ mark' \in [Marks -> Mark] /\ MarksFresh'
          /\ mark'[k] = PresentRead /\ \A l \in Marks : l # k => mark'[l] = mark[l]
      BY <2>1, <1>2, <1>4, MarkBegins
    <2>3. Undisturbed' => \A l \in Marks : mark'[l].do \in {"none", "present"}
      BY <1>2, <2>2, NoMarkTyped DEF Undisturbed, PresentRead, Marking
    <2>4. mark'[k].do = "present"
      BY <2>2 DEF PresentRead
    <2>5. AttendanceTypeOK'
      BY <1>1, <1>5, <2>2 DEF AttendInv, AttendanceTypeOK, JoinCounts, SameHistory
    <2> QED
      BY <1>1, <1>4, <2>2, <2>3, <2>4, <2>5, QuietStep
  <1>7. CASE tracked # {}
    <2>1. UNCHANGED mark
      BY <1>7 DEF JoinCounts
    <2>2. MarksFresh'
      BY <2>1, <1>1, <1>4, MarksStay DEF SameHistory
    <2>3. AttendanceTypeOK'
      BY <1>1, <1>5, <2>1 DEF AttendInv, AttendanceTypeOK, JoinCounts, SameHistory
    <2> QED
      BY <1>1, <1>3, <1>4, <1>7, <2>1, <2>2, <2>3, QuietStep DEF AttendInv, Lasting
  <1> QED
    BY <1>6, <1>7

LEMMA AttLeaves ==
  ASSUME AttendInv, NEW c \in Sockets, NEW k \in Marks, Leaves(c, k)
  PROVE  AttendInv'
  <1>1. SameHistory
    <2>1. presence' = [presence EXCEPT
                         !.overlap = @ \/ (tracked = {c} /\ Marking # {})]
      BY DEF Leaves
    <2>2. (tracked = {c} /\ Marking # {}) \in BOOLEAN
      OBVIOUS
    <2> QED
      BY <2>1, <2>2, HistoryKept, AttendTypes DEF AttendInv
  <1>2. ~ presence'.overlap => ~ presence.overlap /\ (tracked = {c} => Marking = {})
    BY AttendTypes DEF AttendInv, Leaves, Presence
  <1>3. Undisturbed' => Undisturbed
    BY <1>1 DEF Undisturbed, SameHistory, Leaves
  <1>4. UNCHANGED <<tick, row, ended>> /\ tracked' = tracked \ {c}
    BY DEF Leaves
  <1>5. socket' \in [Sockets -> {"off", "joining", "in"}] /\ tracked' \subseteq Sockets
    BY DEF AttendInv, AttendanceTypeOK, Leaves
  <1>6. CASE tracked = {c} /\ ToBeClosed
    <2>1. MarkReads(k, LeftRead) /\ row.left = Never
      BY <1>6 DEF Leaves, ToBeClosed
    <2>2. /\ mark' \in [Marks -> Mark] /\ MarksFresh'
          /\ mark'[k] = LeftRead /\ \A l \in Marks : l # k => mark'[l] = mark[l]
      BY <1>6, <2>1, <1>2, <1>4, MarkBegins
    <2>3. Undisturbed' => \A l \in Marks : mark'[l].do \in {"none", "left"}
      BY <1>2, <1>6, <2>2, NoMarkTyped DEF Undisturbed, LeftRead, Marking
    <2>4. AttendanceTypeOK'
      BY <1>1, <1>5, <2>2 DEF AttendInv, AttendanceTypeOK, Leaves, SameHistory
    <2>5. tracked' = {}
      BY <1>4, <1>6
    <2> QED
      BY <1>1, <1>4, <2>2, <2>3, <2>4, <2>5, QuietStep
  <1>7. CASE ~ (tracked = {c} /\ ToBeClosed)
    <2>1. UNCHANGED mark
      BY <1>7 DEF Leaves
    <2>2. MarksFresh'
      BY <2>1, <1>1, <1>4, MarksStay DEF SameHistory
    <2>3. AttendanceTypeOK'
      BY <1>1, <1>5, <2>1 DEF AttendInv, AttendanceTypeOK, Leaves, SameHistory
    <2> QED
      BY <1>1, <1>3, <1>4, <2>1, <2>2, <2>3, QuietStep DEF AttendInv, Lasting
  <1> QED
    BY <1>6, <1>7

LEMMA AttEvicted ==
  ASSUME AttendInv, NEW c \in Sockets, Evicted(c)
  PROVE  AttendInv'
  <1>1. SameHistory
    BY HistoryKept, AttendTypes DEF AttendInv, Evicted
  <1>2. MarksFresh'
    BY <1>1, MarksStay DEF Evicted, SameHistory
  <1>3. AttendanceTypeOK'
    BY <1>1, AttendanceAssumption DEF AttendInv, AttendanceTypeOK, Evicted, SameHistory
  <1>4. ~ Undisturbed'
    BY AttendTypes DEF AttendInv, Undisturbed, Evicted, Presence
  <1>5. UNCHANGED <<tick, row>>
    BY DEF Evicted
  <1> QED
    BY <1>1, <1>2, <1>3, <1>4, <1>5, QuietStep

LEMMA AttServerRestarts ==
  ASSUME AttendInv, ServerRestarts
  PROVE  AttendInv'
  <1>1. SameHistory
    BY HistoryKept, AttendTypes DEF AttendInv, ServerRestarts
  <1>2. \A k \in Marks : mark'[k] = NoMark
    BY DEF ServerRestarts
  <1>3. MarksFresh'
    BY <1>2, NoMarkTyped DEF MarksFresh
  <1>4. AttendanceTypeOK'
    BY NoMarkTyped, AttendanceAssumption
    DEF AttendInv, AttendanceTypeOK, ServerRestarts
  <1>5. UNCHANGED <<tick, row>> /\ tracked' = {}
    BY DEF ServerRestarts
  <1> QED
    BY <1>1, <1>2, <1>3, <1>4, <1>5, NoMarkTyped, QuietStep

LEMMA AttEndSession ==
  ASSUME AttendInv, NEW k \in Marks, EndSession(k)
  PROVE  AttendInv'
  <1>1. SameHistory
    <2>1. presence' = [presence EXCEPT !.overlap = @ \/ Marking # {}]
      BY DEF EndSession
    <2>2. (Marking # {}) \in BOOLEAN
      OBVIOUS
    <2> QED
      BY <2>1, <2>2, HistoryKept, AttendTypes DEF AttendInv
  <1>2. ~ presence'.overlap => ~ presence.overlap /\ Marking = {}
    BY AttendTypes DEF AttendInv, EndSession, Presence
  <1>3. UNCHANGED <<tick, row, tracked>> /\ ended'
    BY DEF EndSession
  <1>4. CASE row.present /\ row.left = Never
    <2>1. MarkReads(k, FinalizeRead)
      BY <1>4 DEF EndSession
    <2>2. /\ mark' \in [Marks -> Mark] /\ MarksFresh'
          /\ mark'[k] = FinalizeRead /\ \A l \in Marks : l # k => mark'[l] = mark[l]
      BY <1>4, <2>1, <1>2, <1>3, MarkBegins
    <2>3. FinalizeRead.do = "finalize"
      BY DEF FinalizeRead, LeftRead
    <2>4. Undisturbed' => \A l \in Marks : mark'[l].do \in {"none", "finalize"}
      BY <1>2, <2>2, <2>3, NoMarkTyped DEF Undisturbed, Marking
    <2>5. AttendanceTypeOK'
      BY <1>1, <2>2, AttendanceAssumption
      DEF AttendInv, AttendanceTypeOK, EndSession, SameHistory, Event
    <2> QED
      BY <1>1, <1>3, <2>2, <2>4, <2>5, QuietStep
  <1>5. CASE ~ (row.present /\ row.left = Never)
    <2>1. UNCHANGED mark
      BY <1>5 DEF EndSession
    <2>2. MarksFresh'
      BY <2>1, <1>1, <1>3, MarksStay DEF SameHistory
    <2>3. AttendanceTypeOK'
      BY <1>1, <2>1, AttendanceAssumption
      DEF AttendInv, AttendanceTypeOK, EndSession, SameHistory, Event
    <2>4. Undisturbed' => Undisturbed
      BY <1>1, <1>3 DEF Undisturbed, SameHistory
    <2> QED
      BY <1>1, <1>3, <2>1, <2>2, <2>3, <2>4, QuietStep DEF AttendInv, Lasting
  <1> QED
    BY <1>4, <1>5

LEMMA AttZoomEvent ==
  ASSUME AttendInv, NEW k \in Marks, ZoomEvent(k)
  PROVE  AttendInv'
  <1>1. SameHistory
    <2>1. presence' = [presence EXCEPT !.foreign = TRUE, !.overlap = @ \/ Marking # {}]
      BY DEF ZoomEvent
    <2>2. (Marking # {}) \in BOOLEAN
      OBVIOUS
    <2> QED
      BY <2>1, <2>2, HistoryKept, AttendTypes DEF AttendInv
  <1>2. ~ presence'.overlap => ~ presence.overlap /\ Marking = {}
    BY AttendTypes DEF AttendInv, ZoomEvent, Presence
  <1>3. UNCHANGED <<tick, row, tracked, ended>>
    BY DEF ZoomEvent
  <1>4. PICK m \in {PresentRead, LeftRead} :
           MarkReads(k, m) /\ (m # PresentRead => row.left = Never)
    BY DEF ZoomEvent, ToBeClosed
  <1>5. mark' \in [Marks -> Mark] /\ MarksFresh'
    BY <1>2, <1>3, <1>4, MarkBegins
  <1>6. AttendanceTypeOK'
    BY <1>1, <1>5, AttendanceAssumption
    DEF AttendInv, AttendanceTypeOK, ZoomEvent, SameHistory, Event
  <1>7. ~ Undisturbed'
    BY AttendTypes DEF AttendInv, Undisturbed, ZoomEvent, Presence
  <1> QED
    BY <1>1, <1>3, <1>5, <1>6, <1>7, QuietStep

\* What is written to the row.
LEMMA RowOpened ==
  ASSUME row \in Row, NEW j \in Nat \union {Never},
         row' = [row EXCEPT !.present = TRUE, !.left = Never, !.joined = j]
  PROVE  /\ row' \in Row /\ row'.minutes = row.minutes /\ row'.marked = row.marked
         /\ row'.joined = j /\ row'.left = Never
  BY DEF Row

LEMMA RowClosed ==
  ASSUME row \in Row, NEW n \in Nat, NEW l \in Nat,
         row' = [row EXCEPT !.left = l, !.minutes = n]
  PROVE  /\ row' \in Row /\ row'.minutes = n /\ row'.marked = row.marked
         /\ row'.joined = row.joined /\ row'.left = l
  BY DEF Row

\* The mark that was read has been written: there is no other one.
LEMMA MarkEnds ==
  ASSUME AttendInv, NEW k \in Marks, mark[k] # NoMark,
         mark' = [mark EXCEPT ![k] = NoMark], presence'.overlap = presence.overlap
  PROVE  /\ mark' \in [Marks -> Mark] /\ MarksFresh'
         /\ ~ presence.overlap => \A l \in Marks : mark'[l] = NoMark
  <1>1. mark' \in [Marks -> Mark] /\ mark'[k] = NoMark
        /\ \A l \in Marks : l # k => mark'[l] = mark[l]
    BY NoMarkTyped, AttendTypes DEF AttendInv
  <1>2. ~ presence.overlap => \A l \in Marks : mark'[l] = NoMark
    BY <1>1 DEF AttendInv, MarksFresh
  <1> QED
    BY <1>1, <1>2, NoMarkTyped DEF MarksFresh

\* The row that a join opens, or opens again.
LEMMA PresentRow ==
  ASSUME AttendInv, NEW k \in Marks, PresentWrites(k)
  PROVE  /\ row' \in Row /\ row'.minutes = row.minutes /\ row'.marked = row.marked
         /\ row'.left = Never
         /\ ~ presence.overlap => row'.joined = OpenAnchor
  <1> USE AttendTypes DEF AttendInv
  <1>1. PICK j \in Nat \union {Never} :
           j = IF presence.exists THEN mark[k].joined ELSE tick
    BY DEF Mark
  <1>2. row' = [row EXCEPT !.present = TRUE, !.left = Never, !.joined = j]
    BY <1>1 DEF PresentWrites
  <1>3. row' \in Row /\ row'.minutes = row.minutes /\ row'.marked = row.marked
        /\ row'.left = Never /\ row'.joined = j
    BY <1>2, RowOpened
  <1>4. ~ presence.overlap => j = OpenAnchor
    <2>1. ~ presence.overlap => mark[k].joined = OpenAnchor
      BY DEF MarksFresh, PresentWrites
    <2>2. ~ presence.exists => OpenAnchor = tick
      BY DEF RowExists, OpenAnchor, IntervalOpen
    <2> QED
      BY <1>1, <2>1, <2>2
  <1> QED
    BY <1>3, <1>4

LEMMA PresentHistory ==
  ASSUME AttendInv, NEW k \in Marks, PresentWrites(k)
  PROVE  /\ presence' \in Presence /\ presence'.exists
         /\ presence'.first = IF presence.first = Never THEN tick ELSE presence.first
         /\ presence'.closed = presence.closed /\ presence'.early = presence.early
         /\ presence'.attended = presence.attended
         /\ presence'.overlap = presence.overlap
         /\ presence'.foreign = presence.foreign
  <1> USE AttendTypes DEF AttendInv
  <1>1. PICK f \in Nat \union {Never} :
           f = IF presence.first = Never THEN tick ELSE presence.first
    OBVIOUS
  <1>2. presence' = [presence EXCEPT !.exists = TRUE, !.first = f]
    BY <1>1 DEF PresentWrites
  <1> QED
    BY <1>1, <1>2 DEF Presence

LEMMA AttPresentWrites ==
  ASSUME AttendInv, NEW k \in Marks, PresentWrites(k)
  PROVE  AttendInv'
  <1>1. /\ row' \in Row /\ row'.minutes = row.minutes /\ row'.marked = row.marked
        /\ row'.left = Never
        /\ ~ presence.overlap => row'.joined = OpenAnchor
    BY PresentRow
  <1>2. /\ presence' \in Presence /\ presence'.exists
        /\ presence'.first = IF presence.first = Never THEN tick ELSE presence.first
        /\ presence'.closed = presence.closed /\ presence'.early = presence.early
        /\ presence'.attended = presence.attended
        /\ presence'.overlap = presence.overlap
        /\ presence'.foreign = presence.foreign
    BY PresentHistory
  <1>3. /\ mark' \in [Marks -> Mark] /\ MarksFresh'
        /\ ~ presence.overlap => \A l \in Marks : mark'[l] = NoMark
    BY <1>2, MarkEnds, NoMarkTyped DEF PresentWrites
  <1>4. AttendanceTypeOK'
    BY <1>1, <1>2, <1>3 DEF AttendInv, AttendanceTypeOK, PresentWrites
  <1>5. UNCHANGED tick /\ tick \in Nat /\ UNCHANGED <<tracked, ended>>
    BY AttendTypes DEF PresentWrites, AttendInv
  <1>6. RowExists'
    BY <1>2, <1>5, AttendTypes DEF AttendInv, RowExists
  <1>7. ~ presence.overlap =>
          /\ (IntervalOpen => row'.joined = row.joined)
          /\ (~ IntervalOpen => row'.joined = tick)
          /\ IntervalOpen' /\ row'.joined \in Nat
    BY <1>1, <1>5, AttendTypes, NeverIsNoTime
    DEF AttendInv, OpenAnchor, IntervalOpen
  <1>8. Counting'
    <2> SUFFICES ASSUME ~ presence.overlap, ~ row.marked PROVE Counting'
      BY <1>1, <1>2 DEF Counting
    <2>1. /\ presence'.first # Never /\ presence'.first <= row'.joined
          /\ row'.joined <= tick
      BY <1>2, <1>5, <1>7, AttendTypes, NeverIsNoTime
      DEF AttendInv, Counting, IntervalOpen, RowExists
    <2>2. Credit' = Credit
      BY <1>1, <1>5, <1>7, AttendTypes DEF AttendInv, Credit
    <2>3. Since' = Since
      BY <1>2, <1>5, AttendTypes, NeverIsNoTime DEF AttendInv, Since
    <2> QED
      BY <1>2, <1>5, <2>1, <2>2, <2>3 DEF AttendInv, Counting
  <1>9. Lasting'
    <2> SUFFICES ASSUME Undisturbed' PROVE Lasting'
      BY DEF Lasting
    <2>1. Undisturbed
      BY <1>1, <1>2 DEF Undisturbed
    <2>2. Secured' = Secured
      BY <2>1, <1>1, <1>5, <1>7, AttendTypes
      DEF AttendInv, Secured, Usable, Undisturbed
    <2> QED
      BY <1>2, <1>3, <1>5, <1>7, <2>1, <2>2, NoMarkTyped
      DEF AttendInv, Lasting, Undisturbed
  <1> QED
    BY <1>3, <1>4, <1>6, <1>8, <1>9 DEF AttendInv

\* Rounding the half minutes to minutes gains one at most and loses none.
LEMMA RoundedIsClose ==
  ASSUME NEW m \in Mark, NEW end \in Nat
  PROVE  /\ Rounded(m, end) \in Nat
         /\ m.joined = Never => Rounded(m, end) = 0
         /\ m.joined # Never =>
              /\ m.joined \in Nat
              /\ end < m.joined => Rounded(m, end) = 0
              /\ end >= m.joined => /\ 2 * Rounded(m, end) >= end - m.joined
                                    /\ 2 * Rounded(m, end) <= end - m.joined + 1
  BY NeverIsNoTime DEF Mark, Rounded

LEMMA ClosedRow ==
  ASSUME AttendInv, NEW k \in Marks, NEW end \in Nat, Closes(k, end)
  PROVE  /\ row' \in Row /\ row'.marked = row.marked /\ row'.joined = row.joined
         /\ row'.left = end /\ row'.minutes = mark[k].minutes + Rounded(mark[k], end)
         /\ presence' \in Presence
         /\ presence'.exists = presence.exists /\ presence'.first = presence.first
         /\ presence'.closed = presence.closed + 1
         /\ (presence'.early <=> presence.early \/ end > tick)
         /\ presence'.attended = presence.attended
         /\ presence'.overlap = presence.overlap
         /\ presence'.foreign = presence.foreign
  <1> USE AttendTypes DEF AttendInv
  <1>1. mark[k] \in Mark
    OBVIOUS
  <1>2. mark[k].minutes \in Nat /\ Rounded(mark[k], end) \in Nat
    BY <1>1, RoundedIsClose DEF Mark
  <1>3. PICK n \in Nat : n = mark[k].minutes + Rounded(mark[k], end)
    BY <1>2
  <1>4. row' = [row EXCEPT !.left = end, !.minutes = n]
    BY <1>3 DEF Closes
  <1>5. row' \in Row /\ row'.marked = row.marked /\ row'.joined = row.joined
        /\ row'.left = end /\ row'.minutes = n
    BY <1>4, RowClosed
  <1>6. PICK b \in BOOLEAN : b <=> (presence.early \/ end > tick)
    OBVIOUS
  <1>7. PICK d \in Nat : d = presence.closed + 1
    OBVIOUS
  <1>8. presence' = [presence EXCEPT !.closed = d, !.early = b]
    BY <1>6, <1>7 DEF Closes, Presence
  <1>9. /\ presence' \in Presence
        /\ presence'.exists = presence.exists /\ presence'.first = presence.first
        /\ presence'.closed = d /\ presence'.early = b
        /\ presence'.attended = presence.attended
        /\ presence'.overlap = presence.overlap
        /\ presence'.foreign = presence.foreign
    BY <1>8 DEF Presence
  <1> QED
    BY <1>3, <1>5, <1>6, <1>7, <1>9

\* The row stands for its minutes at least, and is not worth less as time goes by.
LEMMA WorthOfRow ==
  ASSUME AttendInv, ~ presence.overlap, ~ row.marked
  PROVE  /\ row.joined # Never => row.joined \in Nat /\ row.joined <= tick
         /\ Credit = 2 * row.minutes + IF IntervalOpen THEN tick - row.joined ELSE 0
         /\ Credit >= 2 * row.minutes /\ Credit \in Nat
         /\ Since \in Nat /\ Usable \in Nat /\ Usable <= tick
  <1> USE AttendTypes DEF AttendInv
  <1>1. row.joined # Never => row.joined \in Nat /\ row.joined <= tick
    BY DEF Counting
  <1>2. Since \in Nat
    BY DEF RowExists, Since
  <1>3. Usable \in Nat /\ Usable <= tick
    BY DEF Usable
  <1>4. Credit = 2 * row.minutes + IF IntervalOpen THEN tick - row.joined ELSE 0
    BY DEF Credit
  <1>5. Credit >= 2 * row.minutes /\ Credit \in Nat
    BY <1>1, <1>4 DEF IntervalOpen
  <1> QED
    BY <1>1, <1>2, <1>3, <1>4, <1>5

\* An interval is closed, now or at the scheduled end if that is over: at most
\* half a minute is gained, and none before the scheduled end is lost.
LEMMA AttCloses ==
  ASSUME AttendInv, NEW k \in Marks, mark[k].do \in {"left", "finalize"},
         NEW end \in Nat, end >= Usable, Closes(k, end)
  PROVE  AttendInv'
  <1>1. /\ row' \in Row /\ row'.marked = row.marked /\ row'.joined = row.joined
        /\ row'.left = end /\ row'.minutes = mark[k].minutes + Rounded(mark[k], end)
        /\ presence' \in Presence
        /\ presence'.exists = presence.exists /\ presence'.first = presence.first
        /\ presence'.closed = presence.closed + 1
        /\ (presence'.early <=> presence.early \/ end > tick)
        /\ presence'.attended = presence.attended
        /\ presence'.overlap = presence.overlap
        /\ presence'.foreign = presence.foreign
    BY ClosedRow
  <1>2. /\ mark' \in [Marks -> Mark] /\ MarksFresh'
        /\ ~ presence.overlap => \A l \in Marks : mark'[l] = NoMark
    BY <1>1, MarkEnds, NoMarkTyped DEF Closes
  <1>3. AttendanceTypeOK'
    BY <1>1, <1>2 DEF AttendInv, AttendanceTypeOK, Closes
  <1>4. UNCHANGED <<tick, tracked, ended>>
    BY DEF Closes
  <1>5. RowExists'
    BY <1>1, <1>4 DEF AttendInv, RowExists
  <1>6. ~ IntervalOpen'
    BY <1>1, NeverIsNoTime DEF IntervalOpen
  <1>7. ~ presence.overlap => /\ mark[k].joined = row.joined /\ row.left = Never
                              /\ mark[k].minutes = row.minutes
    BY DEF AttendInv, MarksFresh
  <1> DEFINE r == Rounded(mark[k], end)
             j == row.joined
             n == row.minutes
             c == Credit
             f == Since
             u == Usable
             w == Secured
             n1 == row'.minutes
             c1 == Credit'
             w1 == Secured'
  <1>8. n \in Nat /\ end \in Nat /\ tick \in Nat /\ presence.closed \in Nat
    BY AttendTypes DEF AttendInv
  <1>9. ASSUME ~ presence.overlap
        PROVE  /\ n1 = n + r /\ r \in Nat /\ c1 = 2 * n1 /\ w1 = 2 * n1
               /\ j = Never => r = 0
               /\ j # Never => /\ j \in Nat
                               /\ end < j => r = 0
                               /\ end >= j => /\ 2 * r >= end - j
                                              /\ 2 * r <= end - j + 1
    <2>1. mark[k] \in Mark
      BY AttendTypes DEF AttendInv
    <2>2. n1 = n + r /\ mark[k].joined = j
      BY <1>1, <1>7, <1>9
    <2>3. n1 \in Nat
      BY <1>1 DEF Row
    <2>4. c1 = 2 * n1 /\ w1 = 2 * n1
      BY <1>6, <2>3 DEF Credit, Secured
    <2> QED
      BY <2>1, <2>2, <2>4, RoundedIsClose
  <1>10. ASSUME ~ presence.overlap, ~ row.marked
         PROVE  /\ j # Never => j \in Nat /\ j <= tick
                /\ c = 2 * n + IF j # Never THEN tick - j ELSE 0
                /\ c \in Nat /\ f \in Nat /\ u \in Nat /\ u <= tick
    BY <1>7, <1>10, WorthOfRow DEF IntervalOpen
  <1>11. ASSUME ~ presence.overlap, ~ row.marked, end <= tick
         PROVE  c1 <= c + 1
    <2>1. c1 = 2 * (n + r) /\ r \in Nat
      BY <1>9, <1>11
    <2> HIDE DEF r, j, n, c, f, u, c1, n1, w, w1
    <2>2. CASE j = Never
      BY <1>8, <1>9, <1>10, <1>11, <2>1, <2>2
    <2>3. CASE j # Never
      <3>1. j \in Nat /\ j <= tick /\ c = 2 * n + (tick - j)
        BY <1>10, <1>11, <2>3
      <3>2. 2 * r <= tick - j + 1
        BY <1>8, <1>9, <1>11, <2>3, <3>1
      <3> QED
        BY <1>8, <2>1, <3>1, <3>2
    <2> QED
      BY <2>2, <2>3
  <1>12. ASSUME ~ presence.overlap, ~ row.marked
         PROVE  w <= w1
    <2>1. w1 = 2 * (n + r) /\ r \in Nat
      BY <1>9, <1>12
    <2>2. w = 2 * n + IF j # Never /\ j < u THEN u - j ELSE 0
      BY <1>7, <1>12 DEF Secured, IntervalOpen
    <2>3. u \in Nat /\ end >= u
      BY <1>10, <1>12
    <2> HIDE DEF r, j, n, c, f, u, c1, n1, w, w1
    <2>4. CASE j # Never /\ j < u
      <3>1. j \in Nat /\ 2 * r >= end - j
        BY <1>8, <1>9, <1>12, <2>3, <2>4
      <3> QED
        BY <1>8, <2>1, <2>2, <2>3, <2>4, <3>1
    <2>5. CASE ~ (j # Never /\ j < u)
      BY <1>8, <2>1, <2>2, <2>5
    <2> QED
      BY <2>4, <2>5
  <1>13. Counting'
    <2> SUFFICES ASSUME ~ presence.overlap, ~ row.marked PROVE Counting'
      BY <1>1 DEF Counting
    <2>1. Since' = Since
      BY <1>1, <1>4 DEF Since
    <2>2. ASSUME ~ presence'.early
          PROVE  Credit' <= presence'.closed + Since'
      <3>1. ~ presence.early /\ end <= tick
        BY <1>1, <1>8, <2>2
      <3>2. c <= presence.closed + f
        BY <3>1 DEF AttendInv, Counting
      <3>3. c1 <= c + 1
        BY <1>11, <3>1
      <3>4. c1 \in Nat /\ c \in Nat /\ f \in Nat
        BY <1>9, <1>10, <1>8
      <3> HIDE DEF c, c1, f
      <3>5. c1 <= (presence.closed + 1) + f
        BY <1>8, <3>2, <3>3, <3>4
      <3> QED
        BY <1>1, <2>1, <3>5 DEF c1, f
    <2> QED
      BY <1>1, <1>4, <2>2 DEF AttendInv, Counting
  <1>14. Lasting'
    <2> SUFFICES ASSUME Undisturbed' PROVE Lasting'
      BY DEF Lasting
    <2>1. Undisturbed
      BY <1>1 DEF Undisturbed
    <2>2. tracked = {} \/ ended
      BY <2>1 DEF AttendInv, Lasting
    <2>3. presence'.attended <= Secured'
      <3>1. presence.attended <= w /\ w <= w1
        BY <1>12, <2>1 DEF AttendInv, Lasting, Undisturbed
      <3>2. presence.attended \in Nat /\ w1 \in Nat /\ w \in Int
        <4>1. presence.attended \in Nat
          BY AttendTypes DEF AttendInv
        <4>2. w1 \in Nat
          BY <1>8, <1>9, <2>1 DEF Undisturbed
        <4>3. w \in Int
          BY <1>8, <1>10, <2>1, <1>7 DEF Undisturbed, Secured, IntervalOpen
        <4> QED
          BY <4>1, <4>2, <4>3
      <3> HIDE DEF w, w1
      <3>3. presence.attended <= w1
        BY <3>1, <3>2
      <3> QED
        BY <1>1, <3>3 DEF w1
    <2> QED
      BY <1>2, <1>4, <2>1, <2>2, <2>3, NoMarkTyped DEF Lasting, Undisturbed
  <1> QED
    BY <1>2, <1>3, <1>5, <1>13, <1>14 DEF AttendInv

LEMMA AttLeftWrites ==
  ASSUME AttendInv, NEW k \in Marks, LeftWrites(k)
  PROVE  AttendInv'
  <1>1. tick \in Nat /\ tick >= Usable
    BY AttendTypes DEF AttendInv, Usable
  <1> QED
    BY <1>1, AttCloses DEF LeftWrites

LEMMA AttFinalizeWrites ==
  ASSUME AttendInv, NEW k \in Marks, FinalizeWrites(k)
  PROVE  AttendInv'
  <1>1. tick \in Nat /\ tick >= Usable /\ ScheduledEnd \in Nat /\ ScheduledEnd >= Usable
    BY AttendTypes DEF AttendInv, Usable
  <1> QED
    BY <1>1, AttCloses DEF FinalizeWrites

\* An event that writes the row itself: if no mark is pending, none is outdated.
LEMMA NoMarkOutdated ==
  ASSUME AttendInv, UNCHANGED mark, ~ presence'.overlap => Marking = {}
  PROVE  MarksFresh'
  <1>1. ~ presence'.overlap => \A k \in Marks : mark'[k] = NoMark
    BY DEF Marking
  <1> QED
    BY <1>1, NoMarkTyped DEF MarksFresh

LEMMA AttRecordAttendance ==
  ASSUME AttendInv, NEW said \in {"present", "absent"}, RecordAttendance(said)
  PROVE  AttendInv'
  <1>1. row \in Row /\ presence \in Presence /\ tick \in Nat
    BY AttendTypes DEF AttendInv
  <1>2. PICK j \in Nat \union {Never} :
           j = IF presence.exists THEN row.joined
               ELSE IF said = "present" THEN tick ELSE Never
    BY <1>1 DEF Row
  <1>3. PICK l \in Nat \union {Never} : l = IF said = "present" THEN Never ELSE tick
    BY <1>1
  <1>4. PICK b \in BOOLEAN : b = (said = "present")
    OBVIOUS
  <1>5. row' = [row EXCEPT !.present = b, !.marked = TRUE, !.joined = j, !.left = l]
    BY <1>2, <1>3, <1>4 DEF RecordAttendance
  <1>6. row' \in Row /\ row'.marked
    BY <1>1, <1>5 DEF Row
  <1>7. PICK o \in BOOLEAN : o = (presence.overlap \/ Marking # {})
    OBVIOUS
  <1>8. presence' = [presence EXCEPT !.exists = TRUE, !.overlap = o]
    BY <1>7 DEF RecordAttendance
  <1>9. presence' \in Presence /\ presence'.exists /\ presence'.first = presence.first
        /\ presence'.overlap = o
    BY <1>1, <1>8 DEF Presence
  <1>10. AttendanceTypeOK'
    BY <1>6, <1>9, AttendanceAssumption
    DEF AttendInv, AttendanceTypeOK, RecordAttendance, Event
  <1>11. MarksFresh'
    BY <1>7, <1>9, NoMarkOutdated DEF RecordAttendance
  <1>12. RowExists'
    BY <1>9 DEF AttendInv, RowExists, RecordAttendance
  <1>13. Counting' /\ Lasting'
    BY <1>6 DEF Counting, Lasting, Undisturbed
  <1> QED
    BY <1>10, <1>11, <1>12, <1>13 DEF AttendInv

LEMMA AttDailyEvent ==
  ASSUME AttendInv, NEW joined \in BOOLEAN, DailyEvent(joined)
  PROVE  AttendInv'
  <1>1. row \in Row /\ presence \in Presence /\ tick \in Nat
    BY AttendTypes DEF AttendInv
  <1>2. PICK j \in Nat \union {Never} : j = IF joined THEN tick ELSE row.joined
    BY <1>1 DEF Row
  <1>3. PICK l \in Nat \union {Never} : l = IF joined THEN Never ELSE tick
    BY <1>1
  <1>4. row' = [row EXCEPT !.present = joined, !.joined = j, !.left = l]
    BY <1>2, <1>3 DEF DailyEvent
  <1>5. row' \in Row /\ row'.marked = row.marked /\ row'.minutes = row.minutes
        /\ row'.joined = j /\ row'.left = l
    BY <1>1, <1>4 DEF Row
  <1>6. PICK o \in BOOLEAN : o = (presence.overlap \/ Marking # {})
    OBVIOUS
  <1>7. PICK f \in Nat \union {Never} :
           f = IF joined /\ presence.first = Never THEN tick ELSE presence.first
    BY <1>1 DEF Presence
  <1>8. presence' = [presence EXCEPT !.exists = TRUE, !.foreign = TRUE, !.first = f,
                                     !.overlap = o]
    BY <1>6, <1>7 DEF DailyEvent
  <1>9. presence' \in Presence /\ presence'.exists /\ presence'.first = f
        /\ presence'.overlap = o /\ presence'.foreign
        /\ presence'.closed = presence.closed /\ presence'.early = presence.early
    BY <1>1, <1>8 DEF Presence
  <1>10. AttendanceTypeOK'
    BY <1>5, <1>9, AttendanceAssumption
    DEF AttendInv, AttendanceTypeOK, DailyEvent, Event
  <1>11. MarksFresh'
    BY <1>6, <1>9, NoMarkOutdated DEF DailyEvent
  <1>12. UNCHANGED tick
    BY DEF DailyEvent
  <1>13. RowExists'
    BY <1>1, <1>7, <1>9, <1>12 DEF AttendInv, RowExists
  <1>14. Lasting'
    BY <1>9 DEF Lasting, Undisturbed
  <1>15. Counting'
    <2> SUFFICES ASSUME ~ presence.overlap, ~ row.marked PROVE Counting'
      BY <1>5, <1>6, <1>9 DEF Counting
    <2>1. /\ row.joined # Never => /\ presence.first # Never
                                   /\ presence.first <= row.joined /\ row.joined <= tick
          /\ ~ presence.early => Credit <= presence.closed + Since
      BY DEF AttendInv, Counting
    <2>2. row'.joined # Never => /\ presence'.first # Never
                                 /\ presence'.first <= row'.joined
                                 /\ row'.joined <= tick
      BY <1>1, <1>2, <1>5, <1>7, <1>9, <2>1, NeverIsNoTime DEF AttendInv, RowExists
    <2>3. Since' = Since
      BY <1>1, <1>7, <1>9, <1>12, NeverIsNoTime DEF Since
    <2>4. Credit' = 2 * row.minutes
      <3>1. row.minutes \in Nat
        BY <1>1 DEF Row
      <3>2. CASE joined
        BY <1>1, <1>2, <1>5, <1>12, <3>1, <3>2 DEF Credit
      <3>3. CASE ~ joined
        <4>1. ~ IntervalOpen'
          BY <1>1, <1>3, <1>5, <3>3, NeverIsNoTime DEF IntervalOpen
        <4> QED
          BY <1>5, <3>1, <4>1 DEF Credit
      <3> QED
        BY <3>2, <3>3
    <2>5. Credit' <= Credit /\ Credit \in Nat /\ Credit' \in Nat /\ Since \in Nat
      BY <2>4, WorthOfRow, <1>1 DEF Row
    <2>6. ~ presence.early => Credit' <= presence.closed + Since
      BY <1>1, <2>1, <2>5 DEF Presence
    <2> QED
      BY <1>9, <1>12, <2>2, <2>3, <2>6 DEF Counting
  <1> QED
    BY <1>10, <1>11, <1>13, <1>14, <1>15 DEF AttendInv

\* Half a minute goes by.
LEMMA AttTicks ==
  ASSUME AttendInv, Ticks
  PROVE  AttendInv'
  <1>1. row \in Row /\ presence \in Presence /\ tick \in Nat /\ row.minutes \in Nat
        /\ presence.closed \in Nat /\ presence.attended \in Nat /\ ScheduledEnd \in Nat
    BY AttendTypes DEF AttendInv
  <1>2. tick' = tick + 1 /\ UNCHANGED <<row, mark, tracked, ended>> /\ Marking = {}
        /\ tick < LastTick
    BY DEF Ticks
  <1> DEFINE There == ~ ended /\ tick < ScheduledEnd /\ \E c \in tracked : socket[c] = "in"
  <1>3. PICK a \in Nat : a = IF There THEN presence.attended + 1 ELSE presence.attended
    BY <1>1
  <1>4. presence' = [presence EXCEPT !.attended = a]
    BY <1>1, <1>3 DEF Ticks, Presence
  <1>5. /\ presence' \in Presence /\ presence'.attended = a
        /\ presence'.exists = presence.exists /\ presence'.first = presence.first
        /\ presence'.closed = presence.closed /\ presence'.early = presence.early
        /\ presence'.overlap = presence.overlap /\ presence'.foreign = presence.foreign
    BY <1>1, <1>4 DEF Presence
  <1>6. AttendanceTypeOK'
    BY <1>2, <1>5, AttendanceAssumption DEF AttendInv, AttendanceTypeOK, Ticks
  <1>7. MarksFresh'
    BY <1>2, NoMarkOutdated
  <1>8. \A k \in Marks : mark[k] = NoMark
    BY <1>2 DEF Marking
  <1>9. IntervalOpen' <=> IntervalOpen
    BY <1>2 DEF IntervalOpen
  <1>10. RowExists'
    BY <1>1, <1>2, <1>5 DEF AttendInv, RowExists, Presence
  <1>11. Counting'
    <2> SUFFICES ASSUME ~ presence.overlap, ~ row.marked PROVE Counting'
      BY <1>2, <1>5 DEF Counting
    <2>1. /\ row.joined # Never => /\ presence.first # Never
                                   /\ presence.first <= row.joined /\ row.joined <= tick
          /\ ~ presence.early => Credit <= presence.closed + Since
      BY DEF AttendInv, Counting
    <2>2. row.joined # Never => row.joined \in Nat
      BY WorthOfRow
    <2>3. presence.first # Never => presence.first \in Nat
      BY <1>1 DEF Presence
    <2>4. Credit' = Credit + IF IntervalOpen THEN 1 ELSE 0
      BY <1>1, <1>2, <1>9, <2>2 DEF Credit, IntervalOpen
    <2>5. Since' = Since + IF presence.first = Never THEN 0 ELSE 1
      BY <1>1, <1>2, <1>5, <2>3 DEF Since
    <2>6. IntervalOpen => presence.first # Never
      BY <2>1 DEF IntervalOpen
    <2>7. ~ presence.early => Credit' <= presence.closed + Since'
      <3>1. Credit \in Nat /\ Since \in Nat
        BY WorthOfRow
      <3> DEFINE c == Credit
                 f == Since
                 c1 == Credit'
                 f1 == Since'
      <3>2. /\ c1 = c + IF IntervalOpen THEN 1 ELSE 0
            /\ f1 = f + IF presence.first = Never THEN 0 ELSE 1
            /\ c \in Nat /\ f \in Nat
            /\ ~ presence.early => c <= presence.closed + f
        BY <2>1, <2>4, <2>5, <3>1
      <3> HIDE DEF c, f, c1, f1
      <3>3. ~ presence.early => c1 <= presence.closed + f1
        BY <1>1, <2>6, <3>2
      <3> QED
        BY <3>3 DEF c1, f1
    <2>8. row.joined # Never => row.joined <= tick + 1
      BY <1>1, <2>1, <2>2
    <2> QED
      BY <1>2, <1>5, <2>1, <2>7, <2>8 DEF Counting
  <1>12. Lasting'
    <2> SUFFICES ASSUME Undisturbed' PROVE Lasting'
      BY DEF Lasting
    <2>1. Undisturbed
      BY <1>2, <1>5 DEF Undisturbed
    <2>2. tracked # {} /\ ~ ended => IntervalOpen
      BY <1>8, <2>1, NoMarkTyped DEF AttendInv, Lasting
    <2>3. presence.attended <= Secured
      BY <2>1 DEF AttendInv, Lasting
    <2>4. row.joined # Never => row.joined \in Nat /\ row.joined <= tick
      BY <2>1, WorthOfRow DEF Undisturbed
    <2> DEFINE w == Secured
               w1 == Secured'
               u == Usable
               u1 == Usable'
               n == row.minutes
               j == row.joined
    <2>5. /\ w = 2 * n + IF IntervalOpen /\ j < u THEN u - j ELSE 0
          /\ w1 = 2 * n + IF IntervalOpen /\ j < u1 THEN u1 - j ELSE 0
      BY <1>2, <1>9 DEF Secured
    <2>6. /\ u = IF tick < ScheduledEnd THEN tick ELSE ScheduledEnd
          /\ u1 = IF tick + 1 < ScheduledEnd THEN tick + 1 ELSE ScheduledEnd
      BY <1>2 DEF Usable
    <2>7. u \in Nat /\ u1 \in Nat /\ u <= u1 /\ n \in Nat
      BY <1>1, <2>6
    <2>8. IntervalOpen => j \in Nat /\ j <= tick
      BY <2>4 DEF IntervalOpen
    <2> HIDE DEF w, w1, u, u1, n, j
    <2>9. presence'.attended <= w1
      <3>1. CASE There
        <4>1. IntervalOpen /\ u = tick /\ u1 = tick + 1
          BY <1>1, <2>2, <2>6, <3>1
        <4>2. w1 = 2 * n + (tick + 1 - j) /\ w = 2 * n + (tick - j)
          BY <1>1, <2>5, <2>7, <2>8, <4>1
        <4>3. presence.attended <= w
          BY <2>3 DEF w
        <4> HIDE DEF There
        <4>4. presence'.attended = presence.attended + 1
          BY <1>3, <1>5, <3>1
        <4> QED
          BY <1>1, <2>7, <2>8, <4>1, <4>2, <4>3, <4>4
      <3>2. CASE ~ There
        <4> HIDE DEF There
        <4>1. presence'.attended = presence.attended
          BY <1>3, <1>5, <3>2
        <4>2. presence.attended <= w
          BY <2>3 DEF w
        <4>3. w \in Int /\ w1 \in Int /\ w <= w1
          BY <2>5, <2>7, <2>8
        <4> QED
          BY <1>1, <4>1, <4>2, <4>3
      <3> QED
        BY <3>1, <3>2
    <2> QED
      BY <1>2, <1>8, <1>9, <2>2, <2>9, NoMarkTyped DEF Lasting, w1
  <1> QED
    BY <1>6, <1>7, <1>10, <1>11, <1>12 DEF AttendInv

LEMMA AttendNext ==
  ASSUME AttendInv, [AttendanceNext]_attendanceVars
  PROVE  AttendInv'
  <1>1. ASSUME NEW c \in Sockets, JoinBegins(c) PROVE AttendInv'
    BY <1>1, AttJoinBegins
  <1>2. ASSUME NEW c \in Sockets, NEW k \in Marks, NEW connected \in BOOLEAN,
               JoinCounts(c, k, connected)
        PROVE AttendInv'
    BY <1>2, AttJoinCounts
  <1>3. ASSUME NEW c \in Sockets, NEW k \in Marks, Leaves(c, k) PROVE AttendInv'
    BY <1>3, AttLeaves
  <1>4. ASSUME NEW c \in Sockets, Evicted(c) PROVE AttendInv'
    BY <1>4, AttEvicted
  <1>5. ASSUME NEW k \in Marks, PresentWrites(k) PROVE AttendInv'
    BY <1>5, AttPresentWrites
  <1>6. ASSUME NEW k \in Marks, LeftWrites(k) PROVE AttendInv'
    BY <1>6, AttLeftWrites
  <1>7. ASSUME NEW k \in Marks, FinalizeWrites(k) PROVE AttendInv'
    BY <1>7, AttFinalizeWrites
  <1>8. ASSUME NEW k \in Marks, EndSession(k) PROVE AttendInv'
    BY <1>8, AttEndSession
  <1>9. ASSUME NEW k \in Marks, ZoomEvent(k) PROVE AttendInv'
    BY <1>9, AttZoomEvent
  <1>10. ASSUME NEW said \in {"present", "absent"}, RecordAttendance(said)
         PROVE AttendInv'
    BY <1>10, AttRecordAttendance
  <1>11. ASSUME NEW joined \in BOOLEAN, DailyEvent(joined) PROVE AttendInv'
    BY <1>11, AttDailyEvent
  <1>12. CASE ServerRestarts
    BY <1>12, AttServerRestarts
  <1>13. CASE Ticks
    BY <1>13, AttTicks
  <1>14. CASE UNCHANGED attendanceVars
    BY <1>14 DEF attendanceVars, AttendInv, AttendanceTypeOK, RowExists, MarksFresh,
       Counting, Lasting, Undisturbed, Secured, Usable, Credit, Since, OpenAnchor,
       IntervalOpen
  <1> QED
    BY <1>1, <1>2, <1>3, <1>4, <1>5, <1>6, <1>7, <1>8, <1>9, <1>10, <1>11, <1>12,
       <1>13, <1>14 DEF AttendanceNext

LEMMA AttendHolds == AttendanceSpec => []AttendInv
  BY AttendInit, AttendNext, PTL DEF AttendanceSpec

\* The row of attendance, the marks and the sockets have their types.
THEOREM AttendanceTyped == AttendanceSpec => []AttendanceTypeOK
  <1>1. AttendInv => AttendanceTypeOK
    BY DEF AttendInv
  <1> QED
    BY <1>1, AttendHolds, PTL

\* The row of a student stands for no more than the time since she first joined and
\* the rounding, and for no less than the time she was there, as long as no two marks
\* have overlapped (markStudentPresent, markStudentLeft, finalizeSessionAttendance).
THEOREM AttendanceTrue == AttendanceSpec => []AttendanceIsTrue
  <1>1. AttendInv => AttendanceIsTrue
    <2> SUFFICES ASSUME AttendInv PROVE AttendanceIsTrue
      OBVIOUS
    <2>1. CountedOnce
      BY DEF AttendInv, Counting, CountedOnce, Since
    <2>2. NothingLost
      <3> SUFFICES ASSUME Undisturbed PROVE Credit >= presence.attended
        BY DEF NothingLost, Undisturbed
      <3>1. presence.attended <= Secured /\ presence.attended \in Nat
            /\ row.minutes \in Nat
        BY AttendTypes DEF AttendInv, Lasting
      <3>2. /\ row.joined # Never => row.joined \in Nat /\ row.joined <= tick
            /\ Usable \in Nat /\ Usable <= tick /\ tick \in Nat
        BY WorthOfRow, AttendTypes DEF Undisturbed, AttendInv
      <3>3. Secured <= Credit /\ Secured \in Int /\ Credit \in Int
        BY <3>1, <3>2 DEF Secured, Credit, IntervalOpen
      <3> QED
        BY <3>1, <3>3
    <2> QED
      BY <2>1, <2>2 DEF AttendanceIsTrue
  <1> QED
    BY <1>1, AttendHolds, PTL

-----------------------------------------------------------------------------
(* Part 5: the materials of a session.  What a request knows when it writes: *)
(* the session stands for the id it came with unless one was made meanwhile, *)
(* and who asked was let in there.  A view is counted before its URL is out. *)

\* Requests that may still be counted as a view, and those that were for session k.
Unserved == {c \in Askers : ask[c].pc \notin {"idle", "url"}}
Receiving(k) == {c \in Askers : ask[c].pc = "url" /\ ask[c].at = k}

ViewsCounted ==
    /\ IsFiniteSet(Unserved) /\ Cardinality(Unserved) <= asked
    /\ \A k \in DOMAIN held :
          /\ IsFiniteSet(Receiving(k))
          /\ held[k].views + Cardinality(Unserved) <= asked
          /\ handed[k] + Cardinality(Receiving(k)) <= held[k].views
    /\ \A k \in Numbers \ DOMAIN held : handed[k] = 0

\* What request q may rely on where the sessions are h.
AskFits(q, h) ==
    /\ q.id <= Len(h) /\ q.at <= Len(h)
    /\ q.pc = "make" => q.of \in Makers /\ q.id = 0
    /\ q.pc \in {"resolve", "make"} /\ q.checked => q.of \in CheckedFirst \union {"summary"}
    /\ q.pc = "check" /\ q.of \in Makers \ CheckedFirst => q.at # 0
    /\ q.pc = "act" /\ q.of \in Makers \union {"note", "board"} => q.at # 0
    /\ q.pc = "act" /\ q.of = "share" /\ q.who = "tutor" => h[q.at].over
    /\ q.pc = "url" => q.at # 0
    /\ q.of = "post" /\ q.pc \in {"check", "act"} /\ ~ q.moved =>
          q.at = IF q.id = 0 THEN Len(h) ELSE q.id
    /\ q.of = "post" /\ q.pc = "act" /\ ~ q.moved /\ q.who = "guest" => h[q.at].guest
AsksFit == \A c \in Askers : AskFits(ask[c], held)

\* Whoever makes a session has found none, and is the only one.
OneMaker ==
    ~ collided =>
      /\ Newest <= added + 1
      /\ \A c, d \in Askers : ask[c].pc = "make" /\ ask[d].pc = "make" => c = d
      /\ (\E c \in Askers : ask[c].pc = "make") => Newest <= added

PostFits(p, h) ==
    /\ p.at \in DOMAIN h
    /\ p.id = 0 /\ ~ p.moved => p.newest
    /\ p.who = "guest" /\ ~ p.moved => h[p.at].guest
NoteFits(n, h) == n.at \in DOMAIN h /\ (n.who = "tutor" => h[n.at].over)
AllFit == /\ \A p \in posts : PostFits(p, held)
          /\ \A n \in shared : NoteFits(n, held)

MaterialsInv == MaterialsTypeOK /\ ViewsCounted /\ AsksFit /\ OneMaker /\ AllFit

-----------------------------------------------------------------------------
(* The sessions *)

LEMMA HeldTyped ==
  ASSUME NEW h \in HeldSessions
  PROVE  /\ Len(h) \in Numbers /\ DOMAIN h = 1..Len(h) /\ h \in Seq(OneSession)
         /\ \A k \in 1..Len(h) : h[k] \in OneSession
  <1>1. PICK n \in Numbers : h \in [1..n -> OneSession]
    BY DEF HeldSessions
  <1>2. n \in Nat
    BY MaterialsAssumption DEF Numbers
  <1>3. h \in Seq(OneSession) /\ Len(h) = n
    BY <1>1, <1>2, SeqDef, LenProperties
  <1> QED
    BY <1>1, <1>2, <1>3

LEMMA HeldMade ==
  ASSUME NEW h, NEW n \in Numbers, h \in [1..n -> OneSession]
  PROVE  h \in HeldSessions
  BY DEF HeldSessions

LEMMA NewTyped == NewSession \in OneSession
  BY MaterialsAssumption DEF NewSession, OneSession

\* What happens to the sessions: rows are added and never taken away, and what
\* was over or had the guest stays so.
Grows(h, g) ==
    /\ g \in HeldSessions
    /\ Len(h) <= Len(g)
    /\ \A k \in 1..Len(h) : (h[k].over => g[k].over) /\ (h[k].guest => g[k].guest)

LEMMA HeldAppended ==
  ASSUME NEW h \in HeldSessions, Len(h) < MaxSessions
  PROVE  LET g == Append(h, NewSession)
         IN  /\ Grows(h, g) /\ Len(g) = Len(h) + 1
             /\ \A k \in 1..Len(h) : g[k] = h[k]
             /\ g[Len(h) + 1] = NewSession
  <1> DEFINE g == Append(h, NewSession)
  <1>1. /\ Len(h) \in Nat /\ h \in Seq(OneSession) /\ Len(h) + 1 \in Numbers
        /\ \A k \in 1..Len(h) : h[k] \in OneSession
    BY HeldTyped, MaterialsAssumption DEF Numbers
  <1>2. /\ g \in Seq(OneSession) /\ Len(g) = Len(h) + 1
        /\ \A k \in 1..Len(h) : g[k] = h[k]
        /\ g[Len(h) + 1] = NewSession
    BY <1>1, NewTyped, AppendProperties
  <1>3. g \in [1..(Len(h) + 1) -> OneSession]
    BY <1>1, <1>2, LenProperties
  <1>4. g \in HeldSessions
    BY <1>1, <1>3, HeldMade
  <1>5. Grows(h, g)
    BY <1>1, <1>2, <1>4 DEF Grows
  <1> QED
    BY <1>2, <1>5

LEMMA HeldChanged ==
  ASSUME held \in HeldSessions, NEW k \in 1..Newest, NEW rec \in OneSession,
         held' = [held EXCEPT ![k] = rec],
         held[k].over => rec.over, held[k].guest => rec.guest
  PROVE  /\ Grows(held, held') /\ Len(held') = Len(held) /\ held'[k] = rec
         /\ \A j \in 1..Newest : j # k => held'[j] = held[j]
  <1>1. /\ Newest \in Numbers /\ Newest \in Nat /\ Newest = Len(held) /\ DOMAIN held = 1..Newest
        /\ \A j \in 1..Newest : held[j] \in OneSession
    BY HeldTyped, MaterialsAssumption DEF Numbers, Newest
  <1>2. held' \in [1..Newest -> OneSession] /\ held'[k] = rec
        /\ \A j \in 1..Newest : j # k => held'[j] = held[j]
    <2>1. held \in Seq(OneSession)
      BY HeldTyped
    <2>2. held \in [1..Newest -> OneSession]
      BY <1>1, <2>1, LenProperties
    <2> QED
      BY <2>2
  <1>3. held' \in HeldSessions
    BY <1>1, <1>2, HeldMade
  <1>4. Len(held') = Len(held)
    BY <1>1, <1>2, <1>3, HeldTyped DEF Numbers
  <1>5. Grows(held, held')
    BY <1>1, <1>2, <1>3, <1>4 DEF Grows
  <1> QED
    BY <1>2, <1>4, <1>5

LEMMA HeldStays ==
  ASSUME NEW h \in HeldSessions
  PROVE  Grows(h, h)
  BY HeldTyped DEF Grows, Numbers

\* What a request, a post or a note relies on is not lost with more sessions.
LEMMA FitsStays ==
  ASSUME NEW q \in Ask, NEW h \in HeldSessions, NEW g, Grows(h, g), AskFits(q, h),
         Len(g) = Len(h) \/ q.moved \/ q.pc = "idle"
  PROVE  AskFits(q, g)
  <1>1. /\ Len(h) \in Nat /\ Len(g) \in Nat /\ Len(h) <= Len(g)
        /\ \A k \in 1..Len(h) : (h[k].over => g[k].over) /\ (h[k].guest => g[k].guest)
    BY HeldTyped, MaterialsAssumption DEF Grows, Numbers
  <1>2. q.at \in Nat /\ q.id \in Nat /\ q.at <= Len(h) /\ q.id <= Len(h)
    BY MaterialsAssumption DEF Ask, Numbers, AskFits
  <1>3. q.at # 0 => q.at \in 1..Len(h)
    BY <1>1, <1>2
  <1>4. q.pc = "act" /\ q.of \in {"share", "post"} => q.at # 0
    BY DEF AskFits, Makers
  <1>5. q.id <= Len(g) /\ q.at <= Len(g)
    BY <1>1, <1>2
  <1>6. q.pc = "act" /\ q.of = "share" /\ q.who = "tutor" => g[q.at].over
    BY <1>1, <1>3, <1>4 DEF AskFits
  <1>7. q.of = "post" /\ q.pc \in {"check", "act"} /\ ~ q.moved =>
          q.at = IF q.id = 0 THEN Len(g) ELSE q.id
    BY DEF AskFits
  <1>8. q.of = "post" /\ q.pc = "act" /\ ~ q.moved /\ q.who = "guest" => g[q.at].guest
    BY <1>1, <1>3, <1>4 DEF AskFits
  <1> QED
    BY <1>5, <1>6, <1>7, <1>8 DEF AskFits

LEMMA AllFitStays ==
  ASSUME AllFit, held \in HeldSessions, Grows(held, held'),
         UNCHANGED <<posts, shared>>
  PROVE  AllFit'
  <1>1. /\ DOMAIN held = 1..Len(held) /\ DOMAIN held' = 1..Len(held')
        /\ Len(held) \in Nat /\ Len(held') \in Nat
    BY HeldTyped, MaterialsAssumption DEF Grows, Numbers
  <1> QED
    BY <1>1 DEF AllFit, PostFits, NoteFits, Grows

-----------------------------------------------------------------------------
(* The requests *)

LEMMA AskTyped ==
  ASSUME NEW q \in Ask
  PROVE  /\ q.pc \in {"idle", "resolve", "make", "check", "act", "url"}
         /\ q.of \in Operations /\ q.id \in Numbers /\ q.who \in People /\ q.at \in Numbers
         /\ q.checked \in BOOLEAN /\ q.moved \in BOOLEAN
         /\ \A pc \in {"idle", "resolve", "make", "check", "act", "url"} :
               [q EXCEPT !.pc = pc] \in Ask
         /\ \A b \in BOOLEAN : [q EXCEPT !.moved = b] \in Ask
  BY DEF Ask

LEMMA NoAskTyped ==
  /\ NoAsk \in Ask /\ NoAsk.pc = "idle" /\ NoAsk.at = 0 /\ NoAsk.id = 0
  BY MaterialsAssumption DEF NoAsk, Ask, Operations, Numbers, People

LEMMA NoAskFits ==
  ASSUME NEW h \in HeldSessions
  PROVE  AskFits(NoAsk, h)
  BY NoAskTyped, HeldTyped DEF AskFits, Numbers

LEMMA GrownTyped ==
  ASSUME NEW q \in Ask
  PROVE  /\ Grown(q) \in Ask /\ Grown(q).pc = q.pc /\ Grown(q).at = q.at
         /\ Grown(q).moved \/ Grown(q).pc = "idle"
         /\ \A h : AskFits(q, h) => AskFits(Grown(q), h)
  <1>1. PICK b \in BOOLEAN : b = (q.pc # "idle")
    OBVIOUS
  <1>2. Grown(q) = [q EXCEPT !.moved = b]
    BY <1>1 DEF Grown
  <1>3. /\ Grown(q) \in Ask /\ Grown(q).pc = q.pc /\ Grown(q).at = q.at
        /\ Grown(q).of = q.of /\ Grown(q).id = q.id /\ Grown(q).who = q.who
        /\ Grown(q).moved = b /\ Grown(q).checked = q.checked
    BY <1>2 DEF Ask
  <1>4. Grown(q).moved \/ Grown(q).pc = "idle"
    BY <1>1, <1>3
  <1>5. ASSUME NEW h, AskFits(q, h)
        PROVE  AskFits(Grown(q), h)
    <2>1. q.of = "post" /\ q.pc \in {"check", "act"} => Grown(q).moved
      BY <1>1, <1>3
    <2> QED
      BY <1>3, <1>5, <2>1 DEF AskFits
  <1> QED
    BY <1>3, <1>4, <1>5

\* Request c goes on as q; the others stay, or have seen a session made.
AskStep(c, q) ==
    /\ ask' \in [Askers -> Ask]
    /\ ask'[c] = q
    /\ \A d \in Askers \ {c} : /\ ask'[d].pc = ask[d].pc /\ ask'[d].at = ask[d].at
                               /\ ask'[d] = ask[d] \/ ask'[d] = Grown(ask[d])
                               /\ Newest' = Newest \/ ask'[d] = Grown(ask[d])

LEMMA AskTurns ==
  ASSUME ask \in [Askers -> Ask], NEW c \in Askers, NEW q \in Ask, Turns(c, q),
         Newest' = Newest
  PROVE  AskStep(c, q)
  BY DEF Turns, AskStep

LEMMA AskGrows ==
  ASSUME ask \in [Askers -> Ask], NEW c \in Askers, NEW q \in Ask,
         ask' = [d \in Askers |-> IF d = c THEN q ELSE Grown(ask[d])]
  PROVE  AskStep(c, q)
  <1>1. \A d \in Askers : /\ Grown(ask[d]) \in Ask /\ Grown(ask[d]).pc = ask[d].pc
                          /\ Grown(ask[d]).at = ask[d].at
    BY GrownTyped
  <1> QED
    BY <1>1 DEF AskStep

LEMMA AsksStay ==
  ASSUME MaterialsInv, NEW c \in Askers, NEW q \in Ask, AskStep(c, q),
         Grows(held, held'), AskFits(q, held')
  PROVE  AsksFit'
  <1>1. held \in HeldSessions /\ ask \in [Askers -> Ask]
    BY DEF MaterialsInv, MaterialsTypeOK
  <1>2. ASSUME NEW d \in Askers, d # c
        PROVE  AskFits(ask'[d], held')
    <2>1. ask[d] \in Ask /\ AskFits(ask[d], held)
      BY <1>1 DEF MaterialsInv, AsksFit
    <2>2. CASE ask'[d] = ask[d] /\ Newest' = Newest
      BY <1>1, <2>1, <2>2, FitsStays DEF Newest
    <2>3. CASE ask'[d] = Grown(ask[d])
      <3>1. /\ Grown(ask[d]) \in Ask /\ AskFits(Grown(ask[d]), held)
            /\ Grown(ask[d]).moved \/ Grown(ask[d]).pc = "idle"
        BY <2>1, GrownTyped
      <3> QED
        BY <1>1, <2>3, <3>1, FitsStays
    <2> QED
      BY <1>2, <2>2, <2>3 DEF AskStep
  <1> QED
    BY <1>2 DEF AsksFit, AskStep

-----------------------------------------------------------------------------
(* Views and URLs *)

LEMMA MaterialsTypes ==
  ASSUME MaterialsInv
  PROVE  /\ held \in HeldSessions /\ ask \in [Askers -> Ask]
         /\ asked \in Nat /\ asked <= MaxAsked /\ MaxAsked \in Nat
         /\ added \in Nat /\ added <= MaxAdded /\ MaxAdded \in Nat
         /\ handed \in [Numbers -> 0..MaxAsked]
         /\ Newest \in Nat /\ Newest \in Numbers /\ Newest <= MaxSessions
         /\ MaxSessions \in Nat
         /\ DOMAIN held = 1..Newest
         /\ \A k \in 1..Newest : held[k] \in OneSession /\ k \in Numbers
  <1>1. held \in HeldSessions /\ ask \in [Askers -> Ask]
    BY DEF MaterialsInv, MaterialsTypeOK
  <1>2. MaxSessions \in Nat /\ MaxAdded \in Nat /\ MaxAsked \in Nat
    BY MaterialsAssumption
  <1>3. Newest \in Numbers /\ DOMAIN held = 1..Newest /\ \A k \in 1..Newest : held[k] \in OneSession
    BY <1>1, HeldTyped DEF Newest
  <1>4. Newest \in Nat /\ Newest <= MaxSessions /\ \A k \in 1..Newest : k \in Numbers
    BY <1>2, <1>3 DEF Numbers
  <1>5. asked \in Nat /\ asked <= MaxAsked /\ added \in Nat /\ added <= MaxAdded
    BY <1>2 DEF MaterialsInv, MaterialsTypeOK
  <1> QED
    BY <1>1, <1>2, <1>3, <1>4, <1>5 DEF MaterialsInv, MaterialsTypeOK

LEMMA MaterialsNumbers ==
  ASSUME MaterialsInv
  PROVE  /\ asked \in Nat /\ asked <= MaxAsked /\ MaxAsked \in Nat
         /\ Newest \in Nat /\ Newest <= MaxSessions /\ MaxSessions \in Nat
         /\ DOMAIN held = 1..Newest
  BY MaterialsTypes

SameViews ==
    /\ held' \in HeldSessions
    /\ Newest <= Newest'
    /\ \A k \in 1..Newest : held'[k].views = held[k].views
    /\ \A k \in 1..Newest' : k > Newest => held'[k].views = 0

\* Nobody starts, and nobody is for a URL who was not.
LEMMA CountsStay ==
  ASSUME MaterialsInv, SameViews, UNCHANGED <<asked, handed>>,
         \A d \in Askers :
            /\ ask'[d].pc \in {"idle", "url"} \/ ask[d].pc \notin {"idle", "url"}
            /\ ask'[d].pc = "url" <=> ask[d].pc = "url"
            /\ ask[d].pc = "url" => ask'[d].at = ask[d].at
  PROVE  ViewsCounted'
  <1>1. /\ IsFiniteSet(Unserved') /\ Cardinality(Unserved') <= Cardinality(Unserved)
        /\ Cardinality(Unserved) \in Nat /\ Cardinality(Unserved') \in Nat
    <2>1. Unserved' \subseteq Unserved
      BY DEF Unserved
    <2>2. IsFiniteSet(Unserved)
      BY DEF MaterialsInv, ViewsCounted
    <2> QED
      BY <2>1, <2>2, FS_Subset, FS_CardinalityType
  <1>2. \A k \in Numbers : Receiving(k)' = Receiving(k)
    BY DEF Receiving
  <1>3. /\ Newest' \in Nat /\ DOMAIN held' = 1..Newest' /\ Newest' \in Numbers
        /\ \A k \in 1..Newest' : k \in Numbers /\ held'[k].views \in Nat
    <2>1. /\ Newest' \in Numbers /\ DOMAIN held' = 1..Newest'
          /\ \A k \in 1..Newest' : held'[k] \in OneSession
      BY HeldTyped DEF SameViews, Newest
    <2> QED
      BY <2>1, MaterialsAssumption DEF Numbers, OneSession
  <1>4. ASSUME NEW k \in 1..Newest'
        PROVE  /\ IsFiniteSet(Receiving(k)')
               /\ held'[k].views + Cardinality(Unserved') <= asked'
               /\ handed'[k] + Cardinality(Receiving(k)') <= held'[k].views
    <2>1. CASE k \in 1..Newest
      <3>1. /\ IsFiniteSet(Receiving(k))
            /\ held[k].views + Cardinality(Unserved) <= asked
            /\ handed[k] + Cardinality(Receiving(k)) <= held[k].views
            /\ held'[k].views = held[k].views
        BY <2>1, MaterialsTypes DEF MaterialsInv, ViewsCounted, SameViews
      <3>2. Receiving(k)' = Receiving(k)
        BY <1>2, <1>3
      <3>3. PICK n \in Nat, m \in Nat, v \in Nat, a \in Nat :
                /\ n = Cardinality(Unserved) /\ m = Cardinality(Unserved') /\ m <= n
                /\ v = held'[k].views /\ v = held[k].views
                /\ a = asked /\ a = asked' /\ v + n <= a
        BY <1>1, <1>3, <3>1, MaterialsNumbers
      <3>4. held'[k].views + Cardinality(Unserved') <= asked'
        BY <3>3
      <3>5. handed'[k] + Cardinality(Receiving(k)') <= held'[k].views
        BY <3>1, <3>2
      <3> QED
        BY <3>1, <3>2, <3>4, <3>5
    <2>2. CASE k \notin 1..Newest
      <3>1. held'[k].views = 0 /\ k \in Numbers \ DOMAIN held
        BY <1>3, <2>2, MaterialsTypes DEF SameViews
      <3>2. handed'[k] = 0
        BY <3>1 DEF MaterialsInv, ViewsCounted
      <3>3. Receiving(k) = {}
        <4> SUFFICES ASSUME NEW d \in Askers, ask[d].pc = "url", ask[d].at = k PROVE FALSE
          BY DEF Receiving
        <4>1. ask[d] \in Ask /\ ask[d].at <= Newest
          BY MaterialsTypes DEF MaterialsInv, AsksFit, AskFits, Newest
        <4> QED
          BY <1>3, <2>2, <4>1, MaterialsTypes
      <3>4. Receiving(k)' = {}
        BY <1>2, <1>3, <3>3
      <3>5. Cardinality(Unserved) <= asked
        BY DEF MaterialsInv, ViewsCounted
      <3>6. held'[k].views + Cardinality(Unserved') <= asked'
        BY <1>1, <3>1, <3>5, MaterialsNumbers
      <3> QED
        BY <3>1, <3>2, <3>4, <3>6, FS_EmptySet
    <2> QED
      BY <2>1, <2>2
  <1>5. \A k \in Numbers \ DOMAIN held' : handed'[k] = 0
    <2>1. DOMAIN held \subseteq DOMAIN held'
      BY <1>3, MaterialsTypes DEF SameViews
    <2> QED
      BY <2>1 DEF MaterialsInv, ViewsCounted
  <1>6. Cardinality(Unserved') <= asked'
    BY <1>1, MaterialsTypes DEF MaterialsInv, ViewsCounted
  <1> QED
    BY <1>1, <1>3, <1>4, <1>5, <1>6 DEF ViewsCounted

\* The step of a request that is at work and for no URL, here or after.
LEMMA WorkCounts ==
  ASSUME MaterialsInv, NEW c \in Askers, NEW q \in Ask, AskStep(c, q),
         ask[c].pc \notin {"idle", "url"}, q.pc # "url", SameViews,
         UNCHANGED <<asked, handed>>
  PROVE  ViewsCounted'
  BY CountsStay DEF AskStep

LEMMA HeldUntouched ==
  ASSUME MaterialsInv, held' = held
  PROVE  /\ SameViews /\ Grows(held, held') /\ Newest' = Newest
  <1>1. Newest' = Newest
    BY DEF Newest
  <1> QED
    BY <1>1, MaterialsTypes, HeldStays DEF SameViews

\* The rest of the types, by what a step may do to it.
LEMMA TypesHold ==
  ASSUME MaterialsInv, held' \in HeldSessions, taught' \in BOOLEAN, trial' \in BOOLEAN,
         ask' \in [Askers -> Ask], posts' \subseteq Post,
         shared' \subseteq [at: Numbers, who: People],
         handed' \in [Numbers -> 0..MaxAsked], asked' \in 0..MaxAsked,
         added' \in 0..MaxAdded, collided' \in BOOLEAN
  PROVE  MaterialsTypeOK'
  BY DEF MaterialsTypeOK

\* Who makes a session is as before, or fewer.
LEMMA MakersStay ==
  ASSUME MaterialsInv, NEW c \in Askers, NEW q \in Ask, AskStep(c, q), q.pc # "make",
         Newest' = Newest, added' = added, collided => collided'
  PROVE  OneMaker'
  BY DEF MaterialsInv, OneMaker, AskStep

\* A request that only goes on, or ends.
LEMMA GoesOn ==
  ASSUME MaterialsInv, NEW c \in Askers, NEW q \in Ask, Turns(c, q),
         ask[c].pc \notin {"idle", "url"}, q.pc \notin {"url", "make"},
         AskFits(q, held),
         UNCHANGED <<held, taught, trial, asked, added, collided>>, Elsewhere
  PROVE  MaterialsInv'
  <1>1. /\ held' = held /\ asked' = asked /\ added' = added /\ collided' = collided
        /\ taught' = taught /\ trial' = trial
        /\ posts' = posts /\ shared' = shared /\ handed' = handed
    BY DEF Elsewhere
  <1>2. SameViews /\ Grows(held, held') /\ Newest' = Newest
    BY <1>1, HeldUntouched
  <1>3. AskStep(c, q)
    BY <1>2, AskTurns, MaterialsTypes
  <1>4. ViewsCounted'
    BY <1>1, <1>2, <1>3, WorkCounts
  <1>5. AsksFit'
    BY <1>1, <1>2, <1>3, AsksStay
  <1>6. OneMaker'
    BY <1>1, <1>2, <1>3, MakersStay
  <1>7. AllFit'
    BY <1>1, <1>2, AllFitStays, MaterialsTypes DEF MaterialsInv
  <1>8. MaterialsTypeOK'
    BY <1>1, <1>3 DEF MaterialsInv, MaterialsTypeOK, AskStep
  <1> QED
    BY <1>4, <1>5, <1>6, <1>7, <1>8 DEF MaterialsInv

LEMMA AskOf ==
  ASSUME MaterialsInv, NEW c \in Askers
  PROVE  ask[c] \in Ask /\ AskFits(ask[c], held)
  BY MaterialsTypes DEF MaterialsInv, AsksFit

-----------------------------------------------------------------------------
(* The actions of a request *)

LEMMA MatAsks ==
  ASSUME MaterialsInv, NEW c \in Askers, NEW of \in Operations, NEW id \in Numbers,
         NEW who \in People, Asks(c, of, id, who)
  PROVE  MaterialsInv'
  <1>1. PICK q \in Ask : /\ Turns(c, q) /\ q.id = id /\ q.at = 0 /\ q.of = of
                         /\ q.checked = (of = "summary")
                         /\ q.pc = IF of \in CheckedFirst THEN "check" ELSE "resolve"
    <2>1. PICK b \in BOOLEAN : b = (of = "summary")
      OBVIOUS
    <2>2. PICK pc \in {"check", "resolve"} :
               pc = IF of \in CheckedFirst THEN "check" ELSE "resolve"
      OBVIOUS
    <2>3. PICK q : q = [NoAsk EXCEPT !.pc = pc, !.of = of, !.id = id, !.who = who, !.checked = b]
      OBVIOUS
    <2>4. Turns(c, q)
      BY <2>1, <2>2, <2>3 DEF Asks
    <2>5. /\ q \in Ask /\ q.id = id /\ q.at = 0 /\ q.of = of /\ q.checked = b /\ q.pc = pc
      BY <2>3, NoAskTyped DEF NoAsk, Ask
    <2> QED
      BY <2>1, <2>2, <2>4, <2>5
  <1>2. /\ held' = held /\ added' = added /\ collided' = collided
        /\ taught' = taught /\ trial' = trial
        /\ posts' = posts /\ shared' = shared /\ handed' = handed
        /\ asked' = asked + 1 /\ asked < MaxAsked /\ id <= Newest /\ ask[c].pc = "idle"
    BY DEF Asks, Idles
  <1>3. SameViews /\ Grows(held, held') /\ Newest' = Newest
    BY <1>2, HeldUntouched
  <1>4. AskStep(c, q)
    BY <1>1, <1>3, AskTurns, MaterialsTypes
  <1>5. AskFits(q, held)
    <2>1. q.at <= Len(held) /\ q.id <= Len(held)
      BY <1>1, <1>2, MaterialsTypes DEF Newest
    <2>2. q.pc \in {"check", "resolve"} /\ (q.pc = "check" => q.of \in CheckedFirst)
      BY <1>1
    <2>3. q.pc = "resolve" /\ q.checked => q.of = "summary"
      BY <1>1
    <2> QED
      BY <2>1, <2>2, <2>3 DEF AskFits, CheckedFirst
  <1>6. ViewsCounted'
    <2>1. Unserved' = Unserved \union {c} /\ c \notin Unserved
      BY <1>1, <1>2, <1>4 DEF Unserved, AskStep
    <2>2. IsFiniteSet(Unserved) /\ Cardinality(Unserved) \in Nat
      BY FS_CardinalityType DEF MaterialsInv, ViewsCounted
    <2>3. IsFiniteSet(Unserved') /\ Cardinality(Unserved') = Cardinality(Unserved) + 1
      BY <2>1, <2>2, FS_AddElement
    <2>4. \A k \in Numbers : Receiving(k)' = Receiving(k)
      BY <1>1, <1>2, <1>4 DEF Receiving, AskStep
    <2>5. Cardinality(Unserved') <= asked'
      BY <1>2, <2>2, <2>3, MaterialsTypes DEF MaterialsInv, ViewsCounted
    <2>6. ASSUME NEW k \in DOMAIN held'
          PROVE  /\ IsFiniteSet(Receiving(k)')
                 /\ held'[k].views + Cardinality(Unserved') <= asked'
                 /\ handed'[k] + Cardinality(Receiving(k)') <= held'[k].views
      <3>1. k \in DOMAIN held /\ k \in Numbers /\ held[k].views \in Nat
        BY <1>2, MaterialsTypes DEF OneSession
      <3>2. /\ IsFiniteSet(Receiving(k))
            /\ held[k].views + Cardinality(Unserved) <= asked
            /\ handed[k] + Cardinality(Receiving(k)) <= held[k].views
        BY <3>1 DEF MaterialsInv, ViewsCounted
      <3>3. held'[k].views + Cardinality(Unserved') <= asked'
        <4>1. PICK n \in Nat, v \in Nat, a \in Nat :
                  /\ n = Cardinality(Unserved) /\ n + 1 = Cardinality(Unserved')
                  /\ v = held[k].views /\ v = held'[k].views
                  /\ a = asked /\ a + 1 = asked' /\ v + n <= a
          BY <1>2, <2>2, <2>3, <3>1, <3>2, MaterialsNumbers
        <4> QED
          BY <4>1
      <3> QED
        BY <1>2, <2>4, <3>1, <3>2, <3>3
    <2> QED
      BY <1>2, <2>3, <2>5, <2>6 DEF ViewsCounted, MaterialsInv
  <1>7. AsksFit'
    BY <1>2, <1>3, <1>4, <1>5, AsksStay
  <1>8. OneMaker'
    BY <1>1, <1>2, <1>3, <1>4, MakersStay
  <1>9. AllFit'
    BY <1>2, <1>3, AllFitStays, MaterialsTypes DEF MaterialsInv
  <1>10. MaterialsTypeOK'
    <2>1. asked' \in 0..MaxAsked
      BY <1>2, MaterialsTypes
    <2> QED
      BY <1>2, <1>4, <2>1 DEF MaterialsInv, MaterialsTypeOK, AskStep
  <1> QED
    BY <1>6, <1>7, <1>8, <1>9, <1>10 DEF MaterialsInv

LEMMA MatResolves ==
  ASSUME MaterialsInv, NEW c \in Askers, Resolves(c)
  PROVE  MaterialsInv'
  <1>1. /\ ask[c].pc = "resolve" /\ ask[c] \in Ask /\ AskFits(ask[c], held)
        /\ UNCHANGED <<held, taught, trial, asked, added>> /\ Elsewhere
    BY AskOf DEF Resolves
  <1>2. StandsFor(c) \in Numbers /\ StandsFor(c) <= Newest
    <2>1. ask[c].id \in Numbers /\ ask[c].id <= Len(held)
      BY <1>1 DEF Ask, AskFits
    <2> QED
      BY <2>1, MaterialsTypes DEF StandsFor, Newest
  <1>3. CASE StandsFor(c) = 0 /\ ask[c].of \in Makers
    <2>1. PICK q \in Ask : /\ Turns(c, q) /\ q.pc = "make" /\ q.id = ask[c].id
                           /\ q.at = ask[c].at /\ q.of = ask[c].of
                           /\ q.checked = ask[c].checked
      BY <1>1, <1>3 DEF Resolves, Ask
    <2>2. collided' = (collided \/ \E d \in Askers : ask[d].pc = "make")
      BY <1>3 DEF Resolves
    <2>3. /\ held' = held /\ asked' = asked /\ added' = added
          /\ taught' = taught /\ trial' = trial
          /\ posts' = posts /\ shared' = shared /\ handed' = handed
      BY <1>1 DEF Elsewhere
    <2>4. SameViews /\ Grows(held, held') /\ Newest' = Newest
      BY <2>3, HeldUntouched
    <2>5. AskStep(c, q)
      BY <2>1, <2>4, AskTurns, MaterialsTypes
    <2>6. Newest = 0 /\ ask[c].id = 0
      BY <1>1, <1>3, MaterialsTypes, AskTyped DEF StandsFor, Numbers
    <2>7. AskFits(q, held)
      BY <1>1, <1>3, <2>1, <2>6 DEF AskFits
    <2>8. OneMaker'
      <3>1. Newest' <= added' + 1 /\ Newest' <= added'
        BY <2>3, <2>4, <2>6, MaterialsTypes
      <3>2. ~ collided' => \A d, e \in Askers : ask'[d].pc = "make" /\ ask'[e].pc = "make" => d = e
        BY <2>2, <2>5 DEF AskStep
      <3> QED
        BY <3>1, <3>2 DEF OneMaker
    <2>9. ViewsCounted' /\ AsksFit' /\ AllFit'
      BY <1>1, <2>1, <2>3, <2>4, <2>5, <2>7, WorkCounts, AsksStay, AllFitStays, MaterialsTypes
      DEF MaterialsInv
    <2>10. MaterialsTypeOK'
      <3>1. collided' \in BOOLEAN
        BY <2>2 DEF MaterialsInv, MaterialsTypeOK
      <3> QED
        BY <2>3, <2>5, <3>1 DEF MaterialsInv, MaterialsTypeOK, AskStep
    <2> QED
      BY <2>8, <2>9, <2>10 DEF MaterialsInv
  <1>4. CASE ~ (StandsFor(c) = 0 /\ ask[c].of \in Makers)
    <2>1. PICK q \in Ask : /\ Turns(c, q) /\ q.pc = (IF ask[c].checked THEN "act" ELSE "check")
                           /\ q.id = ask[c].id /\ q.at = StandsFor(c) /\ q.of = ask[c].of
                           /\ q.who = ask[c].who /\ q.checked = ask[c].checked
                           /\ UNCHANGED collided
      BY <1>1, <1>2, <1>4 DEF Resolves, Ask
    <2>2. q.pc = "act" => q.of \in CheckedFirst \union {"summary"}
      BY <1>1, <2>1 DEF AskFits
    <2>3. q.at <= Len(held) /\ q.id <= Len(held)
      BY <1>1, <1>2, <2>1 DEF AskFits, Newest
    <2>4. q.of \in Makers => q.at # 0
      BY <1>4, <2>1
    <2>5. q.at = IF q.id = 0 THEN Len(held) ELSE q.id
      BY <2>1 DEF StandsFor, Newest
    <2>6. q.pc \in {"act", "check"}
      BY <2>1
    <2>7. AskFits(q, held)
      BY <2>2, <2>3, <2>4, <2>5, <2>6 DEF AskFits, CheckedFirst, Makers
    <2> QED
      BY <1>1, <2>1, <2>7, GoesOn
  <1> QED
    BY <1>3, <1>4

LEMMA MatMakes ==
  ASSUME MaterialsInv, NEW c \in Askers, MakesSession(c)
  PROVE  MaterialsInv'
  <1>1. /\ ask[c].pc = "make" /\ ask[c] \in Ask /\ AskFits(ask[c], held)
        /\ Newest < MaxSessions /\ held' = Append(held, NewSession)
        /\ taught' = taught /\ trial' = trial /\ asked' = asked /\ added' = added
        /\ posts' = posts /\ shared' = shared /\ handed' = handed /\ collided' = collided
    BY AskOf DEF MakesSession, Elsewhere
  <1>2. /\ Grows(held, held') /\ SameViews /\ Newest' = Newest + 1
    <2>1. /\ Grows(held, held') /\ Len(held') = Len(held) + 1
          /\ \A k \in 1..Len(held) : held'[k] = held[k]
          /\ held'[Len(held) + 1] = NewSession
      BY <1>1, HeldAppended, MaterialsTypes DEF Newest
    <2>2. NewSession.views = 0
      BY DEF NewSession
    <2>3. \A k \in 1..Newest' : k > Newest => k = Newest + 1
      BY <2>1, MaterialsTypes DEF Newest
    <2>4. held' \in HeldSessions
      BY <2>1 DEF Grows
    <2> QED
      BY <2>1, <2>2, <2>3, <2>4, MaterialsTypes DEF SameViews, Newest
  <1>3. PICK q \in Ask :
           /\ ask' = [d \in Askers |-> IF d = c THEN q ELSE Grown(ask[d])]
           /\ q.at = Newest + 1 /\ q.pc = (IF ask[c].checked THEN "act" ELSE "check")
           /\ q.id = ask[c].id /\ q.of = ask[c].of /\ q.who = ask[c].who
    <2>1. Newest + 1 \in Numbers
      BY <1>1, MaterialsTypes DEF Numbers
    <2>2. PICK pc \in {"act", "check"} : pc = IF ask[c].checked THEN "act" ELSE "check"
      OBVIOUS
    <2>3. PICK q : q = [ask[c] EXCEPT !.at = Newest + 1, !.pc = pc]
      OBVIOUS
    <2>4. ask' = [d \in Askers |-> IF d = c THEN q ELSE Grown(ask[d])]
      BY <2>2, <2>3 DEF MakesSession
    <2>5. /\ q \in Ask /\ q.at = Newest + 1 /\ q.pc = pc
          /\ q.id = ask[c].id /\ q.of = ask[c].of /\ q.who = ask[c].who
      BY <1>1, <2>1, <2>3 DEF Ask
    <2> QED
      BY <2>2, <2>4, <2>5
  <1>4. AskStep(c, q)
    BY <1>3, AskGrows, MaterialsTypes
  <1>5. AskFits(q, held')
    <2>1. q.at = Len(held') /\ q.at # 0 /\ q.id = 0 /\ Len(held') \in Nat
      BY <1>1, <1>2, <1>3, MaterialsTypes DEF AskFits, Newest
    <2>2. q.pc = "act" => q.of \in CheckedFirst \union {"summary"}
      BY <1>1, <1>3 DEF AskFits
    <2>3. q.pc \in {"act", "check"}
      BY <1>3
    <2> QED
      BY <2>1, <2>2, <2>3 DEF AskFits, CheckedFirst
  <1>6. ViewsCounted'
    BY <1>1, <1>2, <1>3, <1>4, WorkCounts
  <1>7. AsksFit'
    BY <1>2, <1>4, <1>5, AsksStay
  <1>8. OneMaker'
    <2>1. ~ collided => Newest' <= added' + 1
      BY <1>1, <1>2, MaterialsTypes DEF MaterialsInv, OneMaker
    <2>2. ~ collided => \A d \in Askers : ask'[d].pc # "make"
      BY <1>1, <1>3, <1>4 DEF MaterialsInv, OneMaker, AskStep
    <2> QED
      BY <1>1, <2>1, <2>2 DEF OneMaker
  <1>9. AllFit'
    BY <1>1, <1>2, AllFitStays, MaterialsTypes DEF MaterialsInv
  <1>10. MaterialsTypeOK'
    BY <1>1, <1>2, <1>4 DEF MaterialsInv, MaterialsTypeOK, AskStep, SameViews
  <1> QED
    BY <1>6, <1>7, <1>8, <1>9, <1>10 DEF MaterialsInv

LEMMA MatChecksSnapshot ==
  ASSUME MaterialsInv, NEW c \in Askers, ChecksSnapshot(c)
  PROVE  MaterialsInv'
  <1>1. /\ ask[c].pc = "check" /\ Newest < MaxSessions
        /\ held' = IF Newest = 0 THEN Append(held, NewSession) ELSE held
        /\ collided' = (collided \/ \E d \in Askers : ask[d].pc = "make")
        /\ taught' = taught /\ trial' = trial /\ asked' = asked /\ added' = added
        /\ posts' = posts /\ shared' = shared /\ handed' = handed
    BY DEF ChecksSnapshot, Elsewhere
  <1>2. /\ Grows(held, held') /\ SameViews
        /\ Newest' = Newest \/ (Newest = 0 /\ Newest' = 1)
        /\ AskStep(c, NoAsk)
    <2>1. CASE Newest # 0
      <3>1. held' = held /\ Turns(c, NoAsk)
        <4>1. ask' = [d \in Askers |-> IF d = c THEN NoAsk ELSE ask[d]]
          BY <2>1 DEF ChecksSnapshot
        <4> QED
          BY <1>1, <2>1, <4>1, MaterialsTypes DEF Turns
      <3> QED
        BY <3>1, HeldUntouched, AskTurns, NoAskTyped, MaterialsTypes
    <2>2. CASE Newest = 0
      <3>1. /\ held' = Append(held, NewSession)
            /\ ask' = [d \in Askers |-> IF d = c THEN NoAsk ELSE Grown(ask[d])]
        BY <1>1, <2>2 DEF ChecksSnapshot
      <3>2. /\ Grows(held, held') /\ Len(held') = Len(held) + 1
            /\ \A k \in 1..Len(held) : held'[k] = held[k]
            /\ held'[Len(held) + 1] = NewSession
        BY <1>1, <3>1, HeldAppended, MaterialsTypes DEF Newest
      <3>3. NewSession.views = 0 /\ Newest' = 1
        BY <2>2, <3>2 DEF NewSession, Newest
      <3>4. \A k \in 1..Newest' : k = Newest + 1
        BY <2>2, <3>3
      <3>5. SameViews
        BY <2>2, <3>2, <3>3, <3>4 DEF SameViews, Newest, Grows
      <3> QED
        BY <2>2, <3>1, <3>2, <3>3, <3>5, AskGrows, NoAskTyped, MaterialsTypes
    <2> QED
      BY <2>1, <2>2
  <1>3. AskFits(NoAsk, held')
    BY <1>2, NoAskFits DEF SameViews
  <1>4. ViewsCounted'
    BY <1>1, <1>2, NoAskTyped, WorkCounts
  <1>5. AsksFit'
    BY <1>2, <1>3, NoAskTyped, AsksStay
  <1>6. OneMaker'
    <2>1. ~ collided' => \A d \in Askers : ask'[d].pc # "make"
      BY <1>1, <1>2, NoAskTyped DEF AskStep
    <2>2. ~ collided' => Newest' <= added' + 1
      <3>1. added' = added /\ added \in Nat /\ (~ collided' => Newest <= added + 1)
        BY <1>1, MaterialsTypes DEF MaterialsInv, OneMaker
      <3>2. Newest' = Newest \/ Newest' = 1
        BY <1>2
      <3> QED
        BY <3>1, <3>2
    <2> QED
      BY <2>1, <2>2 DEF OneMaker
  <1>7. AllFit'
    BY <1>1, <1>2, AllFitStays, MaterialsTypes DEF MaterialsInv
  <1>8. collided' \in BOOLEAN
    BY <1>1 DEF MaterialsInv, MaterialsTypeOK
  <1>9. MaterialsTypeOK'
    BY <1>1, <1>2, <1>8 DEF MaterialsInv, MaterialsTypeOK, AskStep, SameViews
  <1> QED
    BY <1>4, <1>5, <1>6, <1>7, <1>9 DEF MaterialsInv

LEMMA Ends ==
  ASSUME MaterialsInv, NEW c \in Askers, Rejected(c), ask[c].pc \notin {"idle", "url"},
         UNCHANGED <<held, taught, trial, asked, added, collided>>, Elsewhere
  PROVE  MaterialsInv'
  BY GoesOn, NoAskTyped, NoAskFits, MaterialsTypes DEF Rejected

LEMMA MatChecks ==
  ASSUME MaterialsInv, NEW c \in Askers, Checks(c)
  PROVE  MaterialsInv'
  <1>1. /\ ask[c].pc = "check" /\ ask[c] \in Ask /\ AskFits(ask[c], held)
        /\ ask[c].of # "board" \/ ask[c].at # 0
        /\ UNCHANGED <<held, taught, trial, asked, added, collided>> /\ Elsewhere
    BY AskOf DEF Checks
  <1>2. CASE ~ Allowed(c)
    BY <1>1, <1>2, Ends DEF Checks
  <1>3. CASE Allowed(c)
    <2>1. PICK q \in Ask :
             /\ Turns(c, q)
             /\ q.pc = (IF ask[c].of \in CheckedFirst THEN "resolve" ELSE "act")
             /\ q.id = ask[c].id /\ q.at = ask[c].at /\ q.of = ask[c].of
             /\ q.who = ask[c].who /\ q.moved = ask[c].moved
      <3>1. PICK pc \in {"act", "resolve"} :
                 pc = IF ask[c].of \in CheckedFirst THEN "resolve" ELSE "act"
        OBVIOUS
      <3>2. PICK q : q = [ask[c] EXCEPT !.checked = TRUE, !.pc = pc]
        OBVIOUS
      <3>3. Turns(c, q)
        BY <1>3, <3>1, <3>2 DEF Checks
      <3>4. /\ q \in Ask /\ q.pc = pc
            /\ q.id = ask[c].id /\ q.at = ask[c].at /\ q.of = ask[c].of
            /\ q.who = ask[c].who /\ q.moved = ask[c].moved
        BY <1>1, <3>2 DEF Ask
      <3> QED
        BY <3>1, <3>3, <3>4
    <2>2. q.at <= Len(held) /\ q.id <= Len(held)
      BY <1>1, <2>1 DEF AskFits
    <2>3. q.pc = "act" => q.of \notin CheckedFirst
      BY <2>1
    <2>4. q.pc = "act" /\ q.of \in Makers \union {"note", "board"} => q.at # 0
      BY <1>1, <1>3, <2>1, <2>3 DEF AskFits, Allowed, Makers
    <2>5. q.pc = "act" /\ q.of = "share" /\ q.who = "tutor" => held[q.at].over
      BY <1>3, <2>1 DEF Allowed
    <2>6. q.of = "post" /\ ~ q.moved => q.at = IF q.id = 0 THEN Len(held) ELSE q.id
      BY <1>1, <2>1 DEF AskFits
    <2>7. q.of = "post" /\ ~ q.moved /\ q.who = "guest" => held[q.at].guest
      <3> HAVE q.of = "post" /\ ~ q.moved /\ q.who = "guest"
      <3>1. Access("guest", Checked(c))
        BY <1>3, <2>1 DEF Allowed
      <3>2. Checked(c) = q.at
        BY <2>1, <2>6 DEF Checked, StandsFor, Newest
      <3> QED
        BY <3>1, <3>2 DEF Access
    <2>8. q.pc = "resolve" => q.of \in CheckedFirst
      BY <2>1
    <2>9. q.pc \in {"act", "resolve"}
      BY <2>1
    <2>10. AskFits(q, held)
      BY <2>2, <2>4, <2>5, <2>6, <2>7, <2>8, <2>9 DEF AskFits
    <2> QED
      BY <1>1, <2>1, <2>9, <2>10, GoesOn
  <1> QED
    BY <1>2, <1>3

LEMMA MatLooks ==
  ASSUME MaterialsInv, NEW c \in Askers, NEW of, Looks(c, of)
  PROVE  MaterialsInv'
  BY Ends DEF Looks, Acts

\* A request that ends by writing leaves the counts and the others as they are.
LEMMA EndsWriting ==
  ASSUME MaterialsInv, NEW c \in Askers, Rejected(c), ask[c].pc \notin {"idle", "url"},
         SameViews, Grows(held, held'), Newest' = Newest, AllFit', posts' \subseteq Post,
         shared' \subseteq [at: Numbers, who: People],
         UNCHANGED <<taught, trial, asked, added, collided, handed>>
  PROVE  MaterialsInv'
  <1>1. AskStep(c, NoAsk)
    BY AskTurns, NoAskTyped, MaterialsTypes DEF Rejected
  <1>2. ViewsCounted'
    BY <1>1, WorkCounts, NoAskTyped
  <1>3. AsksFit'
    BY <1>1, AsksStay, NoAskTyped, NoAskFits DEF Grows
  <1>4. OneMaker'
    BY <1>1, MakersStay, NoAskTyped
  <1>5. MaterialsTypeOK'
    BY <1>1 DEF MaterialsInv, MaterialsTypeOK, AskStep, SameViews
  <1> QED
    BY <1>2, <1>3, <1>4, <1>5 DEF MaterialsInv

LEMMA MatPosts ==
  ASSUME MaterialsInv, NEW c \in Askers, PostWrites(c)
  PROVE  MaterialsInv'
  <1>1. /\ ask[c].pc = "act" /\ ask[c].of = "post" /\ ask[c] \in Ask /\ AskFits(ask[c], held)
        /\ Rejected(c) /\ held' = held
        /\ UNCHANGED <<taught, trial, shared, handed, asked, added, collided>>
    BY AskOf DEF PostWrites, Acts
  <1>2. SameViews /\ Grows(held, held') /\ Newest' = Newest
    BY <1>1, HeldUntouched
  <1>3. PICK p \in Post : /\ posts' = posts \union {p}
                          /\ p.at = ask[c].at /\ p.id = ask[c].id /\ p.who = ask[c].who
                          /\ p.moved = ask[c].moved /\ p.newest = (ask[c].at = Newest)
    <2>1. PICK b \in BOOLEAN : b = (ask[c].at = Newest)
      OBVIOUS
    <2>2. PICK p : p = [at |-> ask[c].at, id |-> ask[c].id, who |-> ask[c].who,
                        moved |-> ask[c].moved, newest |-> b]
      OBVIOUS
    <2>3. p \in Post
      BY <1>1, <2>2 DEF Post, Ask
    <2> QED
      BY <2>1, <2>2, <2>3 DEF PostWrites
  <1>4. PostFits(p, held)
    <2>1. p.at \in 1..Newest
      BY <1>1, <1>3, MaterialsTypes DEF AskFits, Makers, Newest, Ask, Numbers
    <2>2. p.at \in DOMAIN held
      BY <2>1, MaterialsTypes
    <2>3. p.id = 0 /\ ~ p.moved => p.newest
      BY <1>1, <1>3 DEF AskFits, Newest
    <2>4. p.who = "guest" /\ ~ p.moved => held[p.at].guest
      BY <1>1, <1>3 DEF AskFits
    <2> QED
      BY <2>2, <2>3, <2>4 DEF PostFits
  <1>5. AllFit'
    BY <1>1, <1>3, <1>4 DEF MaterialsInv, AllFit
  <1>6. posts' \subseteq Post /\ shared' \subseteq [at: Numbers, who: People]
    BY <1>1, <1>3 DEF MaterialsInv, MaterialsTypeOK
  <1> QED
    BY <1>1, <1>2, <1>5, <1>6, EndsWriting

LEMMA MatShares ==
  ASSUME MaterialsInv, NEW c \in Askers, ShareWrites(c)
  PROVE  MaterialsInv'
  <1>1. /\ ask[c].pc = "act" /\ ask[c].of = "share" /\ ask[c] \in Ask /\ AskFits(ask[c], held)
        /\ Rejected(c) /\ held' = held
        /\ UNCHANGED <<taught, trial, posts, handed, asked, added, collided>>
    BY AskOf DEF ShareWrites, Acts
  <1>2. SameViews /\ Grows(held, held') /\ Newest' = Newest
    BY <1>1, HeldUntouched
  <1>3. PICK n \in [at: Numbers, who: People] :
             shared' = shared \union {n} /\ n.at = ask[c].at /\ n.who = ask[c].who
    <2>1. PICK n : n = [at |-> ask[c].at, who |-> ask[c].who]
      OBVIOUS
    <2>2. n \in [at: Numbers, who: People]
      BY <1>1, <2>1 DEF Ask
    <2> QED
      BY <2>1, <2>2 DEF ShareWrites
  <1>4. NoteFits(n, held)
    <2>1. n.at \in 1..Newest
      BY <1>1, <1>3, MaterialsTypes DEF AskFits, Makers, Newest, Ask, Numbers
    <2> QED
      BY <1>1, <1>3, <2>1, MaterialsTypes DEF NoteFits, AskFits
  <1>5. AllFit'
    BY <1>1, <1>3, <1>4 DEF MaterialsInv, AllFit
  <1>6. posts' \subseteq Post /\ shared' \subseteq [at: Numbers, who: People]
    BY <1>1, <1>3 DEF MaterialsInv, MaterialsTypeOK
  <1> QED
    BY <1>1, <1>2, <1>5, <1>6, EndsWriting

\* A row of a session is changed, and its views and what is known of it are not.
LEMMA RowChanges ==
  ASSUME MaterialsInv, NEW k \in 1..Newest, NEW rec \in OneSession,
         held' = [held EXCEPT ![k] = rec],
         held[k].over => rec.over, held[k].guest => rec.guest, rec.views = held[k].views
  PROVE  /\ Grows(held, held') /\ SameViews /\ Newest' = Newest
  <1>1. /\ Grows(held, held') /\ Len(held') = Len(held) /\ held'[k] = rec
        /\ \A j \in 1..Newest : j # k => held'[j] = held[j]
    <2>1. held \in HeldSessions
      BY MaterialsTypes
    <2> QED
      BY <2>1, HeldChanged
  <1> QED
    BY <1>1, MaterialsNumbers DEF SameViews, Newest, Grows

LEMMA MatAnnotates ==
  ASSUME MaterialsInv, NEW c \in Askers, NoteWrites(c) \/ SnapshotWrites(c)
  PROVE  MaterialsInv'
  <1>1. /\ ask[c].pc = "act" /\ ask[c].of \in {"note", "board"} /\ ask[c] \in Ask
        /\ AskFits(ask[c], held) /\ Rejected(c)
        /\ UNCHANGED <<taught, trial, posts, shared, handed, asked, added, collided>>
    BY AskOf DEF NoteWrites, SnapshotWrites, Annotates, Acts, Elsewhere
  <1>2. ask[c].at \in 1..Newest
    BY <1>1, MaterialsTypes DEF AskFits, Newest, Ask, Numbers
  <1>3. PICK rec \in OneSession :
             /\ held' = [held EXCEPT ![ask[c].at] = rec]
             /\ rec.over = held[ask[c].at].over /\ rec.guest = held[ask[c].at].guest
             /\ rec.views = held[ask[c].at].views
    <2>1. held[ask[c].at] \in OneSession
      BY <1>2, MaterialsTypes
    <2>2. PICK r : /\ held' = [held EXCEPT ![ask[c].at] = r]
                   /\ \/ r = [held[ask[c].at] EXCEPT !.note = TRUE]
                      \/ r = [held[ask[c].at] EXCEPT !.board = TRUE]
      BY DEF NoteWrites, SnapshotWrites, Annotates
    <2>3. /\ r \in OneSession /\ r.over = held[ask[c].at].over
          /\ r.guest = held[ask[c].at].guest /\ r.views = held[ask[c].at].views
      <3>1. CASE r = [held[ask[c].at] EXCEPT !.note = TRUE]
        BY <2>1, <3>1 DEF OneSession
      <3>2. CASE r = [held[ask[c].at] EXCEPT !.board = TRUE]
        BY <2>1, <3>2 DEF OneSession
      <3> QED
        BY <2>2, <3>1, <3>2
    <2> QED
      BY <2>2, <2>3
  <1>4. Grows(held, held') /\ SameViews /\ Newest' = Newest
    BY <1>2, <1>3, RowChanges
  <1>5. AllFit'
    BY <1>1, <1>4, AllFitStays, MaterialsTypes DEF MaterialsInv
  <1>6. posts' \subseteq Post /\ shared' \subseteq [at: Numbers, who: People]
    BY <1>1 DEF MaterialsInv, MaterialsTypeOK
  <1> QED
    BY <1>1, <1>4, <1>5, <1>6, EndsWriting

LEMMA MatStreams ==
  ASSUME MaterialsInv, NEW c \in Askers, StreamCounts(c)
  PROVE  MaterialsInv'
  <1>1. /\ ask[c].pc = "act" /\ ask[c].of = "stream" /\ ask[c] \in Ask /\ AskFits(ask[c], held)
        /\ UNCHANGED <<taught, trial, asked, added, collided>> /\ Elsewhere
    BY AskOf DEF StreamCounts, Acts
  <1>2. ask[c].at \in 1..Newest
    BY <1>1, MaterialsTypes DEF AskFits, Makers, Newest, Ask, Numbers
  <1>3. PICK k \in 1..Newest : k = ask[c].at
    BY <1>2
  <1>4. CASE held[k].recording # "kept" \/ Locked(ask[c].who)
    <2>1. Rejected(c) /\ UNCHANGED held
      BY <1>3, <1>4 DEF StreamCounts
    <2> QED
      BY <1>1, <2>1, Ends
  <1>5. CASE ~ (held[k].recording # "kept" \/ Locked(ask[c].who))
    <2>1. /\ held[k] \in OneSession /\ k \in Numbers
          /\ held[k].views \in Nat /\ c \in Unserved
          /\ IsFiniteSet(Unserved) /\ Cardinality(Unserved) \in Nat
          /\ held[k].views + Cardinality(Unserved) <= asked
      BY <1>1, MaterialsTypes, FS_CardinalityType
      DEF MaterialsInv, ViewsCounted, OneSession, Unserved
    <2>2. Cardinality(Unserved \ {c}) = Cardinality(Unserved) - 1 /\ IsFiniteSet(Unserved \ {c})
      BY <2>1, FS_RemoveElement
    <2>3. Cardinality(Unserved \ {c}) \in Nat
      BY <2>2, FS_CardinalityType
    <2>4. held[k].views + 1 \in 0..MaxAsked
      <3>1. PICK n \in Nat, v \in Nat, a \in Nat :
                /\ n = Cardinality(Unserved) /\ n - 1 \in Nat /\ v = held[k].views
                /\ a = asked /\ v + n <= a
        BY <2>1, <2>2, <2>3, MaterialsNumbers
      <3>2. asked <= MaxAsked /\ MaxAsked \in Nat
        BY MaterialsNumbers
      <3> QED
        BY <3>1, <3>2
    <2>5. PICK rec \in OneSession :
               /\ held' = [held EXCEPT ![k] = rec]
               /\ rec.over = held[k].over /\ rec.guest = held[k].guest
               /\ rec.views = held[k].views + 1
      <3>1. PICK rec : rec = [held[k] EXCEPT !.views = held[k].views + 1]
        OBVIOUS
      <3>2. held' = [held EXCEPT ![k] = rec]
        BY <1>3, <1>5, <3>1 DEF StreamCounts
      <3>3. /\ rec \in OneSession /\ rec.over = held[k].over /\ rec.guest = held[k].guest
            /\ rec.views = held[k].views + 1
        BY <2>1, <2>4, <3>1 DEF OneSession
      <3> QED
        BY <3>2, <3>3
    <2>6. PICK q \in Ask : /\ Turns(c, q) /\ q.pc = "url" /\ q.at = k /\ q.id = ask[c].id
                           /\ q.of = "stream"
      <3>1. PICK q : q = [ask[c] EXCEPT !.pc = "url"]
        OBVIOUS
      <3>2. Turns(c, q)
        BY <1>3, <1>5, <3>1 DEF StreamCounts
      <3>3. q \in Ask /\ q.pc = "url" /\ q.at = k /\ q.id = ask[c].id /\ q.of = "stream"
        BY <1>1, <1>3, <3>1 DEF Ask
      <3> QED
        BY <3>2, <3>3
    <2>7. /\ Grows(held, held') /\ Newest' = Newest /\ held'[k] = rec
          /\ \A j \in 1..Newest : j # k => held'[j] = held[j]
          /\ DOMAIN held' = 1..Newest
      <3>1. /\ Grows(held, held') /\ Len(held') = Len(held) /\ held'[k] = rec
            /\ \A j \in 1..Newest : j # k => held'[j] = held[j]
        <4>1. /\ held \in HeldSessions
              /\ (held[k].over => rec.over) /\ (held[k].guest => rec.guest)
          BY <2>5, MaterialsTypes
        <4> QED
          BY <2>5, <4>1, HeldChanged
      <3>2. DOMAIN held' = 1..Len(held')
        BY <3>1, HeldTyped DEF Grows
      <3> QED
        BY <3>1, <3>2 DEF Newest
    <2>8. AskStep(c, q)
      BY <2>6, <2>7, AskTurns, MaterialsTypes
    <2>9. ViewsCounted'
      <3>1. Unserved' = Unserved \ {c}
        BY <2>6, <2>8 DEF Unserved, AskStep
      <3>2. Receiving(k)' = Receiving(k) \union {c} /\ c \notin Receiving(k)
        BY <1>1, <2>6, <2>8 DEF Receiving, AskStep
      <3>3. \A j \in Numbers : j # k => Receiving(j)' = Receiving(j)
        BY <1>1, <2>6, <2>8 DEF Receiving, AskStep
      <3>4. handed' = handed /\ asked' = asked
        BY <1>1 DEF Elsewhere
      <3>5. ASSUME NEW j \in 1..Newest
            PROVE  /\ IsFiniteSet(Receiving(j)')
                   /\ held'[j].views + Cardinality(Unserved') <= asked'
                   /\ handed'[j] + Cardinality(Receiving(j)') <= held'[j].views
        <4>1. /\ IsFiniteSet(Receiving(j)) /\ Cardinality(Receiving(j)) \in Nat
              /\ held[j].views + Cardinality(Unserved) <= asked
              /\ handed[j] + Cardinality(Receiving(j)) <= held[j].views
              /\ held[j].views \in Nat /\ handed[j] \in Nat /\ j \in Numbers
          BY MaterialsTypes, FS_CardinalityType DEF MaterialsInv, ViewsCounted, OneSession
        <4>2. CASE j = k
          <5>1. /\ IsFiniteSet(Receiving(j)')
                /\ Cardinality(Receiving(j)') = Cardinality(Receiving(j)) + 1
            BY <3>2, <4>1, <4>2, FS_AddElement
          <5>2. PICK n \in Nat, h \in Nat, v \in Nat, m \in Nat :
                    /\ n = Cardinality(Receiving(j)) /\ h = handed[j] /\ v = held[j].views
                    /\ m = Cardinality(Unserved) /\ v + m <= asked /\ h + n <= v
            BY <2>1, <4>1
          <5>3. /\ held'[j].views = v + 1 /\ handed'[j] = h /\ asked' = asked
                /\ Cardinality(Receiving(j)') = n + 1 /\ Cardinality(Unserved') = m - 1
            BY <2>2, <2>5, <2>7, <3>1, <3>4, <4>2, <5>1, <5>2
          <5>4. asked \in Nat
            BY MaterialsTypes
          <5>5. /\ held'[j].views + Cardinality(Unserved') <= asked'
                /\ handed'[j] + Cardinality(Receiving(j)') <= held'[j].views
            BY <5>2, <5>3, <5>4
          <5> QED
            BY <5>1, <5>5
        <4>3. CASE j # k
          <5>1. /\ held'[j] = held[j] /\ handed' = handed /\ asked' = asked
                /\ Receiving(j)' = Receiving(j)
                /\ Cardinality(Unserved') = Cardinality(Unserved) - 1
            BY <2>2, <2>7, <3>1, <3>3, <3>4, <4>1, <4>3
          <5>2. asked \in Nat
            BY MaterialsTypes
          <5>3. held'[j].views + Cardinality(Unserved') <= asked'
            BY <2>1, <4>1, <5>1, <5>2
          <5> QED
            BY <4>1, <5>1, <5>3
        <4> QED
          BY <4>2, <4>3
      <3>6. IsFiniteSet(Unserved') /\ Cardinality(Unserved') <= asked'
        BY <2>1, <2>2, <3>1, <3>4, MaterialsTypes
      <3>7. \A j \in Numbers \ DOMAIN held' : handed'[j] = 0
        BY <2>7, <3>4, MaterialsTypes DEF MaterialsInv, ViewsCounted
      <3> QED
        BY <2>7, <3>5, <3>6, <3>7 DEF ViewsCounted
    <2>10. AskFits(q, held')
      <3>1. /\ q.id <= Len(held') /\ q.at <= Len(held') /\ q.at # 0
        BY <1>1, <1>3, <2>6, <2>7, MaterialsTypes DEF AskFits, Newest
      <3> QED
        BY <2>6, <3>1 DEF AskFits
    <2>11. AsksFit'
      BY <2>7, <2>8, <2>10, AsksStay
    <2>12. OneMaker'
      BY <1>1, <2>6, <2>7, <2>8, MakersStay
    <2>13. AllFit'
      BY <1>1, <2>7, AllFitStays, MaterialsTypes DEF MaterialsInv, Elsewhere
    <2>14. MaterialsTypeOK'
      BY <1>1, <2>7, <2>8 DEF MaterialsInv, MaterialsTypeOK, AskStep, Grows, Elsewhere
    <2> QED
      BY <2>9, <2>11, <2>12, <2>13, <2>14 DEF MaterialsInv
  <1> QED
    BY <1>4, <1>5

LEMMA MatHands ==
  ASSUME MaterialsInv, NEW c \in Askers, StreamHands(c)
  PROVE  MaterialsInv'
  <1>1. /\ ask[c].pc = "url" /\ ask[c] \in Ask /\ AskFits(ask[c], held) /\ Turns(c, NoAsk)
        /\ held' = held /\ taught' = taught /\ trial' = trial /\ posts' = posts
        /\ shared' = shared /\ asked' = asked /\ added' = added /\ collided' = collided
    BY AskOf DEF StreamHands, Rejected
  <1>2. SameViews /\ Grows(held, held') /\ Newest' = Newest
    BY <1>1, HeldUntouched
  <1>3. AskStep(c, NoAsk)
    BY <1>1, <1>2, AskTurns, NoAskTyped, MaterialsTypes
  <1>4. ask[c].at \in 1..Newest
    BY <1>1, MaterialsTypes DEF AskFits, Newest, Ask, Numbers
  <1>5. PICK k \in 1..Newest : k = ask[c].at
    BY <1>4
  <1>6. /\ handed' = [handed EXCEPT ![k] = @ + 1] \/ handed' = handed
        /\ c \in Receiving(k)
    BY <1>1, <1>5 DEF StreamHands, Receiving
  <1>7. /\ Receiving(k)' = Receiving(k) \ {c} /\ Unserved' = Unserved
        /\ \A j \in Numbers : j # k => Receiving(j)' = Receiving(j)
    BY <1>1, <1>3, <1>5, NoAskTyped DEF Receiving, Unserved, AskStep
  <1>8. \A j \in 1..Newest :
           /\ IsFiniteSet(Receiving(j)) /\ Cardinality(Receiving(j)) \in Nat
           /\ held[j].views + Cardinality(Unserved) <= asked
           /\ handed[j] + Cardinality(Receiving(j)) <= held[j].views
           /\ held[j].views \in Nat /\ handed[j] \in Nat /\ j \in Numbers
           /\ held[j].views <= MaxAsked
    <2> SUFFICES ASSUME NEW j \in 1..Newest
                 PROVE  /\ IsFiniteSet(Receiving(j)) /\ Cardinality(Receiving(j)) \in Nat
                        /\ held[j].views + Cardinality(Unserved) <= asked
                        /\ handed[j] + Cardinality(Receiving(j)) <= held[j].views
                        /\ held[j].views \in Nat /\ handed[j] \in Nat /\ j \in Numbers
                        /\ held[j].views <= MaxAsked
      OBVIOUS
    <2>1. /\ held[j] \in OneSession /\ j \in Numbers /\ handed[j] \in 0..MaxAsked
      BY MaterialsTypes
    <2>2. /\ IsFiniteSet(Receiving(j))
          /\ held[j].views + Cardinality(Unserved) <= asked
          /\ handed[j] + Cardinality(Receiving(j)) <= held[j].views
      BY MaterialsNumbers DEF MaterialsInv, ViewsCounted
    <2>3. /\ held[j].views \in Nat /\ held[j].views <= MaxAsked /\ handed[j] \in Nat
      BY <2>1, MaterialsNumbers DEF OneSession
    <2>4. Cardinality(Receiving(j)) \in Nat
      BY <2>2, FS_CardinalityType
    <2> QED
      BY <2>1, <2>2, <2>3, <2>4
  <1>9. /\ IsFiniteSet(Receiving(k) \ {c})
        /\ Cardinality(Receiving(k) \ {c}) = Cardinality(Receiving(k)) - 1
        /\ Cardinality(Receiving(k) \ {c}) \in Nat
    BY <1>6, <1>8, FS_RemoveElement, FS_CardinalityType
  <1>10. handed[k] + 1 \in 0..MaxAsked
    <2>1. MaxAsked \in Nat
      BY MaterialsTypes
    <2>2. PICK n \in Nat, h \in Nat, v \in Nat :
              /\ n = Cardinality(Receiving(k)) /\ h = handed[k] /\ v = held[k].views
              /\ n - 1 \in Nat /\ h + n <= v /\ v <= MaxAsked
      BY <1>8, <1>9
    <2> QED
      BY <2>1, <2>2
  <1>11. /\ handed' \in [Numbers -> 0..MaxAsked]
         /\ handed'[k] \in {handed[k], handed[k] + 1}
         /\ \A j \in Numbers : j # k => handed'[j] = handed[j]
    BY <1>6, <1>8, <1>10, MaterialsTypes
  <1>12. ViewsCounted'
    <2>1. ASSUME NEW j \in 1..Newest
          PROVE  /\ IsFiniteSet(Receiving(j)')
                 /\ held'[j].views + Cardinality(Unserved') <= asked'
                 /\ handed'[j] + Cardinality(Receiving(j)') <= held'[j].views
      <3>1. CASE j = k
        <4>1. PICK n \in Nat, h \in Nat, v \in Nat :
                  /\ n = Cardinality(Receiving(k)) /\ h = handed[k] /\ v = held[k].views
                  /\ h + n <= v
          BY <1>8
        <4>2. /\ held'[j].views = v /\ handed'[j] \in {h, h + 1}
              /\ Cardinality(Receiving(j)') = n - 1 /\ IsFiniteSet(Receiving(j)')
          BY <1>1, <1>7, <1>9, <1>11, <3>1, <4>1
        <4>3. handed'[j] + Cardinality(Receiving(j)') <= held'[j].views
          BY <4>1, <4>2
        <4> QED
          BY <1>1, <1>7, <1>8, <4>2, <4>3
      <3>2. CASE j # k
        <4>1. /\ held'[j].views = held[j].views /\ handed'[j] = handed[j]
              /\ Receiving(j)' = Receiving(j)
          BY <1>1, <1>7, <1>8, <1>11, <3>2
        <4> QED
          BY <1>1, <1>7, <1>8, <4>1
      <3> QED
        BY <3>1, <3>2
    <2>2. IsFiniteSet(Unserved') /\ Cardinality(Unserved') <= asked'
      BY <1>1, <1>7 DEF MaterialsInv, ViewsCounted
    <2>3. \A j \in Numbers \ DOMAIN held' : handed'[j] = 0
      BY <1>1, <1>11, MaterialsTypes DEF MaterialsInv, ViewsCounted
    <2>4. DOMAIN held' = 1..Newest
      BY <1>1, MaterialsTypes
    <2> QED
      BY <2>1, <2>2, <2>3, <2>4 DEF ViewsCounted
  <1>13. AsksFit'
    BY <1>2, <1>3, NoAskTyped, NoAskFits, AsksStay DEF Grows
  <1>14. OneMaker'
    BY <1>1, <1>2, <1>3, NoAskTyped, MakersStay
  <1>15. AllFit'
    BY <1>1, <1>2, AllFitStays, MaterialsTypes DEF MaterialsInv
  <1>16. MaterialsTypeOK'
    BY <1>1, <1>3, <1>11 DEF MaterialsInv, MaterialsTypeOK, AskStep
  <1> QED
    BY <1>12, <1>13, <1>14, <1>15, <1>16 DEF MaterialsInv

-----------------------------------------------------------------------------
(* What happens besides, and the theorems *)

LEMMA MatAdded ==
  ASSUME MaterialsInv, SessionAdded
  PROVE  MaterialsInv'
  <1>1. /\ Newest < MaxSessions /\ added < MaxAdded /\ added' = added + 1
        /\ held' = Append(held, NewSession) /\ ask' = [d \in Askers |-> Grown(ask[d])]
        /\ taught' = taught /\ trial' = trial /\ asked' = asked
        /\ posts' = posts /\ shared' = shared /\ handed' = handed /\ collided' = collided
    BY DEF SessionAdded, Elsewhere
  <1>2. /\ Grows(held, held') /\ Newest' = Newest + 1
        /\ \A k \in 1..Newest : held'[k] = held[k]
        /\ held'[Newest + 1] = NewSession
    BY <1>1, HeldAppended, MaterialsTypes DEF Newest
  <1>3. SameViews
    <2>1. NewSession.views = 0
      BY DEF NewSession
    <2>2. \A k \in 1..Newest' : k > Newest => k = Newest + 1
      BY <1>2, MaterialsTypes
    <2> QED
      BY <1>2, <2>1, <2>2, MaterialsNumbers DEF SameViews, Grows
  <1>4. \A d \in Askers : /\ ask[d] \in Ask /\ AskFits(ask[d], held)
                          /\ Grown(ask[d]) \in Ask /\ Grown(ask[d]).pc = ask[d].pc
                          /\ Grown(ask[d]).at = ask[d].at /\ AskFits(Grown(ask[d]), held)
                          /\ Grown(ask[d]).moved \/ Grown(ask[d]).pc = "idle"
    BY AskOf, GrownTyped
  <1>5. ViewsCounted'
    BY <1>1, <1>3, <1>4, CountsStay
  <1>6. AsksFit'
    <2>1. \A d \in Askers : AskFits(Grown(ask[d]), held')
      BY <1>2, <1>4, FitsStays, MaterialsTypes
    <2> QED
      BY <1>1, <2>1 DEF AsksFit
  <1>7. OneMaker'
    <2>1. \A d \in Askers : ask'[d].pc = ask[d].pc
      BY <1>1, <1>4
    <2>2. /\ Newest <= added + 1 => Newest' <= added' + 1
          /\ Newest <= added => Newest' <= added'
      <3>1. Newest \in Nat /\ added \in Nat
        BY MaterialsTypes
      <3> QED
        BY <1>1, <1>2, <3>1
    <2> QED
      BY <1>1, <2>1, <2>2 DEF MaterialsInv, OneMaker
  <1>8. AllFit'
    BY <1>1, <1>2, AllFitStays, MaterialsTypes DEF MaterialsInv
  <1>9. MaterialsTypeOK'
    <2>1. added' \in 0..MaxAdded
      BY <1>1, MaterialsTypes
    <2>2. ask' \in [Askers -> Ask]
      BY <1>1, <1>4
    <2> QED
      BY <1>1, <1>3, <2>1, <2>2 DEF MaterialsInv, MaterialsTypeOK, SameViews
  <1> QED
    BY <1>5, <1>6, <1>7, <1>8, <1>9 DEF MaterialsInv

\* The requests and what they have left behind stay as they are.
LEMMA AsksIdle ==
  ASSUME MaterialsInv, SameViews, Grows(held, held'), Newest' = Newest,
         taught' \in BOOLEAN, trial' \in BOOLEAN,
         UNCHANGED <<ask, posts, shared, handed, asked, added, collided>>
  PROVE  MaterialsInv'
  <1>1. ViewsCounted'
    BY CountsStay
  <1>2. AsksFit'
    <2>1. \A d \in Askers : AskFits(ask[d], held')
      BY FitsStays, AskOf, MaterialsTypes DEF Newest
    <2> QED
      BY <2>1 DEF AsksFit
  <1>3. OneMaker'
    BY DEF MaterialsInv, OneMaker
  <1>4. AllFit'
    BY AllFitStays, MaterialsTypes DEF MaterialsInv
  <1>5. MaterialsTypeOK'
    BY DEF MaterialsInv, MaterialsTypeOK, SameViews
  <1> QED
    BY <1>1, <1>2, <1>3, <1>4, <1>5 DEF MaterialsInv

LEMMA MatGoesOn ==
  ASSUME MaterialsInv, NEW k \in DOMAIN held, SessionGoesOn(k)
  PROVE  MaterialsInv'
  <1>1. k \in 1..Newest /\ held[k] \in OneSession
    BY MaterialsTypes
  <1>2. PICK r : /\ Changes(k, r)
                 /\ \/ r = [held[k] EXCEPT !.over = TRUE]
                    \/ r = [held[k] EXCEPT !.guest = TRUE]
                    \/ r = [held[k] EXCEPT !.recording = "kept"]
                    \/ r = [held[k] EXCEPT !.recording = "expired"]
    BY DEF SessionGoesOn
  <1>3. /\ r \in OneSession /\ r.views = held[k].views
        /\ held[k].over => r.over
        /\ held[k].guest => r.guest
    BY <1>1, <1>2 DEF OneSession
  <1>4. /\ held' = [held EXCEPT ![k] = r] /\ taught' = taught /\ trial' = trial
        /\ UNCHANGED <<ask, posts, shared, handed, asked, added, collided>>
    BY <1>2 DEF Changes, Elsewhere
  <1>5. Grows(held, held') /\ SameViews /\ Newest' = Newest
    BY <1>1, <1>3, <1>4, RowChanges
  <1> QED
    BY <1>4, <1>5, AsksIdle DEF MaterialsInv, MaterialsTypeOK

LEMMA MatTurns ==
  ASSUME MaterialsInv, Reassigned \/ Upgrades \/ UNCHANGED materialsVars
  PROVE  MaterialsInv'
  <1>1. /\ held' = held /\ taught' \in BOOLEAN /\ trial' \in BOOLEAN
        /\ UNCHANGED <<ask, posts, shared, handed, asked, added, collided>>
    BY DEF Reassigned, Upgrades, materialsVars, Elsewhere, MaterialsInv, MaterialsTypeOK
  <1> QED
    BY <1>1, HeldUntouched, AsksIdle

LEMMA MaterialsBegin == MaterialsInit => MaterialsInv
  <1> SUFFICES ASSUME MaterialsInit PROVE MaterialsInv
    OBVIOUS
  <1>1. /\ held = <<>> /\ Len(held) = 0 /\ DOMAIN held = {} /\ Newest = 0
        /\ ask = [c \in Askers |-> NoAsk] /\ posts = {} /\ shared = {}
        /\ handed = [k \in Numbers |-> 0] /\ asked = 0 /\ added = 0 /\ collided = FALSE
        /\ taught \in BOOLEAN /\ trial \in BOOLEAN
    BY DEF MaterialsInit, Newest
  <1>2. held \in HeldSessions
    <2>1. 0 \in Numbers /\ <<>> \in [1..0 -> OneSession]
      BY MaterialsAssumption DEF Numbers
    <2> QED
      BY <1>1, <2>1, HeldMade
  <1>3. MaterialsTypeOK
    <2>1. 0 \in 0..MaxAsked /\ 0 \in 0..MaxAdded
      BY MaterialsAssumption
    <2> QED
      BY <1>1, <1>2, <2>1, NoAskTyped DEF MaterialsTypeOK
  <1>4. ViewsCounted
    <2>1. Unserved = {}
      BY <1>1, NoAskTyped DEF Unserved
    <2> QED
      BY <1>1, <2>1, FS_EmptySet DEF ViewsCounted
  <1>5. AsksFit
    BY <1>1, <1>2, NoAskFits DEF AsksFit
  <1>6. OneMaker
    BY <1>1, NoAskTyped DEF OneMaker
  <1>7. AllFit
    BY <1>1 DEF AllFit
  <1> QED
    BY <1>3, <1>4, <1>5, <1>6, <1>7 DEF MaterialsInv

LEMMA MatRequests ==
  ASSUME MaterialsInv, NEW c \in Askers, Asking(c)
  PROVE  MaterialsInv'
  <1>1. CASE \E of \in Operations, id \in Numbers, who \in People : Asks(c, of, id, who)
    BY <1>1, MatAsks
  <1>2. CASE Resolves(c) \/ MakesSession(c) \/ ChecksSnapshot(c) \/ Checks(c)
    BY <1>2, MatResolves, MatMakes, MatChecksSnapshot, MatChecks
  <1>3. CASE PostWrites(c) \/ NoteWrites(c) \/ SnapshotWrites(c) \/ ShareWrites(c)
    BY <1>3, MatPosts, MatAnnotates, MatShares
  <1>4. CASE ReadsChat(c) \/ ReadsNotes(c) \/ ListsRecordings(c) \/ Enters(c)
             \/ ShowsSnapshot(c) \/ Summarizes(c)
    BY <1>4, MatLooks
    DEF ReadsChat, ReadsNotes, ListsRecordings, Enters, ShowsSnapshot, Summarizes
  <1>5. CASE StreamCounts(c) \/ StreamHands(c)
    BY <1>5, MatStreams, MatHands
  <1> QED
    BY <1>1, <1>2, <1>3, <1>4, <1>5 DEF Asking

LEMMA MaterialsContinue == MaterialsInv /\ [MaterialsNext]_materialsVars => MaterialsInv'
  <1> SUFFICES ASSUME MaterialsInv, [MaterialsNext]_materialsVars PROVE MaterialsInv'
    OBVIOUS
  <1>1. CASE \E c \in Askers : Asking(c)
    BY <1>1, MatRequests
  <1>2. CASE \E k \in DOMAIN held : SessionGoesOn(k)
    BY <1>2, MatGoesOn
  <1>3. CASE SessionAdded
    BY <1>3, MatAdded
  <1>4. CASE Reassigned \/ Upgrades \/ UNCHANGED materialsVars
    BY <1>4, MatTurns
  <1> QED
    BY <1>1, <1>2, <1>3, <1>4 DEF MaterialsNext

LEMMA MaterialsHold == MaterialsSpec => []MaterialsInv
  BY MaterialsBegin, MaterialsContinue, PTL DEF MaterialsSpec

\* The sessions of a booking and what belongs to them have their types; a session
\* never has more views than there were requests.
THEOREM MaterialsTyped == MaterialsSpec => []MaterialsTypeOK
  <1>1. MaterialsInv => MaterialsTypeOK
    BY DEF MaterialsInv
  <1> QED
    BY <1>1, MaterialsHold, PTL

\* However many requests by the id of a session or a booking overlap: one makes a
\* session unless two found none at one time, a message is in the session its
\* sender meant and may see unless one was made meanwhile, a tutor's notes are on
\* sessions that took place, and whoever got a recording's URL was counted
\* (ensureSessionId, checkBookingAccess, postMessage, shareNotes, the stream's URL).
THEOREM MaterialsPlaced == MaterialsSpec => []MaterialsInPlace
  <1>1. ASSUME MaterialsInv PROVE MaterialsInPlace
    <2>1. OneSessionByAsking
      BY <1>1 DEF MaterialsInv, OneMaker, OneSessionByAsking
    <2>2. PostsAreRead
      BY <1>1 DEF MaterialsInv, AllFit, PostFits, PostsAreRead
    <2>3. SharedAfterwards
      <3>1. \A n \in shared : n.who = "tutor" => held[n.at].over
        BY <1>1 DEF MaterialsInv, AllFit, NoteFits
      <3>2. ASSUME NEW k \in DOMAIN held PROVE handed[k] <= held[k].views
        <4>1. /\ Cardinality(Receiving(k)) \in Nat
              /\ handed[k] + Cardinality(Receiving(k)) <= held[k].views
          BY <1>1, FS_CardinalityType DEF MaterialsInv, ViewsCounted
        <4>2. held[k].views \in Nat /\ handed[k] \in Nat
          BY <1>1, MaterialsTypes DEF OneSession
        <4> QED
          BY <4>1, <4>2
      <3> QED
        BY <3>1, <3>2 DEF SharedAfterwards
    <2> QED
      BY <2>1, <2>2, <2>3 DEF MaterialsInPlace
  <1> QED
    BY <1>1, MaterialsHold, PTL

=============================================================================
