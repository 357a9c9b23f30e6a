--------------------------- MODULE BookingsProofs ---------------------------
(***************************************************************************)
(* Proofs about Bookings, for any number of bookings, tutors and requests, *)
(* any slots and any number of failures: types, that no tutor is double-   *)
(* booked by the platform, that autoAssignTutor assigns active tutors      *)
(* only, that a confirmed booking has a session or is owed one, and that   *)
(* the component implements Assignments.                                   *)
(*                                                                         *)
(* None of them is inductive.  BaseInv adds what a request may rely on:    *)
(* whom and what it is about, and the room for the session it will make.   *)
(* LockInv is the discipline of autoAssignTutor and claimBooking: who has  *)
(* checked a tutor holds his row's lock, and whoever gives a tutor a       *)
(* booking needs that lock.  OwedInv says who still has to make the        *)
(* session of a confirmed booking.  BoardInv is what the refinement needs  *)
(* beside these: who creates or claims a booking finds it as it was.       *)
(***************************************************************************)
EXTENDS Bookings, FiniteSetTheorems, TLAPS

-----------------------------------------------------------------------------
(* The inductive invariant *)

Kinds == {"scheduled", "in_progress", "cancelled"}
Counts == [Kinds -> Nat]

\* What request q is about.
IsAbout(q) ==
    /\ q.op \in {"create", "claim", "reassign", "cancel", "fallback"}
         => q.b \in BookingIds
    /\ q.op = "allocate" => IF q.pc = "look" THEN q.b = None ELSE q.b \in BookingIds
    /\ q.op \in {"claim", "allocate", "remove"} => q.t \in Tutors
    /\ q.op = "create" /\ q.pc \in {"lockTutor", "check", "commit"} => q.t \in Tutors

RequestInv == \A r \in Requests : IsAbout(req[r])

\* Nobody knows a booking that is not there.
AbsentInv ==
    \A b \in BookingIds :
        booking[b].status = "absent"
        => /\ booking[b].tutor = None
           /\ sessions[b] = NoSessions
           /\ \A r \in Requests : req[r].b # b

\* Every request that may add a session has room for it.
RoomInv ==
    \A b \in BookingIds :
        /\ IsFiniteSet(Adding(b))
        /\ Total(sessions[b]) + Cardinality(Adding(b)) <= MaxSessions

BaseInv == TypeOK /\ RequestInv /\ AbsentInv /\ RoomInv

-----------------------------------------------------------------------------
(* Rows and counts *)

LEMMA Bounds ==
  /\ MaxSessions \in Nat /\ MaxSessions > 0 /\ Horizon \in Nat
  /\ MaxAdmin \in Nat /\ MaxFaults \in Nat
  BY BoundAssumption

LEMMA NoneIsNone == None \notin BookingIds /\ None \notin Tutors /\ None \notin Requests
  BY NoneAssumption

LEMMA EmptyCount == NoSessions \in Counts /\ Total(NoSessions) = 0
                    /\ \A k \in Kinds : NoSessions[k] = 0
  BY DEF NoSessions, Counts, Kinds, Total

LEMMA CountTotal ==
  ASSUME NEW c \in Counts
  PROVE  Total(c) \in Nat /\ \A k \in Kinds : c[k] \in Nat /\ c[k] <= Total(c)
  BY DEF Counts, Kinds, Total

LEMMA CountWithin ==
  ASSUME NEW c \in Counts, Total(c) <= MaxSessions
  PROVE  c \in SessionCount
  <1>1. \A k \in Kinds : c[k] \in 0..MaxSessions
    BY CountTotal, Bounds
  <1> QED
    BY <1>1 DEF Counts, Kinds, SessionCount

LEMMA WithinIsCount == ASSUME NEW c \in SessionCount PROVE c \in Counts
  BY Bounds DEF SessionCount, Counts, Kinds

\* One more session that is scheduled.
LEMMA CountScheduled ==
  ASSUME NEW c \in Counts
  PROVE  /\ Scheduled(c) \in Counts
         /\ Total(Scheduled(c)) = Total(c) + 1
         /\ Scheduled(c)["scheduled"] = c["scheduled"] + 1
         /\ Scheduled(c)["in_progress"] = c["in_progress"]
         /\ Scheduled(c)["cancelled"] = c["cancelled"]
  BY DEF Counts, Kinds, Total, Scheduled

\* One that goes back to scheduled.
LEMMA CountRescheduled ==
  ASSUME NEW c \in Counts, NEW s \in Kinds, c[s] > 0
  PROVE  /\ Rescheduled(c, s) \in Counts
         /\ Total(Rescheduled(c, s)) = Total(c)
         /\ Rescheduled(c, s)["scheduled"] > 0
  <1> DEFINE d == [c EXCEPT ![s] = @ - 1]
  <1>1. c[s] - 1 \in Nat
    BY DEF Counts
  <1>2. d \in Counts /\ d[s] = c[s] - 1 /\ \A k \in Kinds \ {s} : d[k] = c[k]
    BY <1>1 DEF Counts
  <1>3. Total(d) = Total(c) - 1
    BY <1>2 DEF Counts, Kinds, Total
  <1> HIDE DEF d
  <1>4. Rescheduled(c, s) = Scheduled(d)
    BY DEF Rescheduled, d
  <1>5. d["scheduled"] \in Nat /\ Total(c) \in Nat
    BY <1>2, CountTotal DEF Counts, Kinds
  <1> QED
    BY <1>2, <1>3, <1>4, <1>5, CountScheduled

LEMMA CountCancelled ==
  ASSUME NEW c \in Counts
  PROVE  AllCancelled(c) \in Counts /\ Total(AllCancelled(c)) = Total(c)
  <1>1. Total(c) \in Nat
    BY CountTotal
  <1> QED
    BY <1>1 DEF AllCancelled, NoSessions, Counts, Kinds, Total

LEMMA IdleRequest == Idle \in Request /\ IsAbout(Idle) /\ Idle.b = None /\ Idle.op = "idle"
  BY DEF Idle, Request, IsAbout

LEMMA RequestRecord ==
  ASSUME NEW o \in {"idle", "create", "claim", "reassign", "allocate", "cancel", "remove",
                    "fallback"},
         NEW b \in BookingIds \union {None}, NEW t \in Tutors \union {None},
         NEW p \in {"idle", "deduct", "lockTutor", "check", "commit", "session",
                    "look", "assign", "find", "save", "cancel", "deactivate", "mark"},
         NEW s \in BOOLEAN
  PROVE  [op |-> o, b |-> b, t |-> t, pc |-> p, seen |-> s] \in Request
  BY DEF Request

LEMMA RequestChanges ==
  ASSUME NEW q \in Request,
         NEW p \in {"lockTutor", "check", "commit", "session", "assign", "find", "save"},
         NEW b \in BookingIds \union {None}, NEW t \in Tutors \union {None}, NEW s \in BOOLEAN
  PROVE  /\ [q EXCEPT !.pc = p] \in Request
         /\ [q EXCEPT !.t = t, !.pc = p] \in Request
         /\ [q EXCEPT !.b = b, !.pc = p] \in Request
         /\ [q EXCEPT !.pc = p, !.seen = s] \in Request
  <1>1. [q EXCEPT !.pc = p] \in Request
    BY DEF Request
  <1>2. [q EXCEPT !.t = t, !.pc = p] \in Request
    BY DEF Request
  <1>3. [q EXCEPT !.b = b, !.pc = p] \in Request
    BY DEF Request
  <1>4. [q EXCEPT !.pc = p, !.seen = s] \in Request
    BY DEF Request
  <1> QED
    BY <1>1, <1>2, <1>3, <1>4

\* A row that is given to a tutor, or taken from one.
LEMMA RowAssigned ==
  ASSUME NEW row \in BookingRow, NEW t \in Tutors
  PROVE  Assigned(row, t) \in BookingRow
  BY DEF BookingRow, BookingStatus, Assigned

LEMMA RowChosen ==
  ASSUME NEW row \in BookingRow, NEW t \in Tutors,
         NEW who \in {"platform", "reassign", "admin"}
  PROVE  Chosen(row, t, who) \in BookingRow
  BY DEF BookingRow, BookingStatus, Assigned, Chosen

LEMMA RowUnassigned ==
  ASSUME NEW row \in BookingRow
  PROVE  /\ Unassigned(row) \in BookingRow
         /\ Unassigned(row).tutor = None /\ Unassigned(row).status = "requested"
         /\ Unassigned(row).chosenBy = row.chosenBy
  BY DEF BookingRow, BookingStatus, Unassigned

LEMMA RowFields ==
  ASSUME NEW row \in BookingRow, NEW t \in Tutors,
         NEW who \in {"platform", "reassign", "admin"}
  PROVE  /\ Assigned(row, t).tutor = t /\ Assigned(row, t).status = "confirmed"
         /\ Assigned(row, t).chosenBy = "platform"
         /\ Chosen(row, t, who).tutor = t /\ Chosen(row, t, who).status = "confirmed"
         /\ Chosen(row, t, who).chosenBy = who
  BY DEF BookingRow, Assigned, Chosen

-----------------------------------------------------------------------------
(* Room for sessions *)

\* Request q may add a session to booking b.
Adds(q, b) == q.b = b /\ q.op \in {"create", "claim", "reassign", "allocate"}

LEMMA AddingIs ==
  ASSUME NEW b
  PROVE  /\ Adding(b) = {s \in Requests : Adds(req[s], b)}
         /\ Adding(b)' = {s \in Requests : Adds(req'[s], b)}
  BY DEF Adding, Adds

LEMMA RequestsAfter ==
  ASSUME TypeOK, NEW r \in Requests, NEW q \in Request, req' = [req EXCEPT ![r] = q]
  PROVE  /\ req' \in [Requests -> Request]
         /\ \A s \in Requests : req'[s] = IF s = r THEN q ELSE req[s]
  BY DEF TypeOK

\* A request that does not take on another booking takes no more room.
LEMMA AddingShrinks ==
  ASSUME TypeOK, NEW r \in Requests, NEW q \in Request, req' = [req EXCEPT ![r] = q],
         NEW b, IsFiniteSet(Adding(b)), Adds(q, b) => Adds(req[r], b)
  PROVE  /\ IsFiniteSet(Adding(b)')
         /\ Cardinality(Adding(b)') <= Cardinality(Adding(b))
         /\ Cardinality(Adding(b)) \in Nat /\ Cardinality(Adding(b)') \in Nat
  <1>1. Adding(b)' \in SUBSET Adding(b)
    BY AddingIs, RequestsAfter
  <1> QED
    BY <1>1, FS_Subset, FS_CardinalityType

\* One that ends gives its room back.
LEMMA AddingLess ==
  ASSUME TypeOK, NEW r \in Requests, req' = [req EXCEPT ![r] = Idle],
         NEW b \in BookingIds, IsFiniteSet(Adding(b)), Adds(req[r], b)
  PROVE  /\ IsFiniteSet(Adding(b)')
         /\ Cardinality(Adding(b)') = Cardinality(Adding(b)) - 1
         /\ Cardinality(Adding(b)) \in Nat /\ Cardinality(Adding(b)') \in Nat
  <1>1. ~ Adds(Idle, b)
    BY IdleRequest DEF Adds
  <1>2. \A s \in Requests : req'[s] = IF s = r THEN Idle ELSE req[s]
    BY RequestsAfter, IdleRequest
  <1>3. \A s \in Requests : Adds(req'[s], b) <=> s # r /\ Adds(req[s], b)
    BY <1>1, <1>2
  <1>4. Adding(b)' = Adding(b) \ {r} /\ r \in Adding(b)
    BY <1>3, AddingIs
  <1> QED
    BY <1>4, FS_RemoveElement, FS_CardinalityType

\* One that takes on a booking needs room for one.
LEMMA AddingMore ==
  ASSUME TypeOK, NEW r \in Requests, NEW q \in Request, req' = [req EXCEPT ![r] = q],
         NEW b, IsFiniteSet(Adding(b))
  PROVE  /\ IsFiniteSet(Adding(b)')
         /\ Cardinality(Adding(b)') <= Cardinality(Adding(b)) + 1
         /\ Cardinality(Adding(b)) \in Nat /\ Cardinality(Adding(b)') \in Nat
  <1>1. Adding(b)' \in SUBSET (Adding(b) \union {r})
    BY AddingIs, RequestsAfter
  <1>2. /\ IsFiniteSet(Adding(b) \union {r})
        /\ Cardinality(Adding(b) \union {r}) <= Cardinality(Adding(b)) + 1
    <2>1. Cardinality(Adding(b)) \in Nat
      BY FS_CardinalityType
    <2>2. /\ IsFiniteSet(Adding(b) \union {r})
          /\ Cardinality(Adding(b) \union {r}) =
                IF r \in Adding(b) THEN Cardinality(Adding(b))
                ELSE Cardinality(Adding(b)) + 1
      BY FS_AddElement
    <2> QED
      BY <2>1, <2>2
  <1> QED
    BY <1>1, <1>2, FS_Subset, FS_CardinalityType

LEMMA SessionCounts ==
  ASSUME TypeOK
  PROVE  \A b \in BookingIds : /\ sessions[b] \in Counts /\ sessions[b] \in SessionCount
                               /\ Total(sessions[b]) \in Nat
  BY WithinIsCount, CountTotal DEF TypeOK

\* The room after a step of one request: it takes none and the sessions stay as
\* many, or it adds one and ends, or it takes what there is room for.
LEMMA RoomStep ==
  ASSUME TypeOK, RoomInv, NEW r \in Requests, NEW q \in Request,
         req' = [req EXCEPT ![r] = q],
         sessions' \in [BookingIds -> Counts],
         \A b \in BookingIds :
            \/ /\ Total(sessions'[b]) <= Total(sessions[b])
               /\ Adds(q, b) => Adds(req[r], b)
            \/ /\ Total(sessions'[b]) = Total(sessions[b]) + 1
               /\ q = Idle /\ Adds(req[r], b)
            \/ Total(sessions'[b]) <= Total(sessions[b]) /\ Room(b)
  PROVE  RoomInv' /\ sessions' \in [BookingIds -> SessionCount]
  <1>1. ASSUME NEW b \in BookingIds
        PROVE  /\ IsFiniteSet(Adding(b)')
               /\ Total(sessions'[b]) + Cardinality(Adding(b)') <= MaxSessions
               /\ Cardinality(Adding(b)') \in Nat
    <2>1. /\ IsFiniteSet(Adding(b)) /\ Total(sessions[b]) \in Nat
          /\ Total(sessions'[b]) \in Nat
          /\ Total(sessions[b]) + Cardinality(Adding(b)) <= MaxSessions
      BY SessionCounts, CountTotal DEF RoomInv
    <2>2. CASE /\ Total(sessions'[b]) <= Total(sessions[b])
               /\ Adds(q, b) => Adds(req[r], b)
      <3>1. /\ IsFiniteSet(Adding(b)') /\ Cardinality(Adding(b)') \in Nat
            /\ Cardinality(Adding(b)) \in Nat
            /\ Cardinality(Adding(b)') <= Cardinality(Adding(b))
        BY <2>1, <2>2, AddingShrinks
      <3> QED
        BY <2>1, <2>2, <3>1, Bounds
    <2>3. CASE Total(sessions'[b]) = Total(sessions[b]) + 1 /\ q = Idle /\ Adds(req[r], b)
      <3>1. /\ IsFiniteSet(Adding(b)') /\ Cardinality(Adding(b)') \in Nat
            /\ Cardinality(Adding(b)) \in Nat
            /\ Cardinality(Adding(b)') = Cardinality(Adding(b)) - 1
        BY <2>1, <2>3, AddingLess
      <3> QED
        BY <2>1, <2>3, <3>1, Bounds
    <2>4. CASE Total(sessions'[b]) <= Total(sessions[b]) /\ Room(b)
      <3>1. Total(sessions[b]) + Cardinality(Adding(b)) < MaxSessions
        BY <2>4 DEF Room
      <3> QED
        <4>1. /\ IsFiniteSet(Adding(b)') /\ Cardinality(Adding(b)') \in Nat
              /\ Cardinality(Adding(b)) \in Nat
              /\ Cardinality(Adding(b)') <= Cardinality(Adding(b)) + 1
          BY <2>1, AddingMore
        <4> QED
          BY <2>1, <2>4, <3>1, <4>1, Bounds
    <2> QED
      BY <1>1, <2>2, <2>3, <2>4
  <1>2. ASSUME NEW b \in BookingIds PROVE sessions'[b] \in SessionCount
    <2>1. Total(sessions'[b]) \in Nat /\ Total(sessions'[b]) <= MaxSessions
      BY <1>1, <1>2, CountTotal, Bounds
    <2> QED
      BY <2>1, CountWithin
  <1>3. RoomInv'
    BY <1>1 DEF RoomInv
  <1> QED
    BY <1>2, <1>3

\* What a step of one request must keep.
LEMMA BaseStep ==
  ASSUME BaseInv, NEW r \in Requests, NEW q \in Request, IsAbout(q),
         req' = [req EXCEPT ![r] = q],
         booking' \in [BookingIds -> BookingRow],
         sessions' \in [BookingIds -> Counts],
         active' \in [Tutors -> BOOLEAN],
         bookingLock' \in [BookingIds -> Requests \union {None}],
         tutorLock' \in [Tutors -> Requests \union {None}],
         now' = now,
         adminSteps' \in 0..MaxAdmin, faults' \in 0..MaxFaults,
         \A b \in BookingIds : booking'[b].status = "absent"
            => /\ booking[b].status = "absent" /\ booking'[b].tutor = None
               /\ sessions'[b] = sessions[b] /\ q.b # b,
         \A b \in BookingIds :
            \/ /\ Total(sessions'[b]) <= Total(sessions[b])
               /\ Adds(q, b) => Adds(req[r], b)
            \/ /\ Total(sessions'[b]) = Total(sessions[b]) + 1
               /\ q = Idle /\ Adds(req[r], b)
            \/ Total(sessions'[b]) <= Total(sessions[b]) /\ Room(b)
  PROVE  BaseInv'
  <1>1. RoomInv' /\ sessions' \in [BookingIds -> SessionCount]
    BY RoomStep DEF BaseInv
  <1>2. req' \in [Requests -> Request]
        /\ \A s \in Requests : req'[s] = IF s = r THEN q ELSE req[s]
    BY RequestsAfter DEF BaseInv
  <1>3. TypeOK'
    BY <1>1, <1>2 DEF BaseInv, TypeOK
  <1>4. RequestInv'
    BY <1>2 DEF BaseInv, RequestInv
  <1>5. AbsentInv'
    BY <1>2 DEF BaseInv, AbsentInv
  <1> QED
    BY <1>1, <1>3, <1>4, <1>5 DEF BaseInv

-----------------------------------------------------------------------------
(* The types and the room: one lemma per action *)

LEMMA Unlocked ==
  ASSUME TypeOK, NEW r \in Requests, Unlocks(r)
  PROVE  /\ bookingLock' \in [BookingIds -> Requests \union {None}]
         /\ tutorLock' \in [Tutors -> Requests \union {None}]
         /\ \A b \in BookingIds : bookingLock'[b] =
               IF bookingLock[b] = r THEN None ELSE bookingLock[b]
         /\ \A t \in Tutors : tutorLock'[t] =
               IF tutorLock[t] = r THEN None ELSE tutorLock[t]
  BY DEF TypeOK, Unlocks

LEMMA TutorLocked ==
  ASSUME TypeOK, NEW r \in Requests, NEW t \in Tutors, LocksTutor(r, t)
  PROVE  /\ tutorLock' \in [Tutors -> Requests \union {None}]
         /\ tutorLock[t] = None
         /\ \A u \in Tutors : tutorLock'[u] = IF u = t THEN r ELSE tutorLock[u]
  BY DEF TypeOK, LocksTutor

\* A request that has not begun adds nothing.
LEMMA Fresh ==
  ASSUME NEW r \in Requests, req[r] = Idle
  PROVE  \A b \in BookingIds : ~ Adds(req[r], b)
  BY IdleRequest, NoneIsNone DEF Adds

\* A new booking has room for its session.
LEMMA RoomForNew ==
  ASSUME BaseInv, NEW b \in BookingIds, booking[b].status = "absent"
  PROVE  Room(b)
  <1>1. sessions[b] = NoSessions /\ \A r \in Requests : req[r].b # b
    BY DEF BaseInv, AbsentInv
  <1>2. Adding(b) = {}
    BY <1>1 DEF Adding
  <1> QED
    BY <1>1, <1>2, EmptyCount, FS_EmptySet, Bounds DEF Room

\* A step that writes no row and makes no session.
LEMMA BaseNoWrite ==
  ASSUME BaseInv, NEW r \in Requests, NEW q \in Request, IsAbout(q),
         req' = [req EXCEPT ![r] = q],
         UNCHANGED <<booking, sessions, now>>,
         active' \in [Tutors -> BOOLEAN],
         bookingLock' \in [BookingIds -> Requests \union {None}],
         tutorLock' \in [Tutors -> Requests \union {None}],
         adminSteps' \in 0..MaxAdmin, faults' \in 0..MaxFaults,
         \A b \in BookingIds : q.b = b => booking[b].status # "absent",
         \A b \in BookingIds : Adds(q, b) => Adds(req[r], b) \/ Room(b)
  PROVE  BaseInv'
  <1>1. booking' \in [BookingIds -> BookingRow] /\ sessions' \in [BookingIds -> Counts]
        /\ now' = now
    BY WithinIsCount DEF BaseInv, TypeOK
  <1>2. \A b \in BookingIds : booking'[b].status = "absent"
            => /\ booking[b].status = "absent" /\ booking'[b].tutor = None
               /\ sessions'[b] = sessions[b] /\ q.b # b
    BY DEF BaseInv, AbsentInv
  <1>3. \A b \in BookingIds : Total(sessions[b]) \in Nat /\ sessions'[b] = sessions[b]
    BY SessionCounts DEF BaseInv
  <1>4. \A b \in BookingIds :
            \/ /\ Total(sessions'[b]) <= Total(sessions[b])
               /\ Adds(q, b) => Adds(req[r], b)
            \/ Total(sessions'[b]) <= Total(sessions[b]) /\ Room(b)
    BY <1>3
  <1> QED
    BY <1>1, <1>2, <1>4, BaseStep

\* A step that writes the row of booking b and makes no session.
LEMMA BaseWrite ==
  ASSUME BaseInv, NEW r \in Requests, NEW q \in Request, IsAbout(q),
         req' = [req EXCEPT ![r] = q],
         NEW b \in BookingIds, NEW row \in BookingRow, row.status # "absent",
         booking' = [booking EXCEPT ![b] = row],
         UNCHANGED <<sessions, active, now, faults>>,
         bookingLock' \in [BookingIds -> Requests \union {None}],
         tutorLock' \in [Tutors -> Requests \union {None}],
         adminSteps' \in 0..MaxAdmin,
         q.b \in {b, None},
         Adds(q, b) => Adds(req[r], b) \/ Room(b)
  PROVE  BaseInv'
  <1>1. /\ booking' \in [BookingIds -> BookingRow]
        /\ \A c \in BookingIds : booking'[c] = IF c = b THEN row ELSE booking[c]
    BY DEF BaseInv, TypeOK
  <1>2. sessions' \in [BookingIds -> Counts] /\ active' \in [Tutors -> BOOLEAN]
        /\ now' = now /\ faults' \in 0..MaxFaults
    BY WithinIsCount DEF BaseInv, TypeOK
  <1>3. \A c \in BookingIds : booking'[c].status = "absent"
            => /\ booking[c].status = "absent" /\ booking'[c].tutor = None
               /\ sessions'[c] = sessions[c] /\ q.b # c
    BY <1>1, NoneIsNone DEF BaseInv, AbsentInv
  <1>4. \A c \in BookingIds : Total(sessions[c]) \in Nat /\ sessions'[c] = sessions[c]
    BY SessionCounts DEF BaseInv
  <1>5. \A c \in BookingIds : Adds(q, c) => c = b
    BY NoneIsNone DEF Adds
  <1>6. \A c \in BookingIds :
            \/ /\ Total(sessions'[c]) <= Total(sessions[c])
               /\ Adds(q, c) => Adds(req[r], c)
            \/ Total(sessions'[c]) <= Total(sessions[c]) /\ Room(c)
    BY <1>4, <1>5
  <1> QED
    BY <1>1, <1>2, <1>3, <1>6, BaseStep

\* A request that ends and changes the sessions of its booking, and perhaps the row.
LEMMA BaseSession ==
  ASSUME BaseInv, NEW r \in Requests, req' = [req EXCEPT ![r] = Idle],
         NEW b \in BookingIds, req[r].b = b,
         NEW row \in BookingRow, row.status # "absent",
         booking' = [booking EXCEPT ![b] = row],
         NEW count \in Counts, sessions' = [sessions EXCEPT ![b] = count],
         \/ Total(count) <= Total(sessions[b])
         \/ Total(count) = Total(sessions[b]) + 1 /\ Adds(req[r], b),
         UNCHANGED <<active, now, counters>>,
         bookingLock' \in [BookingIds -> Requests \union {None}],
         tutorLock' \in [Tutors -> Requests \union {None}]
  PROVE  BaseInv'
  <1>1. /\ booking' \in [BookingIds -> BookingRow]
        /\ \A c \in BookingIds : booking'[c] = IF c = b THEN row ELSE booking[c]
    BY DEF BaseInv, TypeOK
  <1>2. /\ sessions' \in [BookingIds -> Counts]
        /\ \A c \in BookingIds : sessions'[c] = IF c = b THEN count ELSE sessions[c]
    BY SessionCounts DEF BaseInv, TypeOK
  <1>3. active' \in [Tutors -> BOOLEAN] /\ now' = now /\ faults' \in 0..MaxFaults
        /\ adminSteps' \in 0..MaxAdmin
    BY DEF BaseInv, TypeOK, counters
  <1>4. \A c \in BookingIds : booking'[c].status = "absent"
            => /\ booking[c].status = "absent" /\ booking'[c].tutor = None
               /\ sessions'[c] = sessions[c] /\ Idle.b # c
    BY <1>1, <1>2, NoneIsNone, IdleRequest DEF BaseInv, AbsentInv
  <1>5. \A c \in BookingIds : Total(sessions[c]) \in Nat /\ ~ Adds(Idle, c)
    BY SessionCounts, IdleRequest DEF BaseInv, Adds
  <1>6. \A c \in BookingIds :
            \/ /\ Total(sessions'[c]) <= Total(sessions[c])
               /\ Adds(Idle, c) => Adds(req[r], c)
            \/ /\ Total(sessions'[c]) = Total(sessions[c]) + 1
               /\ Adds(req[r], c)
    <2> TAKE c \in BookingIds
    <2>1. CASE c = b
      BY <1>2, <1>5, <2>1
    <2>2. CASE c # b
      <3>1. sessions'[c] = sessions[c]
        BY <1>2, <2>2
      <3> QED
        BY <1>5, <3>1
    <2> QED
      BY <2>1, <2>2
  <1> QED
    BY <1>1, <1>2, <1>3, <1>4, <1>6, IdleRequest, BaseStep

\* What a request holds and is about when it goes on.
LEMMA Underway ==
  ASSUME BaseInv, NEW r \in Requests
  PROVE  /\ req[r] \in Request /\ IsAbout(req[r])
         /\ req[r].b \in BookingIds => booking[req[r].b].status # "absent"
         /\ req[r].b \in BookingIds =>
              /\ booking[req[r].b] \in BookingRow
              /\ sessions[req[r].b] \in Counts
  BY WithinIsCount DEF BaseInv, TypeOK, RequestInv, AbsentInv

LEMMA SameLocks ==
  ASSUME BaseInv
  PROVE  /\ bookingLock \in [BookingIds -> Requests \union {None}]
         /\ tutorLock \in [Tutors -> Requests \union {None}]
         /\ active \in [Tutors -> BOOLEAN]
         /\ adminSteps \in 0..MaxAdmin /\ faults \in 0..MaxFaults
  BY DEF BaseInv, TypeOK

\* The bound on admins is kept.
LEMMA AdminBound == ASSUME BaseInv, AdminSteps PROVE adminSteps' \in 0..MaxAdmin
  BY Bounds DEF BaseInv, TypeOK, AdminSteps

\* A request that only goes on: to p, about the booking and the tutor it had.
LEMMA BaseGoesOn ==
  ASSUME BaseInv, NEW r \in Requests,
         NEW p \in {"check", "commit", "session", "find", "save"}, GoesTo(r, p),
         req[r].op \in {"create", "claim", "reassign", "allocate"},
         req[r].pc # "look",
         req[r].op = "create" /\ p \in {"check", "commit"} => req[r].t \in Tutors,
         UNCHANGED <<booking, sessions, active, now, counters>>,
         bookingLock' \in [BookingIds -> Requests \union {None}],
         tutorLock' \in [Tutors -> Requests \union {None}]
  PROVE  BaseInv'
  <1> DEFINE q == [req[r] EXCEPT !.pc = p]
  <1>1. req[r] \in Request /\ IsAbout(req[r])
        /\ (req[r].b \in BookingIds => booking[req[r].b].status # "absent")
    BY Underway
  <1>2. q \in Request
    BY <1>1 DEF Request
  <1>3. q.op = req[r].op /\ q.b = req[r].b /\ q.t = req[r].t /\ q.pc = p
    BY <1>1 DEF Request
  <1>4. req' = [req EXCEPT ![r] = q]
    BY DEF GoesTo, BaseInv, TypeOK
  <1> HIDE DEF q
  <1>5. IsAbout(q)
    BY <1>1, <1>3 DEF IsAbout
  <1>6. \A b \in BookingIds : q.b = b => booking[b].status # "absent"
    BY <1>1, <1>3
  <1>7. \A b \in BookingIds : Adds(q, b) => Adds(req[r], b)
    BY <1>3 DEF Adds
  <1>8. active' \in [Tutors -> BOOLEAN] /\ adminSteps' \in 0..MaxAdmin
        /\ faults' \in 0..MaxFaults /\ UNCHANGED <<booking, sessions, now>>
    BY SameLocks DEF counters
  <1> QED
    BY <1>2, <1>4, <1>5, <1>6, <1>7, <1>8, BaseNoWrite

\* A request that ends and writes nothing.
LEMMA BaseEnds ==
  ASSUME BaseInv, NEW r \in Requests, Ends(r),
         UNCHANGED <<booking, sessions, now, adminSteps>>,
         active' \in [Tutors -> BOOLEAN], faults' \in 0..MaxFaults,
         bookingLock' \in [BookingIds -> Requests \union {None}],
         tutorLock' \in [Tutors -> Requests \union {None}]
  PROVE  BaseInv'
  <1>1. req' = [req EXCEPT ![r] = Idle]
    BY DEF Ends
  <1>2. \A b \in BookingIds : Idle.b # b /\ ~ Adds(Idle, b)
    BY IdleRequest, NoneIsNone DEF Adds
  <1>3. adminSteps' \in 0..MaxAdmin /\ UNCHANGED <<booking, sessions, now>>
    BY SameLocks
  <1> QED
    BY <1>1, <1>2, <1>3, IdleRequest, BaseNoWrite

LEMMA BaseRollsBack ==
  ASSUME BaseInv, NEW r \in Requests, RollsBack(r), UNCHANGED <<active, now, adminSteps>>,
         faults' \in 0..MaxFaults
  PROVE  BaseInv'
  <1>1. /\ bookingLock' \in [BookingIds -> Requests \union {None}]
        /\ tutorLock' \in [Tutors -> Requests \union {None}]
    BY Unlocked DEF RollsBack, BaseInv
  <1>2. Ends(r) /\ UNCHANGED <<booking, sessions, now, adminSteps>>
        /\ active' \in [Tutors -> BOOLEAN]
    BY SameLocks DEF RollsBack
  <1> QED
    BY <1>1, <1>2, BaseEnds

\* The requests that begin.
LEMMA BaseStarting ==
  ASSUME BaseInv, NEW r \in Requests, Starting(r)
  PROVE  BaseInv'
  <1> USE SameLocks
  <1>1. ASSUME NEW b \in BookingIds, CreateBooking(r, b)
        PROVE  BaseInv'
    <2> DEFINE q == [op |-> "create", b |-> b, t |-> None, pc |-> "deduct", seen |-> FALSE]
               row == [booking[b] EXCEPT !.status = "requested"]
    <2>1. q \in Request /\ q.b = b
      BY RequestRecord
    <2>2. row \in BookingRow /\ row.status # "absent"
      BY DEF BaseInv, TypeOK, BookingRow, BookingStatus
    <2>3. IsAbout(q)
      BY DEF IsAbout
    <2>4. Room(b)
      BY <1>1, RoomForNew DEF CreateBooking
    <2>5. /\ req' = [req EXCEPT ![r] = q] /\ booking' = [booking EXCEPT ![b] = row]
          /\ UNCHANGED <<sessions, active, now, faults>>
          /\ UNCHANGED <<bookingLock, tutorLock, adminSteps>>
      BY <1>1 DEF CreateBooking, Starts, locks, counters
    <2> HIDE DEF q, row
    <2> QED
      BY <2>1, <2>2, <2>3, <2>4, <2>5, BaseWrite
  <1>2. ASSUME NEW b \in BookingIds, CancelRead(r, b)
        PROVE  BaseInv'
    <2> DEFINE q == [op |-> "cancel", b |-> b, t |-> None, pc |-> "cancel",
                     seen |-> HasSessions(b)]
    <2>1. q \in Request /\ IsAbout(q) /\ q.b = b /\ q.op = "cancel"
      BY RequestRecord DEF IsAbout, HasSessions
    <2>2. /\ req' = [req EXCEPT ![r] = q] /\ booking[b].status # "absent"
          /\ UNCHANGED <<booking, sessions, now>>
          /\ UNCHANGED <<active, bookingLock, tutorLock, adminSteps, faults>>
      BY <1>2 DEF CancelRead, Exists, locks, counters
    <2> HIDE DEF q
    <2>3. \A c \in BookingIds : ~ Adds(q, c)
      BY <2>1 DEF Adds
    <2>4. \A c \in BookingIds : q.b = c => booking[c].status # "absent"
      BY <2>1, <2>2
    <2> QED
      BY <2>1, <2>2, <2>3, <2>4, BaseNoWrite
  <1>3. ASSUME NEW b \in BookingIds, FallbackRead(r, b)
        PROVE  BaseInv'
    <2> DEFINE q == [op |-> "fallback", b |-> b, t |-> None, pc |-> "mark", seen |-> FALSE]
    <2>1. q \in Request /\ IsAbout(q) /\ q.b = b /\ q.op = "fallback"
      BY RequestRecord DEF IsAbout
    <2>2. /\ req' = [req EXCEPT ![r] = q] /\ booking[b].status # "absent"
          /\ UNCHANGED <<booking, sessions, now>>
          /\ UNCHANGED <<active, bookingLock, tutorLock, adminSteps, faults>>
      BY <1>3 DEF FallbackRead, Starts, locks, counters
    <2> HIDE DEF q
    <2>3. \A c \in BookingIds : ~ Adds(q, c)
      BY <2>1 DEF Adds
    <2>4. \A c \in BookingIds : q.b = c => booking[c].status # "absent"
      BY <2>1, <2>2
    <2> QED
      BY <2>1, <2>2, <2>3, <2>4, BaseNoWrite
  <1>4. ASSUME NEW b \in BookingIds, NEW t \in Tutors, Claim(r, b, t)
        PROVE  BaseInv'
    <2> DEFINE q == [op |-> "claim", b |-> b, t |-> t, pc |-> "lockTutor", seen |-> FALSE]
    <2>1. q \in Request /\ IsAbout(q) /\ q.b = b /\ q.op = "claim"
      BY RequestRecord DEF IsAbout
    <2>2. /\ req' = [req EXCEPT ![r] = q] /\ booking[b].status # "absent" /\ Room(b)
          /\ UNCHANGED <<booking, sessions, now>>
          /\ UNCHANGED <<active, tutorLock, adminSteps, faults>>
          /\ bookingLock' = [bookingLock EXCEPT ![b] = r]
      BY <1>4 DEF Claim, Exists, Starts, LocksBooking, counters
    <2> HIDE DEF q
    <2>3. \A c \in BookingIds : Adds(q, c) => Room(c)
      BY <2>1, <2>2 DEF Adds
    <2>4. \A c \in BookingIds : q.b = c => booking[c].status # "absent"
      BY <2>1, <2>2
    <2>5. bookingLock' \in [BookingIds -> Requests \union {None}]
      BY <2>2
    <2> QED
      BY <2>1, <2>2, <2>3, <2>4, <2>5, BaseNoWrite
  <1>5. ASSUME NEW b \in BookingIds, NEW t \in Tutors, NEW o \in {"reassign", "allocate"},
               NEW who \in {"reassign", "admin"},
               Exists(b), Room(b), Starts(r, o, b, t, "find"),
               booking' = [booking EXCEPT ![b] = Chosen(booking[b], t, who)], AdminSteps,
               UNCHANGED <<sessions, active, locks, now, faults>>
        PROVE  BaseInv'
    <2> DEFINE q == [op |-> o, b |-> b, t |-> t, pc |-> "find", seen |-> FALSE]
               row == Chosen(booking[b], t, who)
    <2>1. q \in Request /\ q.b = b
      BY RequestRecord
    <2>2. IsAbout(q)
      BY DEF IsAbout
    <2>3. booking[b] \in BookingRow
      BY DEF BaseInv, TypeOK
    <2>4. row \in BookingRow /\ row.status = "confirmed"
      BY <2>3, RowChosen, RowFields
    <2>5. /\ req' = [req EXCEPT ![r] = q] /\ booking' = [booking EXCEPT ![b] = row]
          /\ UNCHANGED <<sessions, active, now, faults>>
          /\ UNCHANGED <<bookingLock, tutorLock>>
      BY <1>5 DEF Starts, locks
    <2>6. adminSteps' \in 0..MaxAdmin
      BY <1>5, AdminBound
    <2>7. Room(b) /\ row.status # "absent"
      BY <1>5, <2>4
    <2> HIDE DEF q, row
    <2> QED
      BY <2>1, <2>2, <2>4, <2>5, <2>6, <2>7, BaseWrite
  <1>6. ASSUME NEW b \in BookingIds, NEW t \in Tutors, Reassign(r, b, t)
        PROVE  BaseInv'
    BY <1>5, <1>6 DEF Reassign
  <1>7. ASSUME NEW b \in BookingIds, NEW t \in Tutors, AssignTutor(r, b, t)
        PROVE  BaseInv'
    BY <1>5, <1>7 DEF AssignTutor
  <1>8. ASSUME NEW t \in Tutors, AllocateReads(r, t)
        PROVE  BaseInv'
    <2> DEFINE q == [op |-> "allocate", b |-> None, t |-> t, pc |-> "look", seen |-> FALSE]
    <2>1. q \in Request /\ IsAbout(q) /\ q.b = None
      BY RequestRecord DEF IsAbout
    <2>2. /\ req' = [req EXCEPT ![r] = q]
          /\ UNCHANGED <<booking, sessions, now>>
          /\ UNCHANGED <<active, bookingLock, tutorLock, faults>>
          /\ adminSteps' \in 0..MaxAdmin
      BY <1>8, AdminBound DEF AllocateReads, Starts, locks
    <2> HIDE DEF q
    <2>3. \A c \in BookingIds : q.b # c /\ ~ Adds(q, c)
      BY <2>1, NoneIsNone DEF Adds
    <2> QED
      BY <2>1, <2>2, <2>3, BaseNoWrite
  <1>9. ASSUME NEW t \in Tutors, RemoveUnassign(r, t)
        PROVE  BaseInv'
    <2> DEFINE q == [op |-> "remove", b |-> None, t |-> t, pc |-> "deactivate",
                     seen |-> FALSE]
    <2>1. q \in Request /\ IsAbout(q) /\ q.b = None
      BY RequestRecord DEF IsAbout
    <2>2. /\ req' = [req EXCEPT ![r] = q]
          /\ UNCHANGED <<sessions, now>>
          /\ UNCHANGED <<active, bookingLock, tutorLock, faults>>
          /\ adminSteps' \in 0..MaxAdmin
      BY <1>9, AdminBound DEF RemoveUnassign, Starts, locks
    <2>3. /\ booking' \in [BookingIds -> BookingRow]
          /\ \A b \in BookingIds : booking'[b].status = "absent" =>
                booking'[b] = booking[b]
      <3>1. \A b \in BookingIds : booking'[b] =
               IF booking[b].tutor = t THEN Unassigned(booking[b]) ELSE booking[b]
        BY <1>9 DEF RemoveUnassign, Theirs
      <3>2. \A b \in BookingIds : /\ booking[b] \in BookingRow
                                  /\ Unassigned(booking[b]) \in BookingRow
                                  /\ Unassigned(booking[b]).status = "requested"
        BY RowUnassigned DEF BaseInv, TypeOK
      <3>3. booking' = [b \in BookingIds |-> booking'[b]]
        BY <1>9 DEF RemoveUnassign
      <3> QED
        BY <3>1, <3>2, <3>3
    <2> HIDE DEF q
    <2>4. \A c \in BookingIds : q.b # c /\ ~ Adds(q, c)
      BY <2>1, NoneIsNone DEF Adds
    <2>5. \A b \in BookingIds : booking'[b].status = "absent"
            => /\ booking[b].status = "absent" /\ booking'[b].tutor = None
               /\ sessions'[b] = sessions[b] /\ q.b # b
      BY <2>2, <2>3, <2>4 DEF BaseInv, AbsentInv
    <2>6. \A b \in BookingIds : Total(sessions'[b]) <= Total(sessions[b])
      BY <2>2, SessionCounts DEF BaseInv
    <2>7. sessions' \in [BookingIds -> Counts]
      BY <2>2, WithinIsCount DEF BaseInv, TypeOK
    <2> QED
      BY <2>1, <2>2, <2>3, <2>4, <2>5, <2>6, <2>7, BaseStep
  <1> QED
    BY <1>1, <1>2, <1>3, <1>4, <1>6, <1>7, <1>8, <1>9 DEF Starting

\* create and autoAssignTutor.
LEMMA BaseCreating ==
  ASSUME BaseInv, NEW r \in Requests, Creating(r)
  PROVE  BaseInv'
  <1> DEFINE b == req[r].b
  <1> USE SameLocks
  <1>0. req[r] \in Request /\ IsAbout(req[r])
    BY Underway
  <1>1. CASE DeductFails(r)
    <2> DEFINE row == [NoBooking EXCEPT !.status = "deleted"]
    <2>1. b \in BookingIds
      BY <1>0, <1>1 DEF DeductFails, At, IsAbout
    <2>2. row \in BookingRow /\ row.status # "absent"
      BY DEF NoBooking, BookingRow, BookingStatus
    <2>3. Total(NoSessions) <= Total(sessions[b]) /\ NoSessions \in Counts
      BY <2>1, EmptyCount, SessionCounts DEF BaseInv
    <2>4. /\ req' = [req EXCEPT ![r] = Idle] /\ booking' = [booking EXCEPT ![b] = row]
          /\ sessions' = [sessions EXCEPT ![b] = NoSessions]
          /\ UNCHANGED <<active, now, counters>> /\ UNCHANGED <<bookingLock, tutorLock>>
      BY <1>1 DEF DeductFails, Ends, locks
    <2> HIDE DEF row
    <2> QED
      BY <2>1, <2>2, <2>3, <2>4, BaseSession
  <1>2. ASSUME NEW t \in Tutors, PickTutor(r, t)
        PROVE  BaseInv'
    <2> DEFINE q == [req[r] EXCEPT !.t = t, !.pc = "lockTutor"]
    <2>1. q \in Request /\ q.b = b /\ q.op = "create" /\ q.t = t /\ b \in BookingIds
      BY <1>0, <1>2 DEF PickTutor, At, IsAbout, Request
    <2>2. /\ req' = [req EXCEPT ![r] = q]
          /\ UNCHANGED <<booking, sessions, now>>
          /\ UNCHANGED <<active, bookingLock, tutorLock, adminSteps, faults>>
          /\ req[r].op = "create"
      BY <1>2 DEF PickTutor, At, locks, counters, BaseInv, TypeOK
    <2> HIDE DEF q
    <2>3. IsAbout(q)
      BY <2>1 DEF IsAbout
    <2>4. \A c \in BookingIds : Adds(q, c) => Adds(req[r], c)
      BY <2>1, <2>2 DEF Adds
    <2>5. \A c \in BookingIds : q.b = c => booking[c].status # "absent"
      BY <2>1, Underway
    <2> QED
      BY <2>1, <2>2, <2>3, <2>4, <2>5, BaseNoWrite
  <1>3. CASE PickNobody(r)
    BY <1>3, BaseEnds DEF PickNobody, locks, counters
  <1>4. CASE AssignLockTutor(r)
    <2>1. req[r].t \in Tutors /\ req[r].op = "create" /\ req[r].pc = "lockTutor"
      BY <1>0, <1>4 DEF AssignLockTutor, At, IsAbout
    <2>2. tutorLock' \in [Tutors -> Requests \union {None}]
      BY <1>4, <2>1, TutorLocked DEF AssignLockTutor, BaseInv
    <2> QED
      BY <1>4, <2>1, <2>2, BaseGoesOn DEF AssignLockTutor
  <1>5. CASE AssignRefused(r)
    BY <1>5, BaseRollsBack DEF AssignRefused, counters
  <1>6. CASE AssignChecked(r)
    <2>1. req[r].t \in Tutors /\ req[r].op = "create" /\ req[r].pc = "check"
      BY <1>0, <1>6 DEF AssignChecked, At, IsAbout
    <2> QED
      BY <1>6, <2>1, BaseGoesOn DEF AssignChecked, locks
  <1>7. CASE AssignCommit(r)
    <2> DEFINE q == [req[r] EXCEPT !.pc = "session"]
               row == Assigned(booking[b], req[r].t)
    <2>1. b \in BookingIds /\ req[r].t \in Tutors /\ req[r].op = "create"
      BY <1>0, <1>7 DEF AssignCommit, At, IsAbout
    <2>2. booking[b] \in BookingRow
      BY <2>1, Underway
    <2>3. row \in BookingRow /\ row.status = "confirmed"
      BY <2>1, <2>2, RowAssigned, RowFields
    <2>4. q \in Request /\ q.b = b /\ q.op = "create" /\ q.pc = "session"
      BY <1>0, <2>1 DEF Request
    <2>5. IsAbout(q)
      BY <2>1, <2>4 DEF IsAbout
    <2>6. /\ req' = [req EXCEPT ![r] = q] /\ booking' = [booking EXCEPT ![b] = row]
          /\ UNCHANGED <<sessions, active, now, faults>> /\ adminSteps' = adminSteps
          /\ Unlocks(r)
      BY <1>7 DEF AssignCommit, GoesTo, counters, BaseInv, TypeOK
    <2>7. /\ bookingLock' \in [BookingIds -> Requests \union {None}]
          /\ tutorLock' \in [Tutors -> Requests \union {None}]
          /\ adminSteps' \in 0..MaxAdmin
      BY <2>6, Unlocked DEF BaseInv
    <2>8. Adds(q, b) => Adds(req[r], b)
      BY <2>1, <2>4 DEF Adds
    <2>9. row.status # "absent" /\ q.b \in {b, None}
      BY <2>3, <2>4
    <2> HIDE DEF q, row
    <2> QED
      BY <2>1, <2>3, <2>4, <2>5, <2>6, <2>7, <2>8, <2>9, BaseWrite
  <1>8. CASE CreateSession(r)
    <2> DEFINE count == Scheduled(sessions[b])
    <2>1. b \in BookingIds /\ Adds(req[r], b)
      BY <1>0, <1>8 DEF CreateSession, At, IsAbout, Adds
    <2>2. /\ booking[b] \in BookingRow /\ booking[b].status # "absent"
          /\ sessions[b] \in Counts
      BY <2>1, Underway
    <2>3. count \in Counts /\ Total(count) = Total(sessions[b]) + 1
      BY <2>2, CountScheduled
    <2>4. /\ req' = [req EXCEPT ![r] = Idle]
          /\ booking' = [booking EXCEPT ![b] = booking[b]]
          /\ sessions' = [sessions EXCEPT ![b] = count]
          /\ UNCHANGED <<active, now, counters>> /\ UNCHANGED <<bookingLock, tutorLock>>
      BY <1>8, <2>1 DEF CreateSession, Ends, locks, BaseInv, TypeOK
    <2> HIDE DEF count
    <2> QED
      BY <2>1, <2>2, <2>3, <2>4, BaseSession
  <1> QED
    BY <1>1, <1>2, <1>3, <1>4, <1>5, <1>6, <1>7, <1>8 DEF Creating

LEMMA BaseClaiming ==
  ASSUME BaseInv, NEW r \in Requests, Claiming(r)
  PROVE  BaseInv'
  <1> DEFINE b == req[r].b
  <1> USE SameLocks
  <1>0. req[r] \in Request /\ IsAbout(req[r])
    BY Underway
  <1>1. CASE ClaimLockTutor(r)
    <2>1. req[r].t \in Tutors /\ req[r].op = "claim" /\ req[r].pc = "lockTutor"
      BY <1>0, <1>1 DEF ClaimLockTutor, At, IsAbout
    <2>2. tutorLock' \in [Tutors -> Requests \union {None}]
      BY <1>1, <2>1, TutorLocked DEF ClaimLockTutor, BaseInv
    <2> QED
      BY <1>1, <2>1, <2>2, BaseGoesOn DEF ClaimLockTutor
  <1>2. CASE ClaimOverlaps(r)
    BY <1>2, BaseRollsBack DEF ClaimOverlaps, counters
  <1>3. CASE ClaimChecked(r)
    <2>1. req[r].op = "claim" /\ req[r].pc = "check"
      BY <1>3 DEF ClaimChecked, At
    <2> QED
      BY <1>3, <2>1, BaseGoesOn DEF ClaimChecked, locks
  <1>4. CASE ClaimCommit(r)
    <2> DEFINE count == Scheduled(sessions[b])
               row == Assigned(booking[b], req[r].t)
    <2>1. b \in BookingIds /\ Adds(req[r], b) /\ req[r].t \in Tutors
      BY <1>0, <1>4 DEF ClaimCommit, At, IsAbout, Adds
    <2>2. booking[b] \in BookingRow /\ sessions[b] \in Counts
      BY <2>1, Underway
    <2>3. row \in BookingRow /\ row.status = "confirmed"
      BY <2>1, <2>2, RowAssigned, RowFields
    <2>4. count \in Counts /\ Total(count) = Total(sessions[b]) + 1
      BY <2>2, CountScheduled
    <2>5. /\ req' = [req EXCEPT ![r] = Idle]
          /\ booking' = [booking EXCEPT ![b] = row]
          /\ sessions' = [sessions EXCEPT ![b] = count]
          /\ UNCHANGED <<active, now, counters>> /\ Unlocks(r)
      BY <1>4, <2>1 DEF ClaimCommit, Ends
    <2>6. /\ bookingLock' \in [BookingIds -> Requests \union {None}]
          /\ tutorLock' \in [Tutors -> Requests \union {None}]
      BY <2>5, Unlocked DEF BaseInv
    <2>7. row.status # "absent"
      BY <2>3
    <2> HIDE DEF count, row
    <2> QED
      BY <2>1, <2>3, <2>4, <2>5, <2>6, <2>7, BaseSession
  <1> QED
    BY <1>1, <1>2, <1>3, <1>4 DEF Claiming

\* reassign and allocateTutor end alike: with a session more.
LEMMA BaseMakesSession ==
  ASSUME BaseInv, NEW r \in Requests, req[r].op \in {"reassign", "allocate"},
         NEW b \in BookingIds, req[r].b = b,
         NEW count \in Counts, sessions' = [sessions EXCEPT ![b] = count],
         Total(count) = Total(sessions[b]) \/ Total(count) = Total(sessions[b]) + 1,
         Ends(r), UNCHANGED <<booking, active, locks, now, counters>>
  PROVE  BaseInv'
  <1> USE SameLocks
  <1>1. /\ booking[b] \in BookingRow /\ booking[b].status # "absent"
    BY Underway
  <1>2. Adds(req[r], b) /\ Total(sessions[b]) \in Nat
    BY SessionCounts DEF Adds, BaseInv
  <1>3. /\ req' = [req EXCEPT ![r] = Idle]
        /\ booking' = [booking EXCEPT ![b] = booking[b]]
        /\ UNCHANGED <<active, now, counters>> /\ UNCHANGED <<bookingLock, tutorLock>>
    BY DEF Ends, locks, BaseInv, TypeOK
  <1>4. \/ Total(count) <= Total(sessions[b])
        \/ Total(count) = Total(sessions[b]) + 1 /\ Adds(req[r], b)
    BY <1>2
  <1> QED
    BY <1>1, <1>3, <1>4, BaseSession

LEMMA BaseReassigning ==
  ASSUME BaseInv, NEW r \in Requests, Reassigning(r)
  PROVE  BaseInv'
  <1> DEFINE b == req[r].b
  <1> USE SameLocks
  <1>0. /\ req[r] \in Request /\ IsAbout(req[r]) /\ req[r].op = "reassign"
        /\ b \in BookingIds /\ sessions[b] \in Counts
    <2>1. req[r].op = "reassign"
      BY DEF Reassigning, ReassignFind, ReassignUpdate, ReassignCreate, ReassignFails, At
    <2> QED
      BY <2>1, Underway DEF IsAbout
  <1>1. CASE ReassignFind(r)
    <2> DEFINE q == [req[r] EXCEPT !.pc = "save", !.seen = HasSessions(b)]
    <2>1. q \in Request /\ q.b = b /\ q.op = "reassign"
      BY <1>0 DEF Request, HasSessions
    <2>2. /\ req' = [req EXCEPT ![r] = q]
          /\ UNCHANGED <<booking, sessions, now>>
          /\ UNCHANGED <<active, bookingLock, tutorLock, adminSteps, faults>>
      BY <1>1 DEF ReassignFind, locks, counters, BaseInv, TypeOK
    <2> HIDE DEF q
    <2>3. IsAbout(q)
      BY <1>0, <2>1 DEF IsAbout
    <2>4. \A c \in BookingIds : Adds(q, c) => Adds(req[r], c)
      BY <1>0, <2>1 DEF Adds
    <2>5. \A c \in BookingIds : q.b = c => booking[c].status # "absent"
      BY <2>1, Underway
    <2> QED
      BY <2>1, <2>2, <2>3, <2>4, <2>5, BaseNoWrite
  <1>2. CASE ReassignUpdate(r)
    <2>1. PICK s \in Kinds : /\ sessions[b][s] > 0
                             /\ sessions' = [sessions EXCEPT
                                                ![b] = Rescheduled(sessions[b], s)]
      BY <1>0, <1>2 DEF ReassignUpdate, Kinds
    <2> DEFINE count == Rescheduled(sessions[b], s)
    <2>2. count \in Counts /\ Total(count) = Total(sessions[b])
      BY <1>0, <2>1, CountRescheduled
    <2>3. Ends(r) /\ UNCHANGED <<booking, active, locks, now, counters>>
      BY <1>2 DEF ReassignUpdate
    <2> HIDE DEF count
    <2>4. sessions' = [sessions EXCEPT ![b] = count]
      BY <2>1 DEF count
    <2> QED
      BY <1>0, <2>2, <2>3, <2>4, BaseMakesSession
  <1>3. CASE ReassignCreate(r)
    <2> DEFINE count == Scheduled(sessions[b])
    <2>1. count \in Counts /\ Total(count) = Total(sessions[b]) + 1
      BY <1>0, CountScheduled
    <2>2. /\ Ends(r) /\ UNCHANGED <<booking, active, locks, now, counters>>
          /\ sessions' = [sessions EXCEPT ![b] = count]
      BY <1>3 DEF ReassignCreate
    <2> HIDE DEF count
    <2> QED
      BY <1>0, <2>1, <2>2, BaseMakesSession
  <1>4. CASE ReassignFails(r)
    BY <1>4, BaseEnds DEF ReassignFails, locks, counters
  <1> QED
    BY <1>1, <1>2, <1>3, <1>4 DEF Reassigning

LEMMA BaseAllocating ==
  ASSUME BaseInv, NEW r \in Requests, Allocating(r)
  PROVE  BaseInv'
  <1> USE SameLocks
  <1>0. req[r] \in Request /\ IsAbout(req[r])
    BY Underway
  <1>1. ASSUME NEW b \in BookingIds, AllocateLooks(r, b)
        PROVE  BaseInv'
    <2> DEFINE q == [req[r] EXCEPT !.b = b, !.pc = "assign"]
    <2>1. req[r].op = "allocate" /\ Exists(b) /\ Room(b)
      BY <1>1 DEF AllocateLooks, At
    <2>2. q \in Request /\ q.b = b /\ q.op = "allocate" /\ q.pc = "assign"
          /\ q.t = req[r].t
      BY <1>0, <2>1 DEF Request
    <2>3. /\ req' = [req EXCEPT ![r] = q]
          /\ UNCHANGED <<booking, sessions, now>>
          /\ UNCHANGED <<active, bookingLock, tutorLock, adminSteps, faults>>
      BY <1>1 DEF AllocateLooks, locks, counters, BaseInv, TypeOK
    <2> HIDE DEF q
    <2>4. IsAbout(q)
      BY <1>0, <2>1, <2>2 DEF IsAbout
    <2>5. \A c \in BookingIds : Adds(q, c) => Room(c)
      BY <2>1, <2>2 DEF Adds
    <2>6. \A c \in BookingIds : q.b = c => booking[c].status # "absent"
      BY <2>1, <2>2 DEF Exists
    <2> QED
      BY <2>2, <2>3, <2>4, <2>5, <2>6, BaseNoWrite
  <1>2. ASSUME NEW b \in BookingIds, AllocateCreates(r, b)
        PROVE  BaseInv'
    <2> DEFINE q == [req[r] EXCEPT !.b = b, !.pc = "save"]
               row == Chosen(booking[b], req[r].t, "admin")
    <2>1. req[r].op = "allocate" /\ req[r].t \in Tutors /\ Room(b)
      BY <1>0, <1>2, RoomForNew DEF AllocateCreates, At, IsAbout
    <2>2. q \in Request /\ q.b = b /\ q.op = "allocate" /\ q.pc = "save"
          /\ q.t = req[r].t
      BY <1>0, <2>1 DEF Request
    <2>3. row \in BookingRow /\ row.status = "confirmed"
      BY <2>1, RowChosen, RowFields DEF BaseInv, TypeOK
    <2>4. /\ req' = [req EXCEPT ![r] = q] /\ booking' = [booking EXCEPT ![b] = row]
          /\ UNCHANGED <<sessions, active, now, faults>>
          /\ UNCHANGED <<bookingLock, tutorLock, adminSteps>>
      BY <1>2 DEF AllocateCreates, locks, counters, BaseInv, TypeOK
    <2>5. row.status # "absent"
      BY <2>3
    <2> HIDE DEF q, row
    <2>6. IsAbout(q)
      BY <2>1, <2>2 DEF IsAbout
    <2> QED
      BY <2>1, <2>2, <2>3, <2>4, <2>5, <2>6, BaseWrite
  <1>3. CASE AllocateAssigns(r)
    <2> DEFINE q == [req[r] EXCEPT !.pc = "find"]
               b == req[r].b
               row == Chosen(booking[b], req[r].t, "admin")
    <2>1. req[r].op = "allocate" /\ req[r].t \in Tutors /\ b \in BookingIds
      BY <1>0, <1>3 DEF AllocateAssigns, At, IsAbout
    <2>2. q \in Request /\ q.b = b /\ q.op = "allocate" /\ q.pc = "find"
          /\ q.t = req[r].t
      BY <1>0, <2>1 DEF Request
    <2>3. row \in BookingRow /\ row.status = "confirmed"
      BY <2>1, RowChosen, RowFields DEF BaseInv, TypeOK
    <2>4. /\ req' = [req EXCEPT ![r] = q] /\ booking' = [booking EXCEPT ![b] = row]
          /\ UNCHANGED <<sessions, active, now, faults>>
          /\ UNCHANGED <<bookingLock, tutorLock, adminSteps>>
      BY <1>3 DEF AllocateAssigns, GoesTo, locks, counters, BaseInv, TypeOK
    <2>5. row.status # "absent"
      BY <2>3
    <2>6. IsAbout(q)
      BY <2>1, <2>2 DEF IsAbout
    <2>7. Adds(q, b) => Adds(req[r], b)
      BY <2>1, <2>2 DEF Adds
    <2>8. q.b \in {b, None}
      BY <2>2
    <2> HIDE DEF q, row
    <2> QED
      BY <2>1, <2>2, <2>3, <2>4, <2>5, <2>6, <2>7, <2>8, BaseWrite
  <1>4. CASE AllocateFinds(r)
    <2>1. /\ UNCHANGED <<booking, sessions, active, now, counters>>
          /\ UNCHANGED <<bookingLock, tutorLock, adminSteps, faults>>
          /\ req[r].op = "allocate" /\ req[r].pc = "find"
      BY <1>4 DEF AllocateFinds, At, locks, counters
    <2>2. CASE Ends(r)
      BY <2>1, <2>2, BaseEnds
    <2>3. CASE GoesTo(r, "save")
      BY <2>1, <2>3, BaseGoesOn
    <2> QED
      BY <1>4, <2>2, <2>3 DEF AllocateFinds
  <1>5. CASE AllocateMakes(r)
    <2> DEFINE b == req[r].b
               count == Scheduled(sessions[b])
    <2>1. req[r].op = "allocate" /\ b \in BookingIds
      BY <1>0, <1>5 DEF AllocateMakes, At, IsAbout
    <2>2. count \in Counts /\ Total(count) = Total(sessions[b]) + 1
      BY <2>1, SessionCounts, CountScheduled DEF BaseInv
    <2>3. /\ Ends(r) /\ UNCHANGED <<booking, active, locks, now, counters>>
          /\ sessions' = [sessions EXCEPT ![b] = count]
      BY <1>5 DEF AllocateMakes
    <2> HIDE DEF count
    <2> QED
      BY <2>1, <2>2, <2>3, BaseMakesSession
  <1>6. CASE AllocateFails(r)
    BY <1>6, BaseEnds DEF AllocateFails, locks, counters
  <1> QED
    BY <1>1, <1>2, <1>3, <1>4, <1>5, <1>6 DEF Allocating

\* cancelBooking, removeTutor's second write, the broadcast's mark.
LEMMA BaseFinishing ==
  ASSUME BaseInv, NEW r \in Requests,
         CancelCommit(r) \/ RemoveDeactivate(r) \/ FallbackMark(r)
  PROVE  BaseInv'
  <1> DEFINE b == req[r].b
  <1> USE SameLocks
  <1>0. req[r] \in Request /\ IsAbout(req[r])
    BY Underway
  <1>1. CASE CancelCommit(r)
    <2>1. b \in BookingIds
      BY <1>0, <1>1 DEF CancelCommit, At, IsAbout
    <2>2. booking[b] \in BookingRow /\ sessions[b] \in Counts
      BY <2>1, Underway
    <2>3. CASE Exists(b)
      <3> DEFINE row == [booking[b] EXCEPT !.status = "cancelled"]
                 count == IF req[r].seen THEN AllCancelled(sessions[b]) ELSE sessions[b]
      <3>1. row \in BookingRow /\ row.status # "absent"
        BY <2>2 DEF BookingRow, BookingStatus
      <3>2. count \in Counts /\ Total(count) = Total(sessions[b])
        BY <2>2, CountCancelled
      <3>3. Total(sessions[b]) \in Nat
        BY <2>2, CountTotal
      <3>4. /\ req' = [req EXCEPT ![r] = Idle] /\ booking' = [booking EXCEPT ![b] = row]
            /\ sessions' = [sessions EXCEPT ![b] = count]
            /\ UNCHANGED <<active, now, counters>> /\ UNCHANGED <<bookingLock, tutorLock>>
        BY <1>1, <2>3 DEF CancelCommit, Ends, locks
      <3> HIDE DEF row, count
      <3>5. Total(count) <= Total(sessions[b])
        BY <3>2, <3>3
      <3> QED
        BY <2>1, <3>1, <3>2, <3>4, <3>5, BaseSession
    <2>4. CASE ~ Exists(b)
      BY <1>1, <2>4, BaseEnds DEF CancelCommit, locks, counters
    <2> QED
      BY <2>3, <2>4
  <1>2. CASE RemoveDeactivate(r)
    <2>1. active' \in [Tutors -> BOOLEAN]
      BY <1>2 DEF RemoveDeactivate
    <2> QED
      BY <1>2, <2>1, BaseEnds DEF RemoveDeactivate, locks, counters
  <1>3. CASE FallbackMark(r)
    <2> DEFINE row == [booking[b] EXCEPT !.fallback = Exists(b)]
    <2>1. b \in BookingIds
      BY <1>0, <1>3 DEF FallbackMark, At, IsAbout
    <2>2. booking[b] \in BookingRow /\ booking[b].status # "absent"
      BY <2>1, Underway
    <2>3. row \in BookingRow /\ row.status # "absent"
      BY <2>2 DEF BookingRow, Exists
    <2>4. /\ req' = [req EXCEPT ![r] = Idle] /\ booking' = [booking EXCEPT ![b] = row]
          /\ UNCHANGED <<sessions, active, now, faults>>
          /\ UNCHANGED <<bookingLock, tutorLock, adminSteps>>
      BY <1>3 DEF FallbackMark, Ends, locks, counters
    <2>5. ~ Adds(Idle, b) /\ Idle.b \in {b, None}
      BY <2>1, IdleRequest, NoneIsNone DEF Adds
    <2> HIDE DEF row
    <2> QED
      BY ZenonT(60), <2>1, <2>3, <2>4, <2>5, IdleRequest, BaseWrite
  <1> QED
    BY <1>1, <1>2, <1>3

LEMMA BaseContinuing ==
  ASSUME BaseInv, NEW r \in Requests, Continuing(r)
  PROVE  BaseInv'
  <1>1. CASE DeadlockVictim(r)
    BY <1>1, BaseRollsBack, SameLocks DEF DeadlockVictim, counters
  <1> QED
    BY <1>1, BaseCreating, BaseClaiming, BaseReassigning, BaseAllocating, BaseFinishing
    DEF Continuing

\* Steps of no request: the jobs, the tutor who joins, the clock.
LEMMA BaseAlone ==
  ASSUME BaseInv, UNCHANGED <<active, bookingLock, tutorLock, req, adminSteps, faults>>,
         now' \in 0..Horizon,
         booking' \in [BookingIds -> BookingRow],
         sessions' \in [BookingIds -> Counts],
         \A b \in BookingIds : booking'[b].status = "absent" =>
            booking'[b] = booking[b] /\ sessions'[b] = sessions[b],
         \A b \in BookingIds : Total(sessions'[b]) = Total(sessions[b])
  PROVE  BaseInv'
  <1>1. \A b : Adding(b)' = Adding(b)
    BY DEF Adding
  <1>2. RoomInv'
    BY <1>1 DEF BaseInv, RoomInv
  <1>3. ASSUME NEW b \in BookingIds
        PROVE  sessions'[b] \in SessionCount
    <2>1. /\ Total(sessions[b]) + Cardinality(Adding(b)) <= MaxSessions
          /\ IsFiniteSet(Adding(b))
      BY DEF BaseInv, RoomInv
    <2>2. Cardinality(Adding(b)) \in Nat
      BY <2>1, FS_CardinalityType
    <2>3. Total(sessions[b]) \in Nat
      BY SessionCounts DEF BaseInv
    <2>4. Total(sessions'[b]) <= MaxSessions
      BY <2>1, <2>2, <2>3, Bounds
    <2> QED
      BY <2>4, CountWithin
  <1>4. TypeOK'
    BY <1>3 DEF BaseInv, TypeOK
  <1>5. RequestInv' /\ AbsentInv'
    BY DEF BaseInv, RequestInv, AbsentInv
  <1> QED
    BY <1>2, <1>4, <1>5 DEF BaseInv

LEMMA UpdatedRows ==
  ASSUME BaseInv, NEW which \in SUBSET BookingIds, NEW status \in {"expired", "archived"},
         UpdateMany(which, status)
  PROVE  /\ booking' \in [BookingIds -> BookingRow]
         /\ \A b \in BookingIds :
               /\ b \in which => /\ booking'[b].status = status
                                 /\ booking'[b].tutor = booking[b].tutor
                                 /\ booking'[b].chosenBy = booking[b].chosenBy
               /\ b \notin which => booking'[b] = booking[b]
  <1>1. \A b \in BookingIds : booking[b] \in BookingRow
    BY DEF BaseInv, TypeOK
  <1>2. \A b \in BookingIds : booking'[b] =
           IF b \in which THEN [booking[b] EXCEPT !.status = status] ELSE booking[b]
    BY DEF UpdateMany
  <1>3. booking' = [b \in BookingIds |-> booking'[b]]
    BY DEF UpdateMany
  <1>4. ASSUME NEW row \in BookingRow
        PROVE  /\ [row EXCEPT !.status = status] \in BookingRow
               /\ [row EXCEPT !.status = status].status = status
               /\ [row EXCEPT !.status = status].tutor = row.tutor
               /\ [row EXCEPT !.status = status].chosenBy = row.chosenBy
    BY DEF BookingRow, BookingStatus
  <1>5. \A b \in BookingIds : booking'[b] \in BookingRow
    BY <1>1, <1>2, <1>4
  <1> QED
    BY SMTT(20), ZenonT(40), <1>1, <1>2, <1>3, <1>4, <1>5

LEMMA BaseJobs ==
  ASSUME BaseInv, Jobs
  PROVE  BaseInv'
  <1>1. PICK which \in SUBSET BookingIds, status \in {"expired", "archived"} :
           UpdateMany(which, status)
    BY DEF Jobs, ExpireUnassigned, QueueExpires, ArchiveAssigned
  <1>2. UNCHANGED <<sessions, active, locks, req, now, counters>>
    BY DEF Jobs, ExpireUnassigned, QueueExpires, ArchiveAssigned
  <1>3. /\ UNCHANGED <<active, bookingLock, tutorLock, req, adminSteps, faults>>
        /\ now' \in 0..Horizon
        /\ sessions' \in [BookingIds -> Counts] /\ sessions' = sessions
    BY <1>2, WithinIsCount DEF locks, counters, BaseInv, TypeOK
  <1>4. booking' \in [BookingIds -> BookingRow]
        /\ \A b \in BookingIds : booking'[b].status = "absent" => booking'[b] = booking[b]
    BY <1>1, UpdatedRows
  <1> QED
    BY <1>3, <1>4, BaseAlone

\* The sessions after a tutor has joined one.
LEMMA CountJoined ==
  ASSUME BaseInv, NEW b \in BookingIds, TutorJoins(b)
  PROVE  /\ sessions' \in [BookingIds -> Counts]
         /\ Total(sessions'[b]) = Total(sessions[b])
         /\ sessions'[b]["in_progress"] > 0
         /\ sessions'[b]["cancelled"] = sessions[b]["cancelled"]
         /\ \A c \in BookingIds : c # b => sessions'[c] = sessions[c]
  <1>1. \A c \in BookingIds : sessions[c] \in Counts
    BY SessionCounts DEF BaseInv
  <1> DEFINE count == [sessions[b] EXCEPT !["scheduled"] = @ - 1, !["in_progress"] = @ + 1]
  <1>2. /\ sessions[b] \in Counts /\ sessions[b]["scheduled"] > 0
    BY <1>1 DEF TutorJoins
  <1>3. /\ count \in Counts /\ Total(count) = Total(sessions[b])
        /\ count["in_progress"] > 0
        /\ count["cancelled"] = sessions[b]["cancelled"]
    BY <1>2 DEF Counts, Kinds, Total
  <1>4. sessions' = [sessions EXCEPT ![b] = count]
    BY <1>2 DEF TutorJoins, BaseInv, TypeOK, SessionCount
  <1> HIDE DEF count
  <1>5. \A c \in BookingIds : sessions'[c] = IF c = b THEN count ELSE sessions[c]
    BY <1>4 DEF BaseInv, TypeOK
  <1>6. sessions' = [c \in BookingIds |-> sessions'[c]]
    BY <1>4 DEF BaseInv, TypeOK
  <1> QED
    BY <1>1, <1>3, <1>5, <1>6

LEMMA BaseJoins ==
  ASSUME BaseInv, NEW b \in BookingIds, TutorJoins(b)
  PROVE  BaseInv'
  <1>1. /\ UNCHANGED <<active, bookingLock, tutorLock, req, adminSteps, faults>>
        /\ now' \in 0..Horizon /\ booking' \in [BookingIds -> BookingRow]
        /\ booking' = booking
    BY DEF TutorJoins, locks, counters, BaseInv, TypeOK
  <1>2. booking[b].status # "absent"
    BY DEF TutorJoins, BaseInv, AbsentInv
  <1> QED
    BY <1>1, <1>2, CountJoined, BaseAlone

LEMMA BaseTicks ==
  ASSUME BaseInv, Tick
  PROVE  BaseInv'
  <1>1. now' \in 0..Horizon
    BY Bounds DEF Tick, BaseInv, TypeOK
  <1>2. /\ UNCHANGED <<active, bookingLock, tutorLock, req, adminSteps, faults>>
        /\ booking' \in [BookingIds -> BookingRow] /\ UNCHANGED <<booking, sessions>>
        /\ sessions' \in [BookingIds -> Counts]
    BY WithinIsCount DEF Tick, locks, counters, BaseInv, TypeOK
  <1> QED
    BY <1>1, <1>2, BaseAlone

LEMMA BaseInit == Init => BaseInv
  <1> SUFFICES ASSUME Init PROVE BaseInv
    OBVIOUS
  <1>1. NoBooking \in BookingRow /\ NoBooking.tutor = None
    BY DEF NoBooking, BookingRow, BookingStatus
  <1>2. NoSessions \in SessionCount
    BY EmptyCount, Bounds, CountWithin
  <1>3. TypeOK
    BY <1>1, <1>2, IdleRequest, Bounds DEF Init, TypeOK
  <1>4. \A r \in Requests : req[r] = Idle
    BY DEF Init
  <1>5. RequestInv /\ AbsentInv
    BY <1>1, <1>4, IdleRequest, NoneIsNone DEF Init, RequestInv, AbsentInv
  <1>6. RoomInv
    <2> SUFFICES ASSUME NEW b \in BookingIds
                 PROVE  IsFiniteSet(Adding(b))
                        /\ Total(sessions[b]) + Cardinality(Adding(b)) <= MaxSessions
      BY DEF RoomInv
    <2>1. Adding(b) = {}
      BY <1>4, IdleRequest DEF Adding
    <2>2. Total(sessions[b]) = 0
      BY EmptyCount DEF Init
    <2> QED
      BY <2>1, <2>2, FS_EmptySet, Bounds
  <1> QED
    BY <1>3, <1>5, <1>6 DEF BaseInv

LEMMA BaseNext == BaseInv /\ [Next]_vars => BaseInv'
  <1> SUFFICES ASSUME BaseInv, [Next]_vars PROVE BaseInv'
    OBVIOUS
  <1>1. ASSUME NEW r \in Requests, RequestFails(r)
        PROVE  BaseInv'
    <2>1. faults' \in 0..MaxFaults
      BY <1>1, Bounds DEF RequestFails, BaseInv, TypeOK
    <2> QED
      BY <1>1, <2>1, BaseRollsBack DEF RequestFails
  <1>2. CASE UNCHANGED vars
    <2>1. \A b : Adding(b)' = Adding(b)
      BY <1>2 DEF vars, Adding
    <2> QED
      BY <1>2, <2>1
      DEF vars, counters, BaseInv, TypeOK, RequestInv, AbsentInv, RoomInv
  <1> QED
    BY <1>1, <1>2, BaseStarting, BaseContinuing, BaseJobs, BaseJoins, BaseTicks DEF Next

\* The rows, locks, counts and requests keep their types: no request ever makes
\* a session that was not counted when it began.
THEOREM TypeCorrect == Spec => []TypeOK
  <1>1. BaseInv => TypeOK
    BY DEF BaseInv
  <1> QED
    BY <1>1, BaseInit, BaseNext, PTL DEF Spec

-----------------------------------------------------------------------------
(* The tutor's lock *)

\* autoAssignTutor or claimBooking between its check and its end.
Checks(q) == q.op \in {"create", "claim"} /\ q.pc = "check"
Commits(q) == q.op \in {"create", "claim"} /\ q.pc = "commit"

\* Whoever checks a tutor, or is about to give him a booking, holds his lock; and
\* what was checked is still so.
Guarded(r) ==
    /\ Checks(req[r]) \/ Commits(req[r]) => tutorLock[req[r].t] = r
    /\ Commits(req[r]) => ~ Busy(req[r].t, req[r].b)
    /\ Commits(req[r]) /\ req[r].op = "create" => active[req[r].t]

LockInv == \A r \in Requests : Guarded(r)

\* What a step does beside whoever holds the lock of tutor t: he gets no booking,
\* and is not deactivated.
Respects(t) ==
    /\ tutorLock'[t] = tutorLock[t]
    /\ \A b \in BookingIds : Holds(t, b)' => Holds(t, b)
    /\ active[t] => active'[t]

LEMMA CheckedTutor ==
  ASSUME BaseInv, NEW r \in Requests, Checks(req[r]) \/ Commits(req[r])
  PROVE  req[r].t \in Tutors /\ req[r].b \in BookingIds
  BY Underway DEF IsAbout, Checks, Commits

\* Where a step respects the lock that s holds, s stays as it was.
LEMMA GuardedStays ==
  ASSUME BaseInv, NEW s \in Requests, Guarded(s), req'[s] = req[s],
         \A t \in Tutors : tutorLock[t] = s => Respects(t)
  PROVE  Guarded(s)'
  <1>1. CASE ~ (Checks(req[s]) \/ Commits(req[s]))
    BY <1>1 DEF Guarded
  <1>2. CASE Checks(req[s]) \/ Commits(req[s])
    <2>1. tutorLock[req[s].t] = s /\ req[s].t \in Tutors
      BY <1>2, CheckedTutor DEF Guarded
    <2>2. Respects(req[s].t)
      BY <2>1
    <2>3. Busy(req[s].t, req[s].b)' => Busy(req[s].t, req[s].b)
      BY <2>2 DEF Busy, Respects, Overlap
    <2> QED
      BY <2>1, <2>2, <2>3 DEF Guarded, Respects
  <1> QED
    BY <1>1, <1>2

\* A step of r (or of nobody) that respects the locks of all others, and after
\* which r is not in between.
LEMMA LockStep ==
  ASSUME BaseInv, LockInv, NEW r, NEW q, ~ Checks(q), ~ Commits(q),
         \A s \in Requests : req'[s] = IF s = r THEN q ELSE req[s],
         \A t \in Tutors : tutorLock[t] \notin {None, r} => Respects(t)
  PROVE  LockInv'
  <1> SUFFICES ASSUME NEW s \in Requests PROVE Guarded(s)'
    BY DEF LockInv
  <1>1. CASE s = r
    BY <1>1 DEF Guarded
  <1>2. CASE s # r
    BY <1>2, GuardedStays, NoneIsNone DEF LockInv
  <1> QED
    BY <1>1, <1>2

Held == {"confirmed", "requested"}

\* What a step may do to the row of a booking without the platform's giving a
\* tutor work: an admin may, if nobody else holds the tutor's lock.
Harmless(row, old, r) ==
    \/ row.tutor \notin Tutors
    \/ row.status \notin Held
    \/ row.tutor = old.tutor /\ row.chosenBy = old.chosenBy /\ old.status \in Held
    \/ row.chosenBy # "platform" /\ tutorLock[row.tutor] \in {None, r}

HarmlessStep(r) ==
    /\ \A b \in BookingIds : Harmless(booking'[b], booking[b], r)
    /\ \A t \in Tutors : tutorLock[t] \notin {None, r} =>
          tutorLock'[t] = tutorLock[t] /\ (active[t] => active'[t])

TutorInv == LockInv /\ NoDoubleBooking

LEMMA HarmlessHolds ==
  ASSUME NEW r, HarmlessStep(r)
  PROVE  /\ \A t \in Tutors : tutorLock[t] \notin {None, r} => Respects(t)
         /\ \A t \in Tutors, b \in BookingIds : Holds(t, b)' =>
               \/ Holds(t, b) /\ booking'[b].chosenBy = booking[b].chosenBy
               \/ booking'[b].chosenBy # "platform"
  <1>1. ASSUME NEW t \in Tutors, NEW b \in BookingIds, Holds(t, b)'
        PROVE  \/ Holds(t, b) /\ booking'[b].chosenBy = booking[b].chosenBy
               \/ booking'[b].chosenBy # "platform" /\ tutorLock[t] \in {None, r}
    <2>1. booking'[b].tutor = t /\ booking'[b].status \in Held
      BY <1>1 DEF Holds, Held
    <2>2. Harmless(booking'[b], booking[b], r)
      BY DEF HarmlessStep
    <2> QED
      BY <2>1, <2>2 DEF Harmless, Holds, Held
  <1>2. ASSUME NEW t \in Tutors, tutorLock[t] \notin {None, r}
        PROVE  Respects(t)
    BY <1>1, <1>2 DEF HarmlessStep, Respects
  <1> QED
    BY <1>1, <1>2

LEMMA TutorStep ==
  ASSUME BaseInv, TutorInv, NEW r, NEW q, ~ Checks(q), ~ Commits(q),
         \A s \in Requests : req'[s] = IF s = r THEN q ELSE req[s],
         HarmlessStep(r)
  PROVE  TutorInv'
  <1>1. LockInv'
    BY HarmlessHolds, LockStep DEF TutorInv
  <1>2. ASSUME NEW t \in Tutors, NEW b \in BookingIds, NEW c \in BookingIds,
               b # c, Holds(t, b)', Holds(t, c)', Overlap(b, c)
        PROVE  {booking'[b].chosenBy, booking'[c].chosenBy} # {"platform"}
    <2>1. CASE booking'[b].chosenBy # "platform" \/ booking'[c].chosenBy # "platform"
      BY <2>1
    <2>2. CASE booking'[b].chosenBy = "platform" /\ booking'[c].chosenBy = "platform"
      <3>1. /\ Holds(t, b) /\ booking'[b].chosenBy = booking[b].chosenBy
            /\ Holds(t, c) /\ booking'[c].chosenBy = booking[c].chosenBy
        BY <1>2, <2>2, HarmlessHolds
      <3> QED
        BY <1>2, <3>1 DEF TutorInv, NoDoubleBooking
    <2> QED
      BY <2>1, <2>2
  <1>3. NoDoubleBooking'
    BY <1>2 DEF NoDoubleBooking, Overlap
  <1> QED
    BY <1>1, <1>3 DEF TutorInv

LEMMA HarmlessSame ==
  ASSUME BaseInv, NEW b \in BookingIds, NEW r
  PROVE  Harmless(booking[b], booking[b], r)
  BY DEF Harmless, BaseInv, TypeOK, BookingRow

\* A step that leaves the rows and the tutors alone.
LEMMA TutorNoWrite ==
  ASSUME BaseInv, TutorInv, NEW r \in Requests, NEW q \in Request,
         ~ Checks(q), ~ Commits(q), req' = [req EXCEPT ![r] = q],
         UNCHANGED <<booking, active>>, tutorLock' = tutorLock \/ Unlocks(r)
  PROVE  TutorInv'
  <1>1. \A s \in Requests : req'[s] = IF s = r THEN q ELSE req[s]
    BY RequestsAfter DEF BaseInv
  <1>2. \A t \in Tutors : tutorLock[t] \notin {None, r} => tutorLock'[t] = tutorLock[t]
    BY Unlocked DEF BaseInv
  <1>3. HarmlessStep(r)
    BY <1>2, HarmlessSame DEF HarmlessStep
  <1> QED
    BY <1>1, <1>3, TutorStep

\* A step that writes the row of booking b.
LEMMA TutorWrite ==
  ASSUME BaseInv, TutorInv, NEW r \in Requests, NEW q \in Request,
         ~ Checks(q), ~ Commits(q), req' = [req EXCEPT ![r] = q],
         NEW b \in BookingIds, NEW row, Harmless(row, booking[b], r),
         booking' = [booking EXCEPT ![b] = row],
         UNCHANGED <<active, tutorLock>>
  PROVE  TutorInv'
  <1>1. \A s \in Requests : req'[s] = IF s = r THEN q ELSE req[s]
    BY RequestsAfter DEF BaseInv
  <1>2. \A c \in BookingIds : booking'[c] = IF c = b THEN row ELSE booking[c]
    BY DEF BaseInv, TypeOK
  <1>3. \A c \in BookingIds : Harmless(booking'[c], booking[c], r)
    BY <1>2, HarmlessSame
  <1>4. HarmlessStep(r)
    BY <1>3 DEF HarmlessStep
  <1> QED
    BY <1>1, <1>4, TutorStep

LEMMA IdleIsOut == ~ Checks(Idle) /\ ~ Commits(Idle)
  BY DEF Idle, Checks, Commits

\* autoAssignTutor and claimBooking lock the tutor, check him, and commit.
LEMMA TutorLocks ==
  ASSUME BaseInv, TutorInv, NEW r \in Requests,
         AssignLockTutor(r) \/ ClaimLockTutor(r)
  PROVE  TutorInv'
  <1>1. /\ LocksTutor(r, req[r].t) /\ GoesTo(r, "check")
        /\ UNCHANGED <<booking, active>>
        /\ req[r].op \in {"create", "claim"} /\ req[r].pc = "lockTutor"
    BY DEF AssignLockTutor, ClaimLockTutor, At
  <1>2. req[r] \in Request /\ req[r].t \in Tutors
    BY <1>1, Underway DEF IsAbout
  <1>3. /\ tutorLock[req[r].t] = None
        /\ \A u \in Tutors : tutorLock'[u] = IF u = req[r].t THEN r ELSE tutorLock[u]
    BY <1>1, <1>2, TutorLocked DEF BaseInv
  <1>4. /\ req'[r] = [req[r] EXCEPT !.pc = "check"]
        /\ \A s \in Requests : s # r => req'[s] = req[s]
    BY <1>1 DEF GoesTo, BaseInv, TypeOK
  <1>5. req'[r].pc = "check" /\ req'[r].t = req[r].t /\ ~ Commits(req'[r])
    BY <1>2, <1>4 DEF Request, Commits
  <1>6. Guarded(r)'
    BY <1>2, <1>3, <1>5 DEF Guarded
  <1>7. ASSUME NEW s \in Requests, s # r PROVE Guarded(s)'
    <2>1. \A t \in Tutors : tutorLock[t] = s => Respects(t)
      BY <1>1, <1>3, <1>7, NoneIsNone DEF Respects, Holds
    <2> QED
      BY <1>4, <1>7, <2>1, GuardedStays DEF TutorInv, LockInv
  <1>8. NoDoubleBooking'
    BY <1>1 DEF TutorInv, NoDoubleBooking, Holds, Overlap
  <1> QED
    BY <1>6, <1>7, <1>8 DEF TutorInv, LockInv

LEMMA TutorChecked ==
  ASSUME BaseInv, TutorInv, NEW r \in Requests, AssignChecked(r) \/ ClaimChecked(r)
  PROVE  TutorInv'
  <1>1. /\ ~ Busy(req[r].t, req[r].b) /\ GoesTo(r, "commit")
        /\ UNCHANGED <<booking, active, tutorLock>>
        /\ req[r].op = "create" => active[req[r].t]
        /\ Checks(req[r])
    BY DEF AssignChecked, ClaimChecked, At, Checks, locks
  <1>2. req[r] \in Request /\ req[r].t \in Tutors /\ tutorLock[req[r].t] = r
    BY <1>1, Underway, CheckedTutor DEF TutorInv, LockInv, Guarded
  <1>4. /\ req'[r] = [req[r] EXCEPT !.pc = "commit"]
        /\ \A s \in Requests : s # r => req'[s] = req[s]
    BY <1>1 DEF GoesTo, BaseInv, TypeOK
  <1>5. /\ req'[r].t = req[r].t /\ req'[r].b = req[r].b /\ req'[r].op = req[r].op
    BY <1>2, <1>4 DEF Request
  <1>6. ~ Busy(req[r].t, req[r].b)'
    BY <1>1, <1>5 DEF Busy, Holds, Overlap
  <1>7. Guarded(r)'
    BY <1>1, <1>2, <1>5, <1>6 DEF Guarded
  <1>8. ASSUME NEW s \in Requests, s # r PROVE Guarded(s)'
    <2>1. \A t \in Tutors : tutorLock[t] = s => Respects(t)
      BY <1>1 DEF Respects, Holds
    <2> QED
      BY <1>4, <1>8, <2>1, GuardedStays DEF TutorInv, LockInv
  <1>9. NoDoubleBooking'
    BY <1>1 DEF TutorInv, NoDoubleBooking, Holds, Overlap
  <1> QED
    BY <1>7, <1>8, <1>9 DEF TutorInv, LockInv

\* The commit: the tutor's lock is held and his slot is free.
LEMMA TutorCommits ==
  ASSUME BaseInv, TutorInv, NEW r \in Requests, AssignCommit(r) \/ ClaimCommit(r)
  PROVE  TutorInv'
  <1> DEFINE b == req[r].b
             u == req[r].t
  <1>1. /\ Commits(req[r]) /\ Unlocks(r) /\ active' = active
        /\ booking' = [booking EXCEPT ![b] = Assigned(booking[b], u)]
    BY DEF AssignCommit, ClaimCommit, At, Commits
  <1>2. u \in Tutors /\ b \in BookingIds /\ tutorLock[u] = r /\ ~ Busy(u, b)
    BY <1>1, CheckedTutor DEF TutorInv, LockInv, Guarded
  <1>3. booking[b] \in BookingRow
    BY <1>2, Underway
  <1>4. /\ booking'[b].tutor = u
        /\ \A c \in BookingIds : c # b => booking'[c] = booking[c]
    BY <1>1, <1>2, <1>3, RowFields DEF BaseInv, TypeOK
  <1>5. \A t \in Tutors, c \in BookingIds : Holds(t, c)' =>
           (t = u /\ c = b) \/ (Holds(t, c) /\ c # b /\ booking'[c] = booking[c])
    BY <1>4 DEF Holds
  <1>6. \A t \in Tutors : tutorLock[t] \notin {None, r} => Respects(t)
    BY <1>1, <1>2, <1>5, Unlocked DEF Respects, BaseInv
  <1>7. PICK q : ~ Checks(q) /\ ~ Commits(q) /\ req' = [req EXCEPT ![r] = q]
    <2>1. CASE AssignCommit(r)
      <3>1. req' = [req EXCEPT ![r] = [req[r] EXCEPT !.pc = "session"]]
        BY <2>1 DEF AssignCommit, GoesTo, BaseInv, TypeOK
      <3>2. [req[r] EXCEPT !.pc = "session"].pc = "session"
        BY Underway DEF Request
      <3> QED
        BY <3>1, <3>2 DEF Checks, Commits
    <2>2. CASE ClaimCommit(r)
      BY <2>2, IdleIsOut DEF ClaimCommit, Ends
    <2> QED
      BY <2>1, <2>2
  <1>8. \A s \in Requests : req'[s] = IF s = r THEN q ELSE req[s]
    BY <1>7 DEF BaseInv, TypeOK
  <1>9. LockInv'
    BY <1>6, <1>7, <1>8, LockStep DEF TutorInv
  <1>10. ASSUME NEW t \in Tutors, NEW c \in BookingIds, NEW d \in BookingIds,
                c # d, Holds(t, c)', Holds(t, d)', Overlap(c, d)
         PROVE  {booking'[c].chosenBy, booking'[d].chosenBy} # {"platform"}
    <2>1. ~ (t = u /\ c = b)
      <3> SUFFICES ASSUME t = u, c = b PROVE FALSE
        OBVIOUS
      <3>1. Holds(u, d)
        BY <1>5, <1>10
      <3> QED
        BY <1>2, <1>10, <3>1 DEF Busy
    <2>2. ~ (t = u /\ d = b)
      <3> SUFFICES ASSUME t = u, d = b PROVE FALSE
        OBVIOUS
      <3>1. Holds(u, c) /\ Overlap(b, c)
        BY <1>5, <1>10 DEF Overlap
      <3> QED
        BY <1>2, <3>1 DEF Busy
    <2>3. Holds(t, c) /\ Holds(t, d) /\ booking'[c] = booking[c] /\ booking'[d] = booking[d]
      BY <1>5, <1>10, <2>1, <2>2
    <2> QED
      BY <1>10, <2>3 DEF TutorInv, NoDoubleBooking
  <1>11. NoDoubleBooking'
    BY <1>10 DEF NoDoubleBooking, Overlap
  <1> QED
    BY <1>9, <1>11 DEF TutorInv

\* The requests that begin.
LEMMA TutorStarting ==
  ASSUME BaseInv, TutorInv, NEW r \in Requests, Starting(r)
  PROVE  TutorInv'
  <1>1. ASSUME NEW b \in BookingIds, CreateBooking(r, b)
        PROVE  TutorInv'
    <2> DEFINE q == [op |-> "create", b |-> b, t |-> None, pc |-> "deduct", seen |-> FALSE]
               row == [booking[b] EXCEPT !.status = "requested"]
    <2>1. q \in Request /\ ~ Checks(q) /\ ~ Commits(q)
      BY RequestRecord DEF Checks, Commits
    <2>2. booking[b] \in BookingRow /\ booking[b].tutor = None
      BY <1>1 DEF CreateBooking, BaseInv, TypeOK, AbsentInv
    <2>3. row.tutor \notin Tutors
      BY <2>2, NoneIsNone DEF BookingRow
    <2>4. /\ req' = [req EXCEPT ![r] = q] /\ booking' = [booking EXCEPT ![b] = row]
          /\ UNCHANGED <<active, tutorLock>>
      BY <1>1 DEF CreateBooking, Starts, locks
    <2> HIDE DEF q, row
    <2>5. Harmless(row, booking[b], r)
      BY <2>3 DEF Harmless
    <2> QED
      BY <2>1, <2>4, <2>5, TutorWrite
  <1>2. ASSUME NEW b \in BookingIds \union {None}, NEW t \in Tutors \union {None},
               NEW o \in {"cancel", "fallback", "claim", "allocate"},
               NEW p \in {"cancel", "mark", "lockTutor", "look"}, NEW s \in BOOLEAN,
               req' = [req EXCEPT ![r] = [op |-> o, b |-> b, t |-> t, pc |-> p,
                                          seen |-> s]],
               UNCHANGED <<booking, active, tutorLock>>
        PROVE  TutorInv'
    <2> DEFINE q == [op |-> o, b |-> b, t |-> t, pc |-> p, seen |-> s]
    <2>1. q \in Request /\ ~ Checks(q) /\ ~ Commits(q)
      BY ZenonT(60), RequestRecord DEF Checks, Commits
    <2> HIDE DEF q
    <2>2. req' = [req EXCEPT ![r] = q] /\ UNCHANGED <<booking, active>>
          /\ tutorLock' = tutorLock
      BY <1>2 DEF q
    <2> QED
      BY <2>1, <2>2, TutorNoWrite
  <1>3. ASSUME NEW b \in BookingIds, CancelRead(r, b)
        PROVE  TutorInv'
    <2>1. HasSessions(b) \in BOOLEAN
      BY DEF HasSessions
    <2>2. /\ req' = [req EXCEPT ![r] = [op |-> "cancel", b |-> b, t |-> None,
                                        pc |-> "cancel", seen |-> HasSessions(b)]]
          /\ UNCHANGED <<booking, active, tutorLock>>
      BY <1>3 DEF CancelRead, locks
    <2> QED
      BY <1>2, <2>1, <2>2
  <1>4. ASSUME NEW b \in BookingIds, FallbackRead(r, b)
        PROVE  TutorInv'
    BY <1>2, <1>4 DEF FallbackRead, Starts, locks
  <1>5. ASSUME NEW b \in BookingIds, NEW t \in Tutors, Claim(r, b, t)
        PROVE  TutorInv'
    BY <1>2, <1>5 DEF Claim, Starts
  <1>6. ASSUME NEW t \in Tutors, AllocateReads(r, t)
        PROVE  TutorInv'
    BY <1>2, <1>6 DEF AllocateReads, Starts, locks
  <1>7. ASSUME NEW b \in BookingIds, NEW t \in Tutors, NEW o \in {"reassign", "allocate"},
               NEW who \in {"reassign", "admin"},
               Starts(r, o, b, t, "find"), tutorLock[t] = None,
               booking' = [booking EXCEPT ![b] = Chosen(booking[b], t, who)],
               UNCHANGED <<active, tutorLock>>
        PROVE  TutorInv'
    <2> DEFINE q == [op |-> o, b |-> b, t |-> t, pc |-> "find", seen |-> FALSE]
               row == Chosen(booking[b], t, who)
    <2>1. q \in Request /\ ~ Checks(q) /\ ~ Commits(q)
      BY RequestRecord DEF Checks, Commits
    <2>2. booking[b] \in BookingRow
      BY DEF BaseInv, TypeOK
    <2>3. row.tutor = t /\ row.chosenBy = who
      BY <2>2, RowFields
    <2>4. /\ req' = [req EXCEPT ![r] = q] /\ booking' = [booking EXCEPT ![b] = row]
          /\ UNCHANGED <<active, tutorLock>>
      BY <1>7 DEF Starts
    <2> HIDE DEF q, row
    <2>5. Harmless(row, booking[b], r)
      BY <1>7, <2>3 DEF Harmless
    <2> QED
      BY <2>1, <2>4, <2>5, TutorWrite
  <1>8. ASSUME NEW b \in BookingIds, NEW t \in Tutors, Reassign(r, b, t)
        PROVE  TutorInv'
    BY <1>7, <1>8 DEF Reassign, locks
  <1>9. ASSUME NEW b \in BookingIds, NEW t \in Tutors, AssignTutor(r, b, t)
        PROVE  TutorInv'
    BY <1>7, <1>9 DEF AssignTutor, locks
  <1>10. ASSUME NEW t \in Tutors, RemoveUnassign(r, t)
         PROVE  TutorInv'
    <2> DEFINE q == [op |-> "remove", b |-> None, t |-> t, pc |-> "deactivate",
                     seen |-> FALSE]
    <2>1. q \in Request /\ ~ Checks(q) /\ ~ Commits(q)
      BY RequestRecord DEF Checks, Commits
    <2>2. req' = [req EXCEPT ![r] = q] /\ UNCHANGED <<active, tutorLock>>
      BY <1>10 DEF RemoveUnassign, Starts, locks
    <2> HIDE DEF q
    <2>3. \A s \in Requests : req'[s] = IF s = r THEN q ELSE req[s]
      BY <2>1, <2>2, RequestsAfter DEF BaseInv
    <2>4. ASSUME NEW b \in BookingIds PROVE Harmless(booking'[b], booking[b], r)
      <3>1. booking'[b] = IF booking[b].tutor = t THEN Unassigned(booking[b])
                          ELSE booking[b]
        BY <1>10 DEF RemoveUnassign, Theirs
      <3>2. booking[b] \in BookingRow
        BY DEF BaseInv, TypeOK
      <3>3. Unassigned(booking[b]).tutor \notin Tutors
        BY <3>2, RowUnassigned, NoneIsNone
      <3> QED
        BY <3>1, <3>3, HarmlessSame DEF Harmless
    <2>5. HarmlessStep(r)
      BY <2>2, <2>4 DEF HarmlessStep
    <2> QED
      BY <2>1, <2>3, <2>5, TutorStep
  <1> QED
    BY <1>1, <1>3, <1>4, <1>5, <1>6, <1>8, <1>9, <1>10 DEF Starting

\* A request that ends, whatever it was.
LEMMA TutorEnds ==
  ASSUME BaseInv, TutorInv, NEW r \in Requests, Ends(r),
         UNCHANGED <<booking, active>>, tutorLock' = tutorLock \/ Unlocks(r)
  PROVE  TutorInv'
  BY IdleRequest, IdleIsOut, TutorNoWrite DEF Ends

\* One that ends with a row written.
LEMMA TutorEndsWith ==
  ASSUME BaseInv, TutorInv, NEW r \in Requests, Ends(r),
         NEW b \in BookingIds, NEW row, Harmless(row, booking[b], r),
         booking' = [booking EXCEPT ![b] = row], UNCHANGED <<active, tutorLock>>
  PROVE  TutorInv'
  BY IdleRequest, IdleIsOut, TutorWrite DEF Ends

\* One that goes on to a step that needs no lock.
LEMMA TutorGoesOn ==
  ASSUME BaseInv, TutorInv, NEW r \in Requests,
         NEW q \in Request, q.pc \in {"lockTutor", "assign", "find", "save"},
         req' = [req EXCEPT ![r] = q], UNCHANGED <<booking, active, tutorLock>>
  PROVE  TutorInv'
  <1>1. ~ Checks(q) /\ ~ Commits(q)
    BY DEF Checks, Commits
  <1> QED
    BY <1>1, TutorNoWrite

LEMMA TutorRollsBack ==
  ASSUME BaseInv, TutorInv, NEW r \in Requests, RollsBack(r), UNCHANGED active
  PROVE  TutorInv'
  BY TutorEnds DEF RollsBack

LEMMA TutorCreating ==
  ASSUME BaseInv, TutorInv, NEW r \in Requests, Creating(r)
  PROVE  TutorInv'
  <1> DEFINE b == req[r].b
  <1>0. req[r] \in Request /\ IsAbout(req[r])
    BY Underway
  <1>1. CASE DeductFails(r)
    <2> DEFINE row == [NoBooking EXCEPT !.status = "deleted"]
    <2>1. b \in BookingIds
      BY <1>0, <1>1 DEF DeductFails, At, IsAbout
    <2>2. row.status \notin Held
      BY DEF NoBooking, Held
    <2>3. Ends(r) /\ booking' = [booking EXCEPT ![b] = row] /\ UNCHANGED <<active, tutorLock>>
      BY <1>1 DEF DeductFails, locks
    <2> HIDE DEF row
    <2>4. Harmless(row, booking[b], r)
      BY <2>2 DEF Harmless
    <2> QED
      BY <2>1, <2>3, <2>4, TutorEndsWith
  <1>2. ASSUME NEW t \in Tutors, PickTutor(r, t)
        PROVE  TutorInv'
    <2> DEFINE q == [req[r] EXCEPT !.t = t, !.pc = "lockTutor"]
    <2>1. q \in Request /\ q.pc \in {"lockTutor", "assign", "find", "save"}
      BY <1>0 DEF Request
    <2>2. req' = [req EXCEPT ![r] = q] /\ UNCHANGED <<booking, active, tutorLock>>
      BY <1>2 DEF PickTutor, locks, BaseInv, TypeOK
    <2> HIDE DEF q
    <2> QED
      BY <2>1, <2>2, TutorGoesOn
  <1>3. CASE PickNobody(r) \/ CreateSession(r)
    <2>1. Ends(r) /\ UNCHANGED <<booking, active, tutorLock>>
      BY <1>3 DEF PickNobody, CreateSession, locks
    <2> QED
      BY <2>1, TutorEnds
  <1>4. CASE AssignRefused(r)
    BY <1>4, TutorRollsBack DEF AssignRefused
  <1> QED
    BY <1>1, <1>2, <1>3, <1>4, TutorLocks, TutorChecked, TutorCommits DEF Creating

LEMMA TutorClaiming ==
  ASSUME BaseInv, TutorInv, NEW r \in Requests, Claiming(r)
  PROVE  TutorInv'
  <1>1. CASE ClaimOverlaps(r)
    BY <1>1, TutorRollsBack DEF ClaimOverlaps
  <1> QED
    BY <1>1, TutorLocks, TutorChecked, TutorCommits DEF Claiming

LEMMA TutorReassigning ==
  ASSUME BaseInv, TutorInv, NEW r \in Requests, Reassigning(r)
  PROVE  TutorInv'
  <1>1. CASE ReassignFind(r)
    <2> DEFINE q == [req[r] EXCEPT !.pc = "save", !.seen = HasSessions(req[r].b)]
    <2>1. q \in Request /\ q.pc \in {"lockTutor", "assign", "find", "save"}
      BY Underway DEF Request, HasSessions
    <2>2. req' = [req EXCEPT ![r] = q] /\ UNCHANGED <<booking, active, tutorLock>>
      BY <1>1 DEF ReassignFind, locks, BaseInv, TypeOK
    <2> HIDE DEF q
    <2> QED
      BY <2>1, <2>2, TutorGoesOn
  <1>2. CASE ReassignUpdate(r) \/ ReassignCreate(r) \/ ReassignFails(r)
    <2>1. Ends(r) /\ UNCHANGED <<booking, active, tutorLock>>
      BY <1>2 DEF ReassignUpdate, ReassignCreate, ReassignFails, locks
    <2> QED
      BY <2>1, TutorEnds
  <1> QED
    BY <1>1, <1>2 DEF Reassigning

LEMMA TutorAllocating ==
  ASSUME BaseInv, TutorInv, NEW r \in Requests, Allocating(r)
  PROVE  TutorInv'
  <1>0. req[r] \in Request /\ IsAbout(req[r])
    BY Underway
  <1>1. ASSUME NEW b \in BookingIds, AllocateLooks(r, b)
        PROVE  TutorInv'
    <2> DEFINE q == [req[r] EXCEPT !.b = b, !.pc = "assign"]
    <2>1. q \in Request /\ q.pc \in {"lockTutor", "assign", "find", "save"}
      BY <1>0 DEF Request
    <2>2. req' = [req EXCEPT ![r] = q] /\ UNCHANGED <<booking, active, tutorLock>>
      BY <1>1 DEF AllocateLooks, locks, BaseInv, TypeOK
    <2> HIDE DEF q
    <2> QED
      BY <2>1, <2>2, TutorGoesOn
  <1>2. ASSUME NEW b \in BookingIds, NEW q \in Request, q.pc \in {"find", "save"},
               req[r].op = "allocate", tutorLock[req[r].t] = None,
               booking' = [booking EXCEPT ![b] = Chosen(booking[b], req[r].t, "admin")],
               req' = [req EXCEPT ![r] = q], UNCHANGED <<active, tutorLock>>
        PROVE  TutorInv'
    <2> DEFINE row == Chosen(booking[b], req[r].t, "admin")
    <2>1. booking[b] \in BookingRow /\ req[r].t \in Tutors
      BY <1>0, <1>2 DEF BaseInv, TypeOK, IsAbout
    <2>2. row.tutor = req[r].t /\ row.chosenBy = "admin"
      BY <2>1, RowFields
    <2>3. ~ Checks(q) /\ ~ Commits(q)
      BY <1>2 DEF Checks, Commits
    <2>4. booking' = [booking EXCEPT ![b] = row]
      BY <1>2
    <2> HIDE DEF row
    <2>5. Harmless(row, booking[b], r)
      BY <1>2, <2>2 DEF Harmless
    <2> QED
      BY <1>2, <2>3, <2>4, <2>5, TutorWrite
  <1>3. ASSUME NEW b \in BookingIds, AllocateCreates(r, b)
        PROVE  TutorInv'
    <2> DEFINE q == [req[r] EXCEPT !.b = b, !.pc = "save"]
    <2>1. q \in Request /\ q.pc \in {"find", "save"}
      BY <1>0 DEF Request
    <2>2. /\ req[r].op = "allocate" /\ tutorLock[req[r].t] = None
          /\ booking' = [booking EXCEPT ![b] = Chosen(booking[b], req[r].t, "admin")]
          /\ req' = [req EXCEPT ![r] = q] /\ UNCHANGED <<active, tutorLock>>
      BY <1>3 DEF AllocateCreates, At, locks, BaseInv, TypeOK
    <2> HIDE DEF q
    <2> QED
      BY <1>2, <2>1, <2>2
  <1>4. CASE AllocateAssigns(r)
    <2> DEFINE q == [req[r] EXCEPT !.pc = "find"]
               b == req[r].b
    <2>1. q \in Request /\ q.pc \in {"find", "save"}
      BY <1>0 DEF Request
    <2>2. /\ req[r].op = "allocate" /\ tutorLock[req[r].t] = None
          /\ booking' = [booking EXCEPT ![b] = Chosen(booking[b], req[r].t, "admin")]
          /\ req' = [req EXCEPT ![r] = q] /\ UNCHANGED <<active, tutorLock>>
      BY <1>4 DEF AllocateAssigns, At, GoesTo, locks, BaseInv, TypeOK
    <2>3. b \in BookingIds
      BY <1>0, <1>4 DEF AllocateAssigns, At, IsAbout
    <2> HIDE DEF q
    <2> QED
      BY <1>2, <2>1, <2>2, <2>3
  <1>5. CASE AllocateFinds(r)
    <2>1. UNCHANGED <<booking, active, tutorLock>>
      BY <1>5 DEF AllocateFinds, locks
    <2>2. CASE Ends(r)
      BY <2>1, <2>2, TutorEnds
    <2>3. CASE GoesTo(r, "save")
      <3> DEFINE q == [req[r] EXCEPT !.pc = "save"]
      <3>1. q \in Request /\ q.pc \in {"lockTutor", "assign", "find", "save"}
        BY <1>0 DEF Request
      <3>2. req' = [req EXCEPT ![r] = q]
        BY <2>3 DEF GoesTo, BaseInv, TypeOK
      <3> HIDE DEF q
      <3> QED
        BY <2>1, <3>1, <3>2, TutorGoesOn
    <2> QED
      BY <1>5, <2>2, <2>3 DEF AllocateFinds
  <1>6. CASE AllocateMakes(r) \/ AllocateFails(r)
    <2>1. Ends(r) /\ UNCHANGED <<booking, active, tutorLock>>
      BY <1>6 DEF AllocateMakes, AllocateFails, locks
    <2> QED
      BY <2>1, TutorEnds
  <1> QED
    BY <1>1, <1>3, <1>4, <1>5, <1>6 DEF Allocating

LEMMA TutorFinishing ==
  ASSUME BaseInv, TutorInv, NEW r \in Requests,
         CancelCommit(r) \/ RemoveDeactivate(r) \/ FallbackMark(r)
  PROVE  TutorInv'
  <1> DEFINE b == req[r].b
  <1>0. req[r] \in Request /\ IsAbout(req[r])
    BY Underway
  <1>1. CASE CancelCommit(r)
    <2>0. Ends(r) /\ UNCHANGED <<active, tutorLock>>
      BY <1>1 DEF CancelCommit, locks
    <2>1. CASE Exists(b)
      <3> DEFINE row == [booking[b] EXCEPT !.status = "cancelled"]
      <3>1. b \in BookingIds
        BY <1>0, <1>1 DEF CancelCommit, At, IsAbout
      <3>2. booking[b] \in BookingRow
        BY <3>1, Underway
      <3>3. row.status \notin Held
        BY <3>2 DEF BookingRow, Held
      <3>4. booking' = [booking EXCEPT ![b] = row]
        BY <1>1, <2>1 DEF CancelCommit
      <3> HIDE DEF row
      <3>5. Harmless(row, booking[b], r)
        BY <3>3 DEF Harmless
      <3> QED
        BY <2>0, <3>1, <3>4, <3>5, TutorEndsWith
    <2>2. CASE ~ Exists(b)
      BY <1>1, <2>0, <2>2, TutorEnds DEF CancelCommit
    <2> QED
      BY <2>1, <2>2
  <1>2. CASE RemoveDeactivate(r)
    <2>1. \A s \in Requests : req'[s] = IF s = r THEN Idle ELSE req[s]
      BY <1>2, IdleRequest, RequestsAfter DEF RemoveDeactivate, Ends, BaseInv
    <2>2. /\ UNCHANGED <<booking, tutorLock>>
          /\ \A t \in Tutors : tutorLock[t] # None => active'[t] = active[t]
      BY <1>2 DEF RemoveDeactivate, locks, BaseInv, TypeOK
    <2>3. HarmlessStep(r)
      BY <2>2, HarmlessSame DEF HarmlessStep
    <2> QED
      BY <2>1, <2>3, IdleIsOut, TutorStep
  <1>3. CASE FallbackMark(r)
    <2> DEFINE row == [booking[b] EXCEPT !.fallback = Exists(b)]
    <2>1. b \in BookingIds
      BY <1>0, <1>3 DEF FallbackMark, At, IsAbout
    <2>2. booking[b] \in BookingRow
      BY <2>1, Underway
    <2>3. row.tutor = booking[b].tutor /\ row.status = booking[b].status
          /\ row.chosenBy = booking[b].chosenBy
      BY <2>2 DEF BookingRow
    <2>4. Ends(r) /\ booking' = [booking EXCEPT ![b] = row] /\ UNCHANGED <<active, tutorLock>>
      BY <1>3 DEF FallbackMark, locks
    <2> HIDE DEF row
    <2>5. Harmless(row, booking[b], r)
      BY <2>3 DEF Harmless
    <2> QED
      BY <2>1, <2>4, <2>5, TutorEndsWith
  <1> QED
    BY <1>1, <1>2, <1>3

\* The jobs, the tutor who joins, the clock.
LEMMA TutorAlone ==
  ASSUME BaseInv, TutorInv, UNCHANGED <<active, tutorLock, req>>,
         \A b \in BookingIds : Harmless(booking'[b], booking[b], None)
  PROVE  TutorInv'
  <1>1. \A s \in Requests : req'[s] = IF s = None THEN Idle ELSE req[s]
    BY NoneIsNone
  <1>2. HarmlessStep(None)
    BY DEF HarmlessStep
  <1> QED
    BY <1>1, <1>2, IdleIsOut, TutorStep

LEMMA TutorJobs ==
  ASSUME BaseInv, TutorInv, Jobs
  PROVE  TutorInv'
  <1>1. PICK which \in SUBSET BookingIds, status \in {"expired", "archived"} :
           UpdateMany(which, status)
    BY DEF Jobs, ExpireUnassigned, QueueExpires, ArchiveAssigned
  <1>2. UNCHANGED <<active, tutorLock, req>>
    BY DEF Jobs, ExpireUnassigned, QueueExpires, ArchiveAssigned, locks
  <1>3. ASSUME NEW b \in BookingIds PROVE Harmless(booking'[b], booking[b], None)
    <2>1. CASE b \in which
      <3>1. booking'[b].status \notin Held
        BY <1>1, <2>1, UpdatedRows DEF Held
      <3> QED
        BY <3>1 DEF Harmless
    <2>2. CASE b \notin which
      <3>1. booking'[b] = booking[b]
        BY <1>1, <2>2, UpdatedRows
      <3> QED
        BY <3>1, HarmlessSame
    <2> QED
      BY <2>1, <2>2
  <1> QED
    BY <1>2, <1>3, TutorAlone

LEMMA TutorInit == Init => TutorInv
  <1> SUFFICES ASSUME Init PROVE TutorInv
    OBVIOUS
  <1>1. LockInv
    BY IdleIsOut DEF Init, LockInv, Guarded
  <1>2. \A t \in Tutors, b \in BookingIds : ~ Holds(t, b)
    BY NoneIsNone DEF Init, Holds, NoBooking
  <1> QED
    BY <1>1, <1>2 DEF TutorInv, NoDoubleBooking

LEMMA TutorNext == BaseInv /\ TutorInv /\ [Next]_vars => TutorInv'
  <1> SUFFICES ASSUME BaseInv, TutorInv, [Next]_vars PROVE TutorInv'
    OBVIOUS
  <1>1. ASSUME NEW r \in Requests, Continuing(r)
        PROVE  TutorInv'
    <2>1. CASE DeadlockVictim(r)
      BY <2>1, TutorRollsBack DEF DeadlockVictim
    <2> QED
      BY <1>1, <2>1, TutorCreating, TutorClaiming, TutorReassigning, TutorAllocating,
         TutorFinishing DEF Continuing
  <1>2. ASSUME NEW r \in Requests, RequestFails(r)
        PROVE  TutorInv'
    BY <1>2, TutorRollsBack DEF RequestFails
  <1>3. CASE UNCHANGED <<booking, active, tutorLock, req>>
    <2>1. \A b \in BookingIds : Harmless(booking'[b], booking[b], None)
      BY <1>3, HarmlessSame
    <2> QED
      BY <1>3, <2>1, TutorAlone
  <1>4. ASSUME NEW b \in BookingIds, TutorJoins(b)
        PROVE  TutorInv'
    BY <1>3, <1>4 DEF TutorJoins, locks
  <1>5. CASE Tick \/ UNCHANGED vars
    BY <1>3, <1>5 DEF Tick, vars, locks
  <1> QED
    BY <1>1, <1>2, <1>4, <1>5, TutorStarting, TutorJobs DEF Next

\* No tutor holds two bookings whose slots overlap unless an admin gave him one:
\* however autoAssignTutor, claimBooking, reassign, the removals and the jobs
\* interleave, the check and the write happen under the tutor's lock.
THEOREM NotDoubleBooked == Spec => []NoDoubleBooking
  <1>1. TutorInv => NoDoubleBooking
    BY DEF TutorInv
  <1> QED
    BY <1>1, BaseInit, BaseNext, TutorInit, TutorNext, PTL DEF Spec

\* autoAssignTutor gives no booking to a tutor who has been removed: removeTutor's
\* second write waits for the lock the check was made under.
THEOREM AssignsActive == Spec => AutoAssignsActive
  <1>1. ASSUME LockInv, [Next]_vars
        PROVE  [\A r \in Requests : AssignCommit(r) => active[req[r].t]]_vars
    <2> SUFFICES ASSUME NEW r \in Requests, AssignCommit(r) PROVE active[req[r].t]
      OBVIOUS
    <2>1. Commits(req[r]) /\ req[r].op = "create"
      BY DEF AssignCommit, At, Commits
    <2> QED
      BY <1>1, <2>1 DEF LockInv, Guarded
  <1>2. TutorInv => LockInv
    BY DEF TutorInv
  <1> QED
    BY <1>1, <1>2, BaseInit, BaseNext, TutorInit, TutorNext, PTL
    DEF Spec, AutoAssignsActive

-----------------------------------------------------------------------------
(* The session of a confirmed booking *)

\* Counts that can still be joined.
Serves(c) == c["scheduled"] > 0 \/ c["in_progress"] > 0

\* Request q makes the session of booking b before it ends: create after the
\* assignment, reassign after it has looked; the admin's allocation unless it finds
\* one, of whatever status.
Owes(q, b) ==
    /\ q.b = b
    /\ \/ q.op = "create" /\ q.pc = "session"
       \/ q.op = "reassign" /\ q.pc \in {"find", "save"}
AdminOwes(q, b) == q.b = b /\ q.op = "allocate" /\ q.pc \in {"find", "save"}

IsServed(b) ==
    \/ Serves(sessions[b])
    \/ \E r \in Requests : Owes(req[r], b)
    \/ /\ booking[b].chosenBy = "admin"
       /\ \/ sessions[b]["cancelled"] > 0
          \/ \E r \in Requests : AdminOwes(req[r], b)

OwedInv ==
    faults = 0 => \A b \in BookingIds : booking[b].status = "confirmed" => IsServed(b)

\* Booking b after a step of r that leaves request q: it has a session, r still
\* owes it one, or nothing is lost that it was promised.
StaysServed(b, r, q) ==
    booking'[b].status = "confirmed" =>
        \/ Serves(sessions'[b])
        \/ Owes(q, b)
        \/ booking'[b].chosenBy = "admin" /\ AdminOwes(q, b)
        \/ /\ booking[b].status = "confirmed"
           /\ booking'[b].chosenBy = booking[b].chosenBy
           /\ sessions'[b] = sessions[b]
           /\ r \in Requests =>
                 /\ ~ Owes(req[r], b)
                 /\ AdminOwes(req[r], b) => sessions[b]["cancelled"] > 0 \/ AdminOwes(q, b)

LEMMA OwedStep ==
  ASSUME OwedInv, faults' = faults, NEW r, NEW q, r \in Requests \/ q = Idle,
         \A s \in Requests : req'[s] = IF s = r THEN q ELSE req[s],
         \A b \in BookingIds : StaysServed(b, r, q)
  PROVE  OwedInv'
  <1> SUFFICES ASSUME faults = 0, NEW b \in BookingIds, booking'[b].status = "confirmed"
               PROVE  IsServed(b)'
    BY DEF OwedInv
  <1>1. ~ Owes(Idle, b) /\ ~ AdminOwes(Idle, b)
    BY DEF Idle, Owes, AdminOwes
  <1>2. CASE Serves(sessions'[b])
    BY <1>2 DEF IsServed
  <1>3. CASE Owes(q, b)
    BY <1>1, <1>3 DEF IsServed
  <1>4. CASE booking'[b].chosenBy = "admin" /\ AdminOwes(q, b)
    BY <1>1, <1>4 DEF IsServed
  <1>5. CASE /\ booking[b].status = "confirmed"
             /\ booking'[b].chosenBy = booking[b].chosenBy
             /\ sessions'[b] = sessions[b]
             /\ r \in Requests =>
                 /\ ~ Owes(req[r], b)
                 /\ AdminOwes(req[r], b) => sessions[b]["cancelled"] > 0 \/ AdminOwes(q, b)
    <2>1. IsServed(b)
      BY <1>5 DEF OwedInv
    <2>2. CASE Serves(sessions[b]) \/ \E s \in Requests : Owes(req[s], b)
      BY <1>5, <2>2 DEF IsServed
    <2>3. CASE booking[b].chosenBy = "admin" /\ sessions[b]["cancelled"] > 0
      BY <1>5, <2>3 DEF IsServed
    <2>4. ASSUME NEW s \in Requests, AdminOwes(req[s], b), booking[b].chosenBy = "admin"
          PROVE  IsServed(b)'
      BY <1>5, <2>4 DEF IsServed
    <2> QED
      BY <2>1, <2>2, <2>3, <2>4 DEF IsServed
  <1> QED
    BY <1>2, <1>3, <1>4, <1>5 DEF StaysServed

\* A step that writes nothing, of a request that owes nothing.
LEMMA OwedNoWrite ==
  ASSUME BaseInv, OwedInv, faults' = faults, NEW r \in Requests, NEW q \in Request,
         req' = [req EXCEPT ![r] = q], UNCHANGED <<booking, sessions>>,
         \A b \in BookingIds : ~ Owes(req[r], b) /\ ~ AdminOwes(req[r], b)
  PROVE  OwedInv'
  <1>1. \A s \in Requests : req'[s] = IF s = r THEN q ELSE req[s]
    BY RequestsAfter DEF BaseInv
  <1>2. \A b \in BookingIds : StaysServed(b, r, q)
    BY DEF StaysServed
  <1> QED
    BY <1>1, <1>2, OwedStep

\* The row or the sessions of booking b are written.
LEMMA OwedWrite ==
  ASSUME BaseInv, OwedInv, faults' = faults, NEW r \in Requests, NEW q \in Request,
         req' = [req EXCEPT ![r] = q], NEW b \in BookingIds, req[r].b \in {b, None},
         NEW row, NEW count,
         booking' = [booking EXCEPT ![b] = row], sessions' = [sessions EXCEPT ![b] = count],
         \/ row.status # "confirmed"
         \/ Serves(count)
         \/ Owes(q, b)
         \/ row.chosenBy = "admin" /\ AdminOwes(q, b)
  PROVE  OwedInv'
  <1>1. \A c \in BookingIds : /\ booking'[c] = IF c = b THEN row ELSE booking[c]
                              /\ sessions'[c] = IF c = b THEN count ELSE sessions[c]
    BY DEF BaseInv, TypeOK
  <1>2. StaysServed(b, r, q)
    BY <1>1 DEF StaysServed
  <1>3. ASSUME NEW c \in BookingIds, c # b PROVE StaysServed(c, r, q)
    <2>1. ~ Owes(req[r], c) /\ ~ AdminOwes(req[r], c)
      BY <1>3, NoneIsNone DEF Owes, AdminOwes
    <2> QED
      BY <1>1, <1>3, <2>1 DEF StaysServed
  <1>4. \A s \in Requests : req'[s] = IF s = r THEN q ELSE req[s]
    BY RequestsAfter DEF BaseInv
  <1> QED
    BY <1>2, <1>3, <1>4, OwedStep

\* Counts that are not all zero.
LEMMA CountNotEmpty ==
  ASSUME NEW c \in Counts, c # NoSessions
  PROVE  Serves(c) \/ c["cancelled"] > 0
  <1> SUFFICES ASSUME ~ (Serves(c) \/ c["cancelled"] > 0) PROVE c = NoSessions
    OBVIOUS
  <1>1. \A k \in Kinds : c[k] \in Nat
    BY DEF Counts
  <1>2. \A k \in Kinds : c[k] = 0
    BY <1>1 DEF Serves, Kinds
  <1> QED
    BY <1>2 DEF Counts, NoSessions, Kinds

\* The requests that begin.
LEMMA OwedStarting ==
  ASSUME BaseInv, OwedInv, NEW r \in Requests, Starting(r)
  PROVE  OwedInv'
  <1>0. req[r] = Idle /\ req[r].b = None /\ faults' = faults
    BY IdleRequest DEF Starting, CreateBooking, CancelRead, FallbackRead, Claim, Reassign,
       AssignTutor, RemoveUnassign, AllocateReads, Starts, counters
  <1>1. \A b \in BookingIds : ~ Owes(req[r], b) /\ ~ AdminOwes(req[r], b)
    BY <1>0, NoneIsNone DEF Owes, AdminOwes
  <1>2. ASSUME NEW b \in BookingIds, CreateBooking(r, b)
        PROVE  OwedInv'
    <2> DEFINE q == [op |-> "create", b |-> b, t |-> None, pc |-> "deduct", seen |-> FALSE]
               row == [booking[b] EXCEPT !.status = "requested"]
    <2>1. q \in Request
      BY RequestRecord
    <2>2. booking[b] \in BookingRow
      BY DEF BaseInv, TypeOK
    <2>3. row.status # "confirmed"
      BY <2>2 DEF BookingRow
    <2>4. /\ req' = [req EXCEPT ![r] = q] /\ booking' = [booking EXCEPT ![b] = row]
          /\ sessions' = [sessions EXCEPT ![b] = sessions[b]]
      BY <1>2 DEF CreateBooking, Starts, BaseInv, TypeOK
    <2> HIDE DEF q, row
    <2> QED
      BY <1>0, <2>1, <2>3, <2>4, OwedWrite
  <1>3. ASSUME NEW b \in BookingIds \union {None}, NEW t \in Tutors \union {None},
               NEW o \in {"cancel", "fallback", "claim", "allocate"},
               NEW p \in {"cancel", "mark", "lockTutor", "look"}, NEW s \in BOOLEAN,
               req' = [req EXCEPT ![r] = [op |-> o, b |-> b, t |-> t, pc |-> p,
                                          seen |-> s]],
               UNCHANGED <<booking, sessions>>
        PROVE  OwedInv'
    <2> DEFINE q == [op |-> o, b |-> b, t |-> t, pc |-> p, seen |-> s]
    <2>1. q \in Request
      BY ZenonT(60), RequestRecord
    <2> HIDE DEF q
    <2>2. req' = [req EXCEPT ![r] = q]
      BY <1>3 DEF q
    <2> QED
      BY <1>0, <1>1, <1>3, <2>1, <2>2, OwedNoWrite
  <1>4. ASSUME NEW b \in BookingIds, CancelRead(r, b)
        PROVE  OwedInv'
    <2>1. HasSessions(b) \in BOOLEAN
      BY DEF HasSessions
    <2>2. /\ req' = [req EXCEPT ![r] = [op |-> "cancel", b |-> b, t |-> None,
                                        pc |-> "cancel", seen |-> HasSessions(b)]]
          /\ UNCHANGED <<booking, sessions>>
      BY <1>4 DEF CancelRead
    <2> QED
      BY <1>3, <2>1, <2>2
  <1>5. ASSUME NEW b \in BookingIds, FallbackRead(r, b)
        PROVE  OwedInv'
    BY <1>3, <1>5 DEF FallbackRead, Starts
  <1>6. ASSUME NEW b \in BookingIds, NEW t \in Tutors, Claim(r, b, t)
        PROVE  OwedInv'
    BY <1>3, <1>6 DEF Claim, Starts
  <1>7. ASSUME NEW t \in Tutors, AllocateReads(r, t)
        PROVE  OwedInv'
    BY <1>3, <1>7 DEF AllocateReads, Starts
  <1>8. ASSUME NEW b \in BookingIds, NEW t \in Tutors, NEW o \in {"reassign", "allocate"},
               NEW who \in {"reassign", "admin"}, o = "allocate" => who = "admin",
               Starts(r, o, b, t, "find"),
               booking' = [booking EXCEPT ![b] = Chosen(booking[b], t, who)],
               UNCHANGED sessions
        PROVE  OwedInv'
    <2> DEFINE q == [op |-> o, b |-> b, t |-> t, pc |-> "find", seen |-> FALSE]
               row == Chosen(booking[b], t, who)
    <2>1. q \in Request
      BY RequestRecord
    <2>2. booking[b] \in BookingRow
      BY DEF BaseInv, TypeOK
    <2>3. row.chosenBy = who
      BY <2>2, RowFields
    <2>4. Owes(q, b) \/ (row.chosenBy = "admin" /\ AdminOwes(q, b))
      BY <1>8, <2>3 DEF Owes, AdminOwes
    <2>5. /\ req' = [req EXCEPT ![r] = q] /\ booking' = [booking EXCEPT ![b] = row]
          /\ sessions' = [sessions EXCEPT ![b] = sessions[b]]
      BY <1>8 DEF Starts, BaseInv, TypeOK
    <2> HIDE DEF q, row
    <2> QED
      BY <1>0, <2>1, <2>4, <2>5, OwedWrite
  <1>9. ASSUME NEW b \in BookingIds, NEW t \in Tutors, Reassign(r, b, t)
        PROVE  OwedInv'
    BY <1>8, <1>9 DEF Reassign
  <1>10. ASSUME NEW b \in BookingIds, NEW t \in Tutors, AssignTutor(r, b, t)
         PROVE  OwedInv'
    BY <1>8, <1>10 DEF AssignTutor
  <1>11. ASSUME NEW t \in Tutors, RemoveUnassign(r, t)
         PROVE  OwedInv'
    <2>1. PICK q \in Request : req' = [req EXCEPT ![r] = q]
      <3>1. [op |-> "remove", b |-> None, t |-> t, pc |-> "deactivate", seen |-> FALSE]
               \in Request
        BY RequestRecord
      <3> QED
        BY <1>11, <3>1 DEF RemoveUnassign, Starts
    <2>2. \A s \in Requests : req'[s] = IF s = r THEN q ELSE req[s]
      BY <2>1, RequestsAfter DEF BaseInv
    <2>3. ASSUME NEW b \in BookingIds PROVE StaysServed(b, r, q)
      <3>1. booking'[b] = IF booking[b].tutor = t THEN Unassigned(booking[b])
                          ELSE booking[b]
        BY <1>11 DEF RemoveUnassign, Theirs
      <3>2. Unassigned(booking[b]).status # "confirmed"
        BY RowUnassigned DEF BaseInv, TypeOK
      <3>3. sessions' = sessions
        BY <1>11 DEF RemoveUnassign
      <3> QED
        BY <1>1, <3>1, <3>2, <3>3 DEF StaysServed
    <2> QED
      BY <1>0, <2>2, <2>3, OwedStep
  <1> QED
    BY <1>2, <1>4, <1>5, <1>6, <1>7, <1>9, <1>10, <1>11 DEF Starting

LEMMA OwesAt ==
  ASSUME NEW q, NEW b, Owes(q, b) \/ AdminOwes(q, b)
  PROVE  q.pc \in {"session", "find", "save"}
  BY DEF Owes, AdminOwes

\* A request that owes nothing goes on, ends or rolls back.
LEMMA OwedGoesOn ==
  ASSUME BaseInv, OwedInv, faults' = faults, NEW r \in Requests, NEW q \in Request,
         req' = [req EXCEPT ![r] = q], UNCHANGED <<booking, sessions>>,
         req[r].pc \notin {"session", "find", "save"}
  PROVE  OwedInv'
  BY OwesAt, OwedNoWrite

LEMMA OwedGoesTo ==
  ASSUME BaseInv, OwedInv, faults' = faults, NEW r \in Requests,
         NEW p \in {"check", "commit", "session", "find", "save"}, GoesTo(r, p),
         UNCHANGED <<booking, sessions>>, req[r].pc \notin {"session", "find", "save"}
  PROVE  OwedInv'
  <1> DEFINE q == [req[r] EXCEPT !.pc = p]
  <1>1. q \in Request
    BY Underway DEF Request
  <1>2. req' = [req EXCEPT ![r] = q]
    BY DEF GoesTo, BaseInv, TypeOK
  <1> HIDE DEF q
  <1> QED
    BY <1>1, <1>2, OwedGoesOn

LEMMA OwedEnds ==
  ASSUME BaseInv, OwedInv, faults' = faults, NEW r \in Requests, Ends(r),
         UNCHANGED <<booking, sessions>>, req[r].pc \notin {"session", "find", "save"}
  PROVE  OwedInv'
  BY IdleRequest, OwedGoesOn DEF Ends

LEMMA OwedRollsBack ==
  ASSUME BaseInv, OwedInv, faults' = faults, NEW r \in Requests, RollsBack(r),
         req[r].pc \notin {"session", "find", "save"}
  PROVE  OwedInv'
  BY OwedEnds DEF RollsBack

\* A request that ends having written the row or the sessions of its booking.
LEMMA OwedEndsWith ==
  ASSUME BaseInv, OwedInv, faults' = faults, NEW r \in Requests, Ends(r),
         req[r].b \in BookingIds,
         NEW row, NEW count,
         booking' = [booking EXCEPT ![req[r].b] = row],
         sessions' = [sessions EXCEPT ![req[r].b] = count],
         row.status # "confirmed" \/ Serves(count)
  PROVE  OwedInv'
  <1>1. req' = [req EXCEPT ![r] = Idle] /\ Idle \in Request
    BY IdleRequest DEF Ends
  <1> QED
    BY <1>1, OwedWrite

\* One that has made a session that can be joined.
LEMMA OwedMade ==
  ASSUME BaseInv, OwedInv, faults' = faults, NEW r \in Requests, Ends(r),
         req[r].b \in BookingIds, UNCHANGED booking,
         NEW count, sessions' = [sessions EXCEPT ![req[r].b] = count],
         Serves(count)
  PROVE  OwedInv'
  <1>1. booking' = [booking EXCEPT ![req[r].b] = booking[req[r].b]]
    BY DEF BaseInv, TypeOK
  <1> QED
    BY <1>1, OwedEndsWith

LEMMA ScheduledServes ==
  ASSUME NEW c \in Counts
  PROVE  Serves(Scheduled(c))
  <1>1. c["scheduled"] \in Nat
    BY CountTotal DEF Kinds
  <1> QED
    BY <1>1, CountScheduled DEF Serves

LEMMA OwedCreating ==
  ASSUME BaseInv, OwedInv, NEW r \in Requests, Creating(r)
  PROVE  OwedInv'
  <1> DEFINE b == req[r].b
  <1>0. req[r] \in Request /\ IsAbout(req[r])
    BY Underway
  <1>1. faults' = faults /\ req[r].op = "create" /\ b \in BookingIds
    <2>1. faults' = faults /\ req[r].op = "create"
      BY DEF Creating, DeductFails, PickTutor, PickNobody, AssignLockTutor, AssignRefused,
         AssignChecked, AssignCommit, CreateSession, At, counters
    <2> QED
      BY <1>0, <2>1 DEF IsAbout
  <1>2. CASE DeductFails(r)
    <2> DEFINE row == [NoBooking EXCEPT !.status = "deleted"]
    <2>1. row.status # "confirmed"
      BY DEF NoBooking
    <2>2. /\ Ends(r) /\ booking' = [booking EXCEPT ![b] = row]
          /\ sessions' = [sessions EXCEPT ![b] = NoSessions]
      BY <1>2 DEF DeductFails
    <2> HIDE DEF row
    <2> QED
      BY <1>1, <2>1, <2>2, OwedEndsWith
  <1>3. ASSUME NEW t \in Tutors, PickTutor(r, t)
        PROVE  OwedInv'
    <2> DEFINE q == [req[r] EXCEPT !.t = t, !.pc = "lockTutor"]
    <2>1. q \in Request
      BY <1>0 DEF Request
    <2>2. /\ req' = [req EXCEPT ![r] = q] /\ UNCHANGED <<booking, sessions>>
          /\ req[r].pc = "deduct"
      BY <1>3 DEF PickTutor, At, BaseInv, TypeOK
    <2> HIDE DEF q
    <2> QED
      BY <1>1, <2>1, <2>2, OwedGoesOn
  <1>4. CASE PickNobody(r)
    BY <1>1, <1>4, OwedEnds DEF PickNobody, At
  <1>5. CASE AssignLockTutor(r)
    BY <1>1, <1>5, OwedGoesTo DEF AssignLockTutor, At
  <1>6. CASE AssignRefused(r)
    BY <1>1, <1>6, OwedRollsBack DEF AssignRefused, At
  <1>7. CASE AssignChecked(r)
    BY <1>1, <1>7, OwedGoesTo DEF AssignChecked, At
  <1>8. CASE AssignCommit(r)
    <2> DEFINE q == [req[r] EXCEPT !.pc = "session"]
               row == Assigned(booking[b], req[r].t)
    <2>1. q \in Request /\ Owes(q, b)
      BY <1>0, <1>1 DEF Request, Owes
    <2>2. /\ req' = [req EXCEPT ![r] = q] /\ booking' = [booking EXCEPT ![b] = row]
          /\ sessions' = [sessions EXCEPT ![b] = sessions[b]]
      BY <1>8 DEF AssignCommit, GoesTo, BaseInv, TypeOK
    <2> HIDE DEF q, row
    <2> QED
      BY <1>1, <2>1, <2>2, OwedWrite
  <1>9. CASE CreateSession(r)
    <2>1. /\ Ends(r) /\ UNCHANGED booking
          /\ sessions' = [sessions EXCEPT ![b] = Scheduled(sessions[b])]
      BY <1>9 DEF CreateSession
    <2>2. Serves(Scheduled(sessions[b]))
      BY <1>1, Underway, ScheduledServes
    <2> QED
      BY <1>1, <2>1, <2>2, OwedMade
  <1> QED
    BY <1>2, <1>3, <1>4, <1>5, <1>6, <1>7, <1>8, <1>9 DEF Creating

LEMMA OwedClaiming ==
  ASSUME BaseInv, OwedInv, NEW r \in Requests, Claiming(r)
  PROVE  OwedInv'
  <1> DEFINE b == req[r].b
  <1>1. faults' = faults /\ req[r].op = "claim" /\ b \in BookingIds
    <2>1. faults' = faults /\ req[r].op = "claim"
      BY DEF Claiming, ClaimLockTutor, ClaimOverlaps, ClaimChecked, ClaimCommit, At, counters
    <2> QED
      BY <2>1, Underway DEF IsAbout
  <1>2. CASE ClaimLockTutor(r)
    BY <1>1, <1>2, OwedGoesTo DEF ClaimLockTutor, At
  <1>3. CASE ClaimOverlaps(r)
    BY <1>1, <1>3, OwedRollsBack DEF ClaimOverlaps, At
  <1>4. CASE ClaimChecked(r)
    BY <1>1, <1>4, OwedGoesTo DEF ClaimChecked, At
  <1>5. CASE ClaimCommit(r)
    <2> DEFINE row == Assigned(booking[b], req[r].t)
    <2>1. /\ Ends(r) /\ booking' = [booking EXCEPT ![b] = row]
          /\ sessions' = [sessions EXCEPT ![b] = Scheduled(sessions[b])]
      BY <1>5 DEF ClaimCommit
    <2>2. Serves(Scheduled(sessions[b]))
      BY <1>1, Underway, ScheduledServes
    <2> HIDE DEF row
    <2> QED
      BY <1>1, <2>1, <2>2, OwedEndsWith
  <1> QED
    BY <1>2, <1>3, <1>4, <1>5 DEF Claiming

\* The row was deleted: a booking that is not there needs no session.
LEMMA OwedGone ==
  ASSUME BaseInv, OwedInv, faults' = faults, NEW r \in Requests, Ends(r),
         req[r].b \in BookingIds, ~ Exists(req[r].b), UNCHANGED <<booking, sessions>>
  PROVE  OwedInv'
  <1>1. /\ booking' = [booking EXCEPT ![req[r].b] = booking[req[r].b]]
        /\ sessions' = [sessions EXCEPT ![req[r].b] = sessions[req[r].b]]
        /\ booking[req[r].b].status # "confirmed"
    BY DEF BaseInv, TypeOK, Exists
  <1> QED
    BY <1>1, OwedEndsWith

LEMMA OwedReassigning ==
  ASSUME BaseInv, OwedInv, NEW r \in Requests, Reassigning(r)
  PROVE  OwedInv'
  <1> DEFINE b == req[r].b
  <1>1. /\ faults' = faults /\ req[r].op = "reassign" /\ b \in BookingIds
        /\ sessions[b] \in Counts
    <2>1. faults' = faults /\ req[r].op = "reassign"
      BY DEF Reassigning, ReassignFind, ReassignUpdate, ReassignCreate, ReassignFails, At,
         counters
    <2> QED
      BY <2>1, Underway DEF IsAbout
  <1>2. CASE ReassignFind(r)
    <2> DEFINE q == [req[r] EXCEPT !.pc = "save", !.seen = HasSessions(b)]
    <2>1. q \in Request /\ Owes(q, b)
      BY <1>1, Underway DEF Request, HasSessions, Owes
    <2>2. /\ req' = [req EXCEPT ![r] = q]
          /\ booking' = [booking EXCEPT ![b] = booking[b]]
          /\ sessions' = [sessions EXCEPT ![b] = sessions[b]]
      BY <1>2 DEF ReassignFind, BaseInv, TypeOK
    <2> HIDE DEF q
    <2> QED
      BY <1>1, <2>1, <2>2, OwedWrite
  <1>3. CASE ReassignUpdate(r)
    <2>1. PICK s \in Kinds : /\ sessions[b][s] > 0
                             /\ sessions' = [sessions EXCEPT
                                                ![b] = Rescheduled(sessions[b], s)]
      BY <1>1, <1>3 DEF ReassignUpdate, Kinds
    <2>2. Serves(Rescheduled(sessions[b], s))
      BY <1>1, <2>1, CountRescheduled DEF Serves
    <2>3. Ends(r) /\ UNCHANGED booking
      BY <1>3 DEF ReassignUpdate
    <2> QED
      BY <1>1, <2>1, <2>2, <2>3, OwedMade
  <1>4. CASE ReassignCreate(r)
    <2>1. /\ Ends(r) /\ UNCHANGED booking
          /\ sessions' = [sessions EXCEPT ![b] = Scheduled(sessions[b])]
      BY <1>4 DEF ReassignCreate
    <2> QED
      BY <1>1, <2>1, ScheduledServes, OwedMade
  <1>5. CASE ReassignFails(r)
    BY <1>1, <1>5, OwedGone DEF ReassignFails
  <1> QED
    BY <1>2, <1>3, <1>4, <1>5 DEF Reassigning

\* The admin's allocation: the only one that may leave a confirmed booking with
\* cancelled sessions alone.
LEMMA OwedAllocating ==
  ASSUME BaseInv, OwedInv, NEW r \in Requests, Allocating(r)
  PROVE  OwedInv'
  <1>0. req[r] \in Request /\ IsAbout(req[r])
    BY Underway
  <1>1. faults' = faults /\ req[r].op = "allocate"
    BY DEF Allocating, AllocateLooks, AllocateCreates, AllocateAssigns, AllocateFinds,
       AllocateMakes, AllocateFails, At, counters
  <1>2. ASSUME NEW b \in BookingIds, AllocateLooks(r, b)
        PROVE  OwedInv'
    <2> DEFINE q == [req[r] EXCEPT !.b = b, !.pc = "assign"]
    <2>1. q \in Request
      BY <1>0 DEF Request
    <2>2. /\ req' = [req EXCEPT ![r] = q] /\ UNCHANGED <<booking, sessions>>
          /\ req[r].pc = "look"
      BY <1>2 DEF AllocateLooks, At, BaseInv, TypeOK
    <2> HIDE DEF q
    <2> QED
      BY <1>1, <2>1, <2>2, OwedGoesOn
  <1>3. ASSUME NEW b \in BookingIds, AllocateCreates(r, b)
        PROVE  OwedInv'
    <2> DEFINE q == [req[r] EXCEPT !.b = b, !.pc = "save"]
               row == Chosen(booking[b], req[r].t, "admin")
    <2>1. req[r].t \in Tutors /\ req[r].b = None /\ booking[b] \in BookingRow
      BY <1>0, <1>1, <1>3 DEF AllocateCreates, At, IsAbout, BaseInv, TypeOK
    <2>2. q \in Request /\ AdminOwes(q, b)
      BY <1>0, <1>1 DEF Request, AdminOwes
    <2>3. row.chosenBy = "admin"
      BY <2>1, RowFields
    <2>4. /\ req' = [req EXCEPT ![r] = q] /\ booking' = [booking EXCEPT ![b] = row]
          /\ sessions' = [sessions EXCEPT ![b] = sessions[b]]
      BY <1>3 DEF AllocateCreates, BaseInv, TypeOK
    <2> HIDE DEF q, row
    <2> QED
      BY <1>1, <2>1, <2>2, <2>3, <2>4, OwedWrite
  <1>4. CASE AllocateAssigns(r)
    <2> DEFINE b == req[r].b
               q == [req[r] EXCEPT !.pc = "find"]
               row == Chosen(booking[b], req[r].t, "admin")
    <2>1. req[r].t \in Tutors /\ b \in BookingIds
      BY <1>0, <1>1, <1>4 DEF AllocateAssigns, At, IsAbout
    <2>2. q \in Request /\ AdminOwes(q, b)
      BY <1>0, <1>1 DEF Request, AdminOwes
    <2>3. row.chosenBy = "admin"
      BY <2>1, Underway, RowFields
    <2>4. /\ req' = [req EXCEPT ![r] = q] /\ booking' = [booking EXCEPT ![b] = row]
          /\ sessions' = [sessions EXCEPT ![b] = sessions[b]]
      BY <1>4 DEF AllocateAssigns, GoesTo, BaseInv, TypeOK
    <2> HIDE DEF q, row
    <2> QED
      BY <1>1, <2>1, <2>2, <2>3, <2>4, OwedWrite
  <1>5. CASE AllocateFinds(r)
    <2> DEFINE b == req[r].b
    <2>1. b \in BookingIds /\ UNCHANGED <<booking, sessions>>
      BY <1>0, <1>1, <1>5 DEF AllocateFinds, At, IsAbout
    <2>2. ~ Owes(req[r], b) /\ \A c \in BookingIds :
             c # b => ~ Owes(req[r], c) /\ ~ AdminOwes(req[r], c)
      BY <1>1 DEF Owes, AdminOwes
    <2>3. PICK q \in Request :
             /\ req' = [req EXCEPT ![r] = q]
             /\ HasSessions(b) \/ AdminOwes(q, b)
      <3>1. CASE HasSessions(b)
        BY <1>5, <3>1, IdleRequest DEF AllocateFinds, Ends
      <3>2. CASE ~ HasSessions(b)
        <4> DEFINE q == [req[r] EXCEPT !.pc = "save"]
        <4>1. q \in Request /\ AdminOwes(q, b)
          BY <1>0, <1>1 DEF Request, AdminOwes
        <4>2. req' = [req EXCEPT ![r] = q]
          BY <1>5, <3>2 DEF AllocateFinds, GoesTo, BaseInv, TypeOK
        <4> QED
          BY <4>1, <4>2
      <3> QED
        BY <3>1, <3>2
    <2>4. HasSessions(b) => Serves(sessions[b]) \/ sessions[b]["cancelled"] > 0
      BY <2>1, Underway, CountNotEmpty DEF HasSessions
    <2>5. StaysServed(b, r, q)
      BY <2>1, <2>2, <2>3, <2>4 DEF StaysServed
    <2>6. ASSUME NEW c \in BookingIds, c # b PROVE StaysServed(c, r, q)
      BY <2>1, <2>2, <2>6 DEF StaysServed
    <2>7. \A s \in Requests : req'[s] = IF s = r THEN q ELSE req[s]
      BY <2>3, RequestsAfter DEF BaseInv
    <2> QED
      BY <1>1, <2>5, <2>6, <2>7, OwedStep
  <1>6. CASE AllocateMakes(r)
    <2> DEFINE b == req[r].b
    <2>1. b \in BookingIds /\ sessions[b] \in Counts
      BY <1>0, <1>1, <1>6, Underway DEF AllocateMakes, At, IsAbout
    <2>2. /\ Ends(r) /\ UNCHANGED booking
          /\ sessions' = [sessions EXCEPT ![b] = Scheduled(sessions[b])]
      BY <1>6 DEF AllocateMakes
    <2> QED
      BY <1>1, <2>1, <2>2, ScheduledServes, OwedMade
  <1>7. CASE AllocateFails(r)
    <2>1. req[r].b \in BookingIds
      BY <1>0, <1>1, <1>7 DEF AllocateFails, IsAbout
    <2> QED
      BY <1>1, <1>7, <2>1, OwedGone DEF AllocateFails
  <1> QED
    BY <1>2, <1>3, <1>4, <1>5, <1>6, <1>7 DEF Allocating

LEMMA OwedFinishing ==
  ASSUME BaseInv, OwedInv, NEW r \in Requests,
         CancelCommit(r) \/ RemoveDeactivate(r) \/ FallbackMark(r) \/ DeadlockVictim(r)
  PROVE  OwedInv'
  <1> DEFINE b == req[r].b
  <1>0. req[r] \in Request /\ IsAbout(req[r]) /\ faults' = faults
    BY Underway DEF CancelCommit, RemoveDeactivate, FallbackMark, DeadlockVictim, counters
  <1>1. CASE CancelCommit(r)
    <2>1. b \in BookingIds /\ Ends(r)
      BY <1>0, <1>1 DEF CancelCommit, At, IsAbout
    <2>2. CASE Exists(b)
      <3> DEFINE row == [booking[b] EXCEPT !.status = "cancelled"]
                 count == IF req[r].seen THEN AllCancelled(sessions[b]) ELSE sessions[b]
      <3>1. booking[b] \in BookingRow
        BY <2>1, Underway
      <3>2. row.status # "confirmed"
        BY <3>1 DEF BookingRow
      <3>3. /\ booking' = [booking EXCEPT ![b] = row]
            /\ sessions' = [sessions EXCEPT ![b] = count]
        BY <1>1, <2>2 DEF CancelCommit
      <3> HIDE DEF row, count
      <3> QED
        BY <1>0, <2>1, <3>2, <3>3, OwedEndsWith
    <2>3. CASE ~ Exists(b)
      BY <1>0, <1>1, <2>1, <2>3, OwedGone DEF CancelCommit
    <2> QED
      BY <2>2, <2>3
  <1>2. CASE RemoveDeactivate(r)
    BY <1>0, <1>2, OwedEnds DEF RemoveDeactivate, At
  <1>3. CASE FallbackMark(r)
    <2> DEFINE row == [booking[b] EXCEPT !.fallback = Exists(b)]
    <2>1. b \in BookingIds /\ req[r].op = "fallback"
      BY <1>0, <1>3 DEF FallbackMark, At, IsAbout
    <2>2. booking[b] \in BookingRow
      BY <2>1, Underway
    <2>3. row.status = booking[b].status /\ row.chosenBy = booking[b].chosenBy
      BY <2>2 DEF BookingRow
    <2>4. /\ booking' = [booking EXCEPT ![b] = row] /\ sessions' = sessions
          /\ req' = [req EXCEPT ![r] = Idle]
      BY <1>3 DEF FallbackMark, Ends
    <2> HIDE DEF row
    <2>5. \A c \in BookingIds : booking'[c] = IF c = b THEN row ELSE booking[c]
      BY <2>4 DEF BaseInv, TypeOK
    <2>6. \A c \in BookingIds : ~ Owes(req[r], c) /\ ~ AdminOwes(req[r], c)
      BY <2>1 DEF Owes, AdminOwes
    <2>7. \A c \in BookingIds : StaysServed(c, r, Idle)
      BY <2>3, <2>4, <2>5, <2>6 DEF StaysServed
    <2>8. \A s \in Requests : req'[s] = IF s = r THEN Idle ELSE req[s]
      BY <2>4, IdleRequest, RequestsAfter DEF BaseInv
    <2> QED
      BY <1>0, <2>7, <2>8, OwedStep
  <1>4. CASE DeadlockVictim(r)
    <2>1. req[r].pc \in {"lockTutor", "commit"}
      BY <1>4 DEF DeadlockVictim, WaitsFor, At
    <2> QED
      BY <1>0, <1>4, <2>1, OwedRollsBack DEF DeadlockVictim
  <1> QED
    BY <1>1, <1>2, <1>3, <1>4

LEMMA OwedAlone ==
  ASSUME OwedInv, UNCHANGED <<faults, req>>,
         \A b \in BookingIds : StaysServed(b, None, Idle)
  PROVE  OwedInv'
  <1>1. \A s \in Requests : req'[s] = IF s = None THEN Idle ELSE req[s]
    BY NoneIsNone
  <1> QED
    BY <1>1, OwedStep

LEMMA OwedJobs ==
  ASSUME BaseInv, OwedInv, Jobs
  PROVE  OwedInv'
  <1>1. PICK which \in SUBSET BookingIds, status \in {"expired", "archived"} :
           UpdateMany(which, status)
    BY DEF Jobs, ExpireUnassigned, QueueExpires, ArchiveAssigned
  <1>2. UNCHANGED <<sessions, req, faults>>
    BY DEF Jobs, ExpireUnassigned, QueueExpires, ArchiveAssigned, counters
  <1>3. ASSUME NEW b \in BookingIds PROVE StaysServed(b, None, Idle)
    <2>1. CASE b \in which
      <3>1. booking'[b].status # "confirmed"
        BY <1>1, <2>1, UpdatedRows
      <3> QED
        BY <3>1 DEF StaysServed
    <2>2. CASE b \notin which
      <3>1. booking'[b] = booking[b]
        BY <1>1, <2>2, UpdatedRows
      <3> QED
        BY <1>2, <3>1, NoneIsNone DEF StaysServed
    <2> QED
      BY <2>1, <2>2
  <1> QED
    BY <1>2, <1>3, OwedAlone

LEMMA OwedJoins ==
  ASSUME BaseInv, OwedInv, NEW b \in BookingIds, TutorJoins(b)
  PROVE  OwedInv'
  <1>1. UNCHANGED <<booking, req, faults>>
    BY DEF TutorJoins, counters
  <1>2. /\ Serves(sessions'[b])
        /\ \A c \in BookingIds : c # b => sessions'[c] = sessions[c]
    BY CountJoined DEF Serves
  <1>3. \A c \in BookingIds : StaysServed(c, None, Idle)
    BY <1>1, <1>2, NoneIsNone DEF StaysServed
  <1> QED
    BY <1>1, <1>3, OwedAlone

LEMMA OwedNext == BaseInv /\ OwedInv /\ [Next]_vars => OwedInv'
  <1> SUFFICES ASSUME BaseInv, OwedInv, [Next]_vars PROVE OwedInv'
    OBVIOUS
  <1>1. ASSUME NEW r \in Requests, Continuing(r)
        PROVE  OwedInv'
    BY <1>1, OwedCreating, OwedClaiming, OwedReassigning, OwedAllocating, OwedFinishing
    DEF Continuing
  <1>2. ASSUME NEW r \in Requests, RequestFails(r)
        PROVE  OwedInv'
    <2>1. faults' # 0
      BY <1>2, SameLocks, Bounds DEF RequestFails
    <2> QED
      BY <2>1 DEF OwedInv
  <1>3. CASE UNCHANGED <<booking, sessions, faults, req>>
    BY <1>3 DEF OwedInv, IsServed
  <1>4. CASE Tick \/ UNCHANGED vars
    BY <1>3, <1>4 DEF Tick, vars, counters
  <1> QED
    BY <1>1, <1>2, <1>4, OwedStarting, OwedJobs, OwedJoins DEF Next

LEMMA OwedIsServed == BaseInv /\ OwedInv => ConfirmedHasSession
  <1> SUFFICES ASSUME BaseInv, OwedInv, NEW b \in BookingIds,
                      booking[b].status = "confirmed", ~ WorkedOn(b), faults = 0
               PROVE  \/ sessions[b]["scheduled"] + sessions[b]["in_progress"] > 0
                      \/ Revived(b)
    BY DEF ConfirmedHasSession
  <1>1. IsServed(b)
    BY DEF OwedInv
  <1>2. \A r \in Requests : ~ Owes(req[r], b) /\ ~ AdminOwes(req[r], b)
    BY DEF WorkedOn, Owes, AdminOwes
  <1>3. sessions[b]["scheduled"] \in Nat /\ sessions[b]["in_progress"] \in Nat
    BY SessionCounts, CountTotal DEF BaseInv, Kinds
  <1>4. Serves(sessions[b]) => sessions[b]["scheduled"] + sessions[b]["in_progress"] > 0
    BY <1>3 DEF Serves
  <1> QED
    BY <1>1, <1>2, <1>4 DEF IsServed, Revived

\* A booking that stands confirmed has a session to be held in once nobody works
\* on it, unless an admin assigned a cancelled one: whatever else happened between
\* the assignment and the session, in whatever order.
THEOREM ConfirmedServed == Spec => []ConfirmedHasSession
  <1>1. Init => OwedInv
    BY DEF Init, OwedInv, NoBooking
  <1> QED
    BY <1>1, BaseInit, BaseNext, OwedNext, OwedIsServed, PTL DEF Spec

-----------------------------------------------------------------------------
(* Bookings implements Assignments *)

\* The row that is left of a booking that could not be paid.
Gone == [NoBooking EXCEPT !.status = "deleted"]

\* What a request may rely on: the booking it creates is there, and the one it
\* claims is locked and still free to be claimed.
Placed(r) ==
    /\ req[r].op = "create" => Exists(req[r].b)
    /\ req[r].op = "claim" =>
          bookingLock[req[r].b] = r /\ Exists(req[r].b) /\ ~ Claimed(req[r].b)

Creates(q, b) == q.op = "create" /\ q.b = b

\* A booking is created once, and what was deleted is gone.
BoardInv ==
    /\ \A r \in Requests : Placed(r)
    /\ \A b \in BookingIds, r, s \in Requests :
          Creates(req[r], b) /\ Creates(req[s], b) => r = s
    /\ \A b \in BookingIds : ~ Exists(b) => booking[b] \in {NoBooking, Gone}

LEMMA AbsentRows ==
  /\ NoBooking.status = "absent" /\ NoBooking.tutor = None /\ NoBooking.fallback = FALSE
  /\ Gone.status = "deleted" /\ Gone.tutor = None /\ Gone.fallback = FALSE
  BY DEF NoBooking, Gone

\* What a step must keep: the rows that others have locked, the bookings that
\* others create, and what its own request relies on.
LEMMA BoardStep ==
  ASSUME BaseInv, BoardInv, NEW r, NEW q,
         \A s \in Requests : req'[s] = IF s = r THEN q ELSE req[s],
         \A b \in BookingIds : Exists(b) /\ bookingLock[b] \notin {None, r} =>
            booking'[b] = booking[b] /\ bookingLock'[b] = bookingLock[b],
         \A b \in BookingIds : Exists(b) =>
            Exists(b)' \/ (r \in Requests /\ Creates(req[r], b)),
         \A b \in BookingIds : ~ Exists(b)' => booking'[b] \in {NoBooking, Gone},
         \A b \in BookingIds : Creates(q, b) =>
            Exists(b)' /\ \A s \in Requests \ {r} : ~ Creates(req[s], b),
         \A b \in BookingIds : q.op = "claim" /\ q.b = b =>
            bookingLock'[b] = r /\ Exists(b)' /\ ~ Claimed(b)',
         q.op \in {"create", "claim"} => q.b \in BookingIds
  PROVE  BoardInv'
  <1>1. ASSUME NEW s \in Requests PROVE Placed(s)'
    <2>1. CASE s = r
      BY <2>1 DEF Placed, Creates
    <2>2. CASE s # r
      <3>1. req'[s] = req[s] /\ Placed(s)
        BY <2>2 DEF BoardInv
      <3>2. CASE req[s].op = "create"
        <4>1. req[s].b \in BookingIds /\ Exists(req[s].b)
          BY <3>1, <3>2, Underway DEF IsAbout, Placed
        <4>2. ~ (r \in Requests /\ Creates(req[r], req[s].b))
          BY <2>2, <3>2, <4>1 DEF BoardInv, Creates
        <4> QED
          BY <3>1, <3>2, <4>1, <4>2 DEF Placed
      <3>3. CASE req[s].op = "claim"
        <4>1. /\ req[s].b \in BookingIds /\ Exists(req[s].b)
              /\ bookingLock[req[s].b] = s
          BY <3>1, <3>3, Underway DEF IsAbout, Placed
        <4>2. /\ booking'[req[s].b] = booking[req[s].b]
              /\ bookingLock'[req[s].b] = bookingLock[req[s].b]
          BY <2>2, <4>1, NoneIsNone
        <4> QED
          BY <3>1, <3>3, <4>1, <4>2 DEF Placed, Exists, Claimed
      <3> QED
        BY <3>1, <3>2, <3>3 DEF Placed
    <2> QED
      BY <2>1, <2>2
  <1>2. ASSUME NEW b \in BookingIds, NEW s \in Requests, NEW u \in Requests,
               Creates(req'[s], b), Creates(req'[u], b)
        PROVE  s = u
    BY <1>2 DEF BoardInv
  <1> QED
    BY <1>1, <1>2 DEF BoardInv

LEMMA IdleCreates == \A b \in BookingIds : ~ Creates(Idle, b)
  BY IdleRequest, NoneIsNone DEF Creates

\* A step that leaves the rows alone.
LEMMA BoardNoWrite ==
  ASSUME BaseInv, BoardInv, NEW r \in Requests, NEW q \in Request,
         req' = [req EXCEPT ![r] = q], UNCHANGED booking,
         \/ q.op \notin {"create", "claim"} /\ (bookingLock' = bookingLock \/ Unlocks(r))
         \/ q.op = req[r].op /\ q.b = req[r].b /\ bookingLock' = bookingLock
  PROVE  BoardInv'
  <1>1. \A s \in Requests : req'[s] = IF s = r THEN q ELSE req[s]
    BY RequestsAfter DEF BaseInv
  <1>2. \A b \in BookingIds :
           /\ bookingLock[b] \notin {None, r} => bookingLock'[b] = bookingLock[b]
           /\ booking'[b] = booking[b] /\ Exists(b)' = Exists(b)
           /\ Claimed(b)' = Claimed(b)
    BY Unlocked DEF BaseInv, Exists, Claimed
  <1>3. \A b \in BookingIds : Creates(q, b) =>
           Exists(b)' /\ \A s \in Requests \ {r} : ~ Creates(req[s], b)
    BY <1>2 DEF BoardInv, Placed, Creates
  <1>4. \A b \in BookingIds : q.op = "claim" /\ q.b = b =>
           bookingLock'[b] = r /\ Exists(b)' /\ ~ Claimed(b)'
    BY <1>2 DEF BoardInv, Placed
  <1>5. \A b \in BookingIds : ~ Exists(b)' => booking'[b] \in {NoBooking, Gone}
    BY <1>2 DEF BoardInv
  <1>6. q.op \in {"create", "claim"} => q.b \in BookingIds
    BY Underway DEF IsAbout
  <1> QED
    BY <1>1, <1>2, <1>3, <1>4, <1>5, <1>6, BoardStep

\* A step that writes the row of booking b, which nobody else has locked.
LEMMA BoardWrite ==
  ASSUME BaseInv, BoardInv, NEW r \in Requests, NEW q \in Request,
         req' = [req EXCEPT ![r] = q],
         NEW b \in BookingIds, NEW row, row.status \notin {"absent", "deleted"},
         booking' = [booking EXCEPT ![b] = row],
         bookingLock[b] \in {None, r} \/ ~ Exists(b),
         bookingLock' = bookingLock \/ Unlocks(r),
         \/ q.op \notin {"create", "claim"}
         \/ q.op = "create" /\ req[r].op = "create" /\ q.b = b /\ req[r].b = b
  PROVE  BoardInv'
  <1>1. \A s \in Requests : req'[s] = IF s = r THEN q ELSE req[s]
    BY RequestsAfter DEF BaseInv
  <1>2. \A c \in BookingIds : booking'[c] = IF c = b THEN row ELSE booking[c]
    BY DEF BaseInv, TypeOK
  <1>3. \A c \in BookingIds :
           /\ bookingLock[c] \notin {None, r} => bookingLock'[c] = bookingLock[c]
           /\ Exists(c) => Exists(c)'
           /\ ~ Exists(c)' => booking'[c] = booking[c] /\ ~ Exists(c)
    BY <1>2, Unlocked DEF BaseInv, Exists
  <1>4. Exists(b)'
    BY <1>2 DEF Exists
  <1>5. \A c \in BookingIds : Creates(q, c) =>
           Exists(c)' /\ \A s \in Requests \ {r} : ~ Creates(req[s], c)
    BY <1>4 DEF BoardInv, Creates
  <1>6. \A c \in BookingIds : ~ Exists(c)' => booking'[c] \in {NoBooking, Gone}
    BY <1>3 DEF BoardInv
  <1>7. \A c \in BookingIds : Exists(c) /\ bookingLock[c] \notin {None, r} =>
           booking'[c] = booking[c] /\ bookingLock'[c] = bookingLock[c]
    BY <1>2, <1>3
  <1>8. /\ \A c \in BookingIds : q.op = "claim" /\ q.b = c =>
              bookingLock'[c] = r /\ Exists(c)' /\ ~ Claimed(c)'
        /\ q.op \in {"create", "claim"} => q.b \in BookingIds
    OBVIOUS
  <1> QED
    BY <1>1, <1>3, <1>5, <1>6, <1>7, <1>8, BoardStep

\* A request that ends, whatever it was, and one that goes on.
LEMMA BoardEnds ==
  ASSUME BaseInv, BoardInv, NEW r \in Requests, Ends(r), UNCHANGED booking,
         bookingLock' = bookingLock \/ Unlocks(r)
  PROVE  BoardInv'
  BY IdleRequest, BoardNoWrite DEF Ends

LEMMA BoardGoesTo ==
  ASSUME BaseInv, BoardInv, NEW r \in Requests,
         NEW p \in {"check", "commit", "find", "save"}, GoesTo(r, p),
         UNCHANGED <<booking, bookingLock>>
  PROVE  BoardInv'
  <1> DEFINE q == [req[r] EXCEPT !.pc = p]
  <1>1. q \in Request /\ q.op = req[r].op /\ q.b = req[r].b
    BY Underway DEF Request
  <1>2. req' = [req EXCEPT ![r] = q]
    BY DEF GoesTo, BaseInv, TypeOK
  <1> HIDE DEF q
  <1> QED
    BY <1>1, <1>2, BoardNoWrite

\* The requests that begin.
LEMMA BoardStarting ==
  ASSUME BaseInv, BoardInv, NEW r \in Requests, Starting(r)
  PROVE  BoardInv'
  <1>1. ASSUME NEW b \in BookingIds, CreateBooking(r, b)
        PROVE  BoardInv'
    <2> DEFINE q == [op |-> "create", b |-> b, t |-> None, pc |-> "deduct", seen |-> FALSE]
               row == [booking[b] EXCEPT !.status = "requested"]
    <2>1. q \in Request /\ q.op = "create" /\ q.b = b
      BY RequestRecord
    <2>2. /\ req' = [req EXCEPT ![r] = q] /\ booking' = [booking EXCEPT ![b] = row]
          /\ UNCHANGED bookingLock /\ booking[b].status = "absent"
      BY <1>1 DEF CreateBooking, Starts, locks
    <2>3. row.status = "requested"
      BY DEF BaseInv, TypeOK, BookingRow
    <2> HIDE DEF q, row
    <2>4. \A s \in Requests : req'[s] = IF s = r THEN q ELSE req[s]
      BY <2>1, <2>2, RequestsAfter DEF BaseInv
    <2>5. \A c \in BookingIds : booking'[c] = IF c = b THEN row ELSE booking[c]
      BY <2>2 DEF BaseInv, TypeOK
    <2>6. \A s \in Requests : ~ Creates(req[s], b)
      BY <2>2 DEF BaseInv, AbsentInv, Creates
    <2>7. /\ \A c \in BookingIds : Exists(c) =>
                booking'[c] = booking[c] /\ bookingLock'[c] = bookingLock[c] /\ Exists(c)'
          /\ \A c \in BookingIds : ~ Exists(c)' => booking'[c] \in {NoBooking, Gone}
          /\ Exists(b)'
      BY <2>2, <2>3, <2>5 DEF Exists, BoardInv
    <2>8. \A c \in BookingIds : Creates(q, c) =>
             Exists(c)' /\ \A s \in Requests \ {r} : ~ Creates(req[s], c)
      BY <2>1, <2>6, <2>7 DEF Creates
    <2> QED
      BY <2>1, <2>4, <2>7, <2>8, BoardStep
  <1>2. ASSUME NEW b \in BookingIds \union {None}, NEW t \in Tutors \union {None},
               NEW o \in {"cancel", "fallback", "allocate"},
               NEW p \in {"cancel", "mark", "look"}, NEW s \in BOOLEAN,
               req' = [req EXCEPT ![r] = [op |-> o, b |-> b, t |-> t, pc |-> p,
                                          seen |-> s]],
               UNCHANGED <<booking, bookingLock>>
        PROVE  BoardInv'
    <2> DEFINE q == [op |-> o, b |-> b, t |-> t, pc |-> p, seen |-> s]
    <2>1. q \in Request
      BY ZenonT(60), RequestRecord
    <2>2. q.op \notin {"create", "claim"} /\ req' = [req EXCEPT ![r] = q]
      BY <1>2
    <2> HIDE DEF q
    <2> QED
      BY <1>2, <2>1, <2>2, BoardNoWrite
  <1>3. ASSUME NEW b \in BookingIds, CancelRead(r, b)
        PROVE  BoardInv'
    <2>1. HasSessions(b) \in BOOLEAN
      BY DEF HasSessions
    <2>2. /\ req' = [req EXCEPT ![r] = [op |-> "cancel", b |-> b, t |-> None,
                                        pc |-> "cancel", seen |-> HasSessions(b)]]
          /\ UNCHANGED <<booking, bookingLock>>
      BY <1>3 DEF CancelRead, locks
    <2> QED
      BY <1>2, <2>1, <2>2
  <1>4. ASSUME NEW b \in BookingIds, FallbackRead(r, b)
        PROVE  BoardInv'
    BY <1>2, <1>4 DEF FallbackRead, Starts, locks
  <1>5. ASSUME NEW t \in Tutors, AllocateReads(r, t)
        PROVE  BoardInv'
    BY <1>2, <1>5 DEF AllocateReads, Starts, locks
  <1>6. ASSUME NEW b \in BookingIds, NEW t \in Tutors, Claim(r, b, t)
        PROVE  BoardInv'
    <2> DEFINE q == [op |-> "claim", b |-> b, t |-> t, pc |-> "lockTutor", seen |-> FALSE]
    <2>1. q \in Request /\ q.op = "claim" /\ q.b = b
      BY RequestRecord
    <2>2. /\ req' = [req EXCEPT ![r] = q] /\ UNCHANGED booking
          /\ Exists(b) /\ ~ Claimed(b) /\ bookingLock[b] = None
          /\ bookingLock' = [bookingLock EXCEPT ![b] = r]
      BY <1>6 DEF Claim, Starts, LocksBooking, Free
    <2> HIDE DEF q
    <2>3. \A s \in Requests : req'[s] = IF s = r THEN q ELSE req[s]
      BY <2>1, <2>2, RequestsAfter DEF BaseInv
    <2>4. \A c \in BookingIds : bookingLock'[c] = IF c = b THEN r ELSE bookingLock[c]
      BY <2>2, SameLocks
    <2>5. \A c \in BookingIds : /\ booking'[c] = booking[c] /\ Exists(c)' = Exists(c)
                                /\ Claimed(c)' = Claimed(c)
      BY <2>2 DEF Exists, Claimed
    <2>6. \A c \in BookingIds : bookingLock[c] \notin {None, r} =>
             bookingLock'[c] = bookingLock[c]
      BY <2>2, <2>4
    <2>7. \A c \in BookingIds : q.op = "claim" /\ q.b = c =>
             bookingLock'[c] = r /\ Exists(c)' /\ ~ Claimed(c)'
      BY <2>1, <2>2, <2>4, <2>5
    <2>8. \A c \in BookingIds : ~ Exists(c)' => booking'[c] \in {NoBooking, Gone}
      BY <2>5 DEF BoardInv
    <2>9. \A c \in BookingIds : ~ Creates(q, c)
      BY <2>1 DEF Creates
    <2> QED
      BY <2>1, <2>3, <2>5, <2>6, <2>7, <2>8, <2>9, BoardStep
  <1>7. ASSUME NEW b \in BookingIds, NEW t \in Tutors, NEW o \in {"reassign", "allocate"},
               NEW who \in {"reassign", "admin"},
               Starts(r, o, b, t, "find"), Free(b),
               booking' = [booking EXCEPT ![b] = Chosen(booking[b], t, who)],
               UNCHANGED bookingLock
        PROVE  BoardInv'
    <2> DEFINE q == [op |-> o, b |-> b, t |-> t, pc |-> "find", seen |-> FALSE]
               row == Chosen(booking[b], t, who)
    <2>1. q \in Request /\ q.op \notin {"create", "claim"}
      BY RequestRecord
    <2>2. booking[b] \in BookingRow
      BY DEF BaseInv, TypeOK
    <2>3. row.status = "confirmed"
      BY <2>2, RowFields
    <2>4. /\ req' = [req EXCEPT ![r] = q] /\ booking' = [booking EXCEPT ![b] = row]
          /\ bookingLock[b] = None
      BY <1>7 DEF Starts, Free
    <2> HIDE DEF q, row
    <2> QED
      BY <1>7, <2>1, <2>3, <2>4, BoardWrite
  <1>8. ASSUME NEW b \in BookingIds, NEW t \in Tutors,
               Reassign(r, b, t) \/ AssignTutor(r, b, t)
        PROVE  BoardInv'
    BY <1>7, <1>8 DEF Reassign, AssignTutor, locks
  <1>9. ASSUME NEW t \in Tutors, RemoveUnassign(r, t)
        PROVE  BoardInv'
    <2> DEFINE q == [op |-> "remove", b |-> None, t |-> t, pc |-> "deactivate",
                     seen |-> FALSE]
    <2>1. q \in Request /\ q.op = "remove"
      BY RequestRecord
    <2>2. req' = [req EXCEPT ![r] = q] /\ UNCHANGED bookingLock
      BY <1>9 DEF RemoveUnassign, Starts, locks
    <2> HIDE DEF q
    <2>3. \A s \in Requests : req'[s] = IF s = r THEN q ELSE req[s]
      BY <2>1, <2>2, RequestsAfter DEF BaseInv
    <2>4. ASSUME NEW b \in BookingIds
          PROVE  /\ bookingLock[b] # None => booking'[b] = booking[b]
                 /\ Exists(b) => Exists(b)'
                 /\ ~ Exists(b)' => booking'[b] \in {NoBooking, Gone}
      <3>1. booking'[b] = IF booking[b].tutor = t THEN Unassigned(booking[b])
                          ELSE booking[b]
        BY <1>9 DEF RemoveUnassign, Theirs
      <3>2. booking[b].tutor = t => bookingLock[b] = None
        BY <1>9 DEF RemoveUnassign, Theirs, Free
      <3>3. booking[b] \in BookingRow
        BY DEF BaseInv, TypeOK
      <3>4. Unassigned(booking[b]).status = "requested"
        BY <3>3, RowUnassigned
      <3> QED
        BY <3>1, <3>2, <3>4 DEF Exists, BoardInv
    <2>5. \A c \in BookingIds : ~ Creates(q, c)
      BY <2>1 DEF Creates
    <2> QED
      BY <2>1, <2>2, <2>3, <2>4, <2>5, BoardStep
  <1> QED
    BY <1>1, <1>3, <1>4, <1>5, <1>6, <1>8, <1>9 DEF Starting

LEMMA BoardCreating ==
  ASSUME BaseInv, BoardInv, NEW r \in Requests, Creating(r)
  PROVE  BoardInv'
  <1> DEFINE b == req[r].b
  <1>0. req[r] \in Request /\ IsAbout(req[r])
    BY Underway
  <1>1. CASE DeductFails(r)
    <2>1. b \in BookingIds /\ Creates(req[r], b)
      BY <1>0, <1>1 DEF DeductFails, At, IsAbout, Creates
    <2>2. \A s \in Requests : req'[s] = IF s = r THEN Idle ELSE req[s]
      BY <1>1, IdleRequest, RequestsAfter DEF DeductFails, Ends, BaseInv
    <2>3. \A c \in BookingIds : booking'[c] = IF c = b THEN Gone ELSE booking[c]
      BY <1>1, <2>1 DEF DeductFails, Gone, BaseInv, TypeOK
    <2>4. bookingLock' = bookingLock /\ bookingLock[b] = None
      BY <1>1 DEF DeductFails, Free, locks
    <2>5. /\ \A c \in BookingIds : bookingLock[c] \notin {None, r} =>
                booking'[c] = booking[c] /\ bookingLock'[c] = bookingLock[c]
          /\ \A c \in BookingIds : Exists(c) => Exists(c)' \/ Creates(req[r], c)
          /\ \A c \in BookingIds : ~ Exists(c)' => booking'[c] \in {NoBooking, Gone}
      BY <2>1, <2>3, <2>4 DEF Exists, BoardInv
    <2> QED
      BY <2>2, <2>5, IdleRequest, IdleCreates, BoardStep
  <1>2. ASSUME NEW t \in Tutors, PickTutor(r, t)
        PROVE  BoardInv'
    <2> DEFINE q == [req[r] EXCEPT !.t = t, !.pc = "lockTutor"]
    <2>1. q \in Request /\ q.op = req[r].op /\ q.b = req[r].b
      BY <1>0 DEF Request
    <2>2. req' = [req EXCEPT ![r] = q] /\ UNCHANGED <<booking, bookingLock>>
      BY <1>2 DEF PickTutor, locks, BaseInv, TypeOK
    <2> HIDE DEF q
    <2> QED
      BY <2>1, <2>2, BoardNoWrite
  <1>3. CASE PickNobody(r) \/ CreateSession(r)
    BY <1>3, BoardEnds DEF PickNobody, CreateSession, locks
  <1>4. CASE AssignRefused(r)
    BY <1>4, BoardEnds DEF AssignRefused, RollsBack
  <1>5. CASE AssignLockTutor(r) \/ AssignChecked(r)
    BY <1>5, BoardGoesTo DEF AssignLockTutor, AssignChecked, locks
  <1>6. CASE AssignCommit(r)
    <2> DEFINE q == [req[r] EXCEPT !.pc = "session"]
               row == Assigned(booking[b], req[r].t)
    <2>1. b \in BookingIds /\ req[r].t \in Tutors /\ req[r].op = "create"
      BY <1>0, <1>6 DEF AssignCommit, At, IsAbout
    <2>2. q \in Request /\ q.op = "create" /\ q.b = b
      BY <1>0, <2>1 DEF Request
    <2>3. row.status = "confirmed"
      BY <2>1, Underway, RowFields
    <2>4. /\ req' = [req EXCEPT ![r] = q] /\ booking' = [booking EXCEPT ![b] = row]
          /\ Unlocks(r) /\ bookingLock[b] = None
      BY <1>6 DEF AssignCommit, GoesTo, Free, BaseInv, TypeOK
    <2> HIDE DEF q, row
    <2> QED
      BY <2>1, <2>2, <2>3, <2>4, BoardWrite
  <1> QED
    BY <1>1, <1>2, <1>3, <1>4, <1>5, <1>6 DEF Creating

LEMMA BoardClaiming ==
  ASSUME BaseInv, BoardInv, NEW r \in Requests, Claiming(r)
  PROVE  BoardInv'
  <1>1. CASE ClaimLockTutor(r) \/ ClaimChecked(r)
    BY <1>1, BoardGoesTo DEF ClaimLockTutor, ClaimChecked, locks
  <1>2. CASE ClaimOverlaps(r)
    BY <1>2, BoardEnds DEF ClaimOverlaps, RollsBack
  <1>3. CASE ClaimCommit(r)
    <2> DEFINE b == req[r].b
               row == Assigned(booking[b], req[r].t)
    <2>1. b \in BookingIds /\ req[r].t \in Tutors /\ bookingLock[b] = r
      BY <1>3, Underway DEF ClaimCommit, At, IsAbout, BoardInv, Placed
    <2>2. row.status = "confirmed"
      BY <2>1, Underway, RowFields
    <2>3. /\ req' = [req EXCEPT ![r] = Idle] /\ booking' = [booking EXCEPT ![b] = row]
          /\ Unlocks(r)
      BY <1>3 DEF ClaimCommit, Ends
    <2> HIDE DEF row
    <2> QED
      BY <2>1, <2>2, <2>3, IdleRequest, BoardWrite
  <1> QED
    BY <1>1, <1>2, <1>3 DEF Claiming

LEMMA BoardReassigning ==
  ASSUME BaseInv, BoardInv, NEW r \in Requests, Reassigning(r)
  PROVE  BoardInv'
  <1>1. CASE ReassignFind(r)
    <2> DEFINE q == [req[r] EXCEPT !.pc = "save", !.seen = HasSessions(req[r].b)]
    <2>1. q \in Request /\ q.op = req[r].op /\ q.b = req[r].b
      BY Underway DEF Request, HasSessions
    <2>2. req' = [req EXCEPT ![r] = q] /\ UNCHANGED <<booking, bookingLock>>
      BY <1>1 DEF ReassignFind, locks, BaseInv, TypeOK
    <2> HIDE DEF q
    <2> QED
      BY <2>1, <2>2, BoardNoWrite
  <1>2. CASE ReassignUpdate(r) \/ ReassignCreate(r) \/ ReassignFails(r)
    BY <1>2, BoardEnds DEF ReassignUpdate, ReassignCreate, ReassignFails, locks
  <1> QED
    BY <1>1, <1>2 DEF Reassigning

LEMMA BoardAllocating ==
  ASSUME BaseInv, BoardInv, NEW r \in Requests, Allocating(r)
  PROVE  BoardInv'
  <1>0. req[r] \in Request /\ IsAbout(req[r])
    BY Underway
  <1>1. ASSUME NEW b \in BookingIds, AllocateLooks(r, b)
        PROVE  BoardInv'
    <2> DEFINE q == [req[r] EXCEPT !.b = b, !.pc = "assign"]
    <2>1. q \in Request /\ q.op = "allocate"
      BY <1>0, <1>1 DEF Request, AllocateLooks, At
    <2>2. req' = [req EXCEPT ![r] = q] /\ UNCHANGED <<booking, bookingLock>>
      BY <1>1 DEF AllocateLooks, locks, BaseInv, TypeOK
    <2> HIDE DEF q
    <2> QED
      BY <2>1, <2>2, BoardNoWrite
  <1>2. ASSUME NEW b \in BookingIds, AllocateCreates(r, b)
        PROVE  BoardInv'
    <2> DEFINE q == [req[r] EXCEPT !.b = b, !.pc = "save"]
               row == Chosen(booking[b], req[r].t, "admin")
    <2>1. q \in Request /\ q.op = "allocate" /\ req[r].t \in Tutors /\ ~ Exists(b)
      BY <1>0, <1>2 DEF Request, AllocateCreates, At, IsAbout, Exists
    <2>2. row.status = "confirmed"
      BY <2>1, RowFields DEF BaseInv, TypeOK
    <2>3. /\ req' = [req EXCEPT ![r] = q] /\ booking' = [booking EXCEPT ![b] = row]
          /\ UNCHANGED bookingLock
      BY <1>2 DEF AllocateCreates, locks, BaseInv, TypeOK
    <2> HIDE DEF q, row
    <2> QED
      BY <2>1, <2>2, <2>3, BoardWrite
  <1>3. CASE AllocateAssigns(r)
    <2> DEFINE b == req[r].b
               q == [req[r] EXCEPT !.pc = "find"]
               row == Chosen(booking[b], req[r].t, "admin")
    <2>1. /\ q \in Request /\ q.op = "allocate" /\ req[r].t \in Tutors
          /\ b \in BookingIds
      BY <1>0, <1>3 DEF Request, AllocateAssigns, At, IsAbout
    <2>2. row.status = "confirmed"
      BY <2>1, RowFields DEF BaseInv, TypeOK
    <2>3. /\ req' = [req EXCEPT ![r] = q] /\ booking' = [booking EXCEPT ![b] = row]
          /\ UNCHANGED bookingLock /\ bookingLock[b] = None
      BY <1>3 DEF AllocateAssigns, GoesTo, Free, locks, BaseInv, TypeOK
    <2> HIDE DEF q, row
    <2> QED
      BY <2>1, <2>2, <2>3, BoardWrite
  <1>4. CASE AllocateFinds(r)
    BY <1>4, BoardEnds, BoardGoesTo DEF AllocateFinds, locks
  <1>5. CASE AllocateMakes(r) \/ AllocateFails(r)
    BY <1>5, BoardEnds DEF AllocateMakes, AllocateFails, locks
  <1> QED
    BY <1>1, <1>2, <1>3, <1>4, <1>5 DEF Allocating

LEMMA BoardFinishing ==
  ASSUME BaseInv, BoardInv, NEW r \in Requests,
         CancelCommit(r) \/ RemoveDeactivate(r) \/ FallbackMark(r) \/ DeadlockVictim(r)
  PROVE  BoardInv'
  <1> DEFINE b == req[r].b
  <1>0. req[r] \in Request /\ IsAbout(req[r])
    BY Underway
  <1>1. CASE CancelCommit(r) /\ Exists(b)
    <2> DEFINE row == [booking[b] EXCEPT !.status = "cancelled"]
    <2>1. b \in BookingIds
      BY <1>0, <1>1 DEF CancelCommit, At, IsAbout
    <2>2. row.status = "cancelled"
      BY <2>1, Underway DEF BookingRow
    <2>3. /\ req' = [req EXCEPT ![r] = Idle] /\ booking' = [booking EXCEPT ![b] = row]
          /\ UNCHANGED bookingLock /\ bookingLock[b] = None
      BY <1>1 DEF CancelCommit, Ends, Free, locks
    <2> HIDE DEF row
    <2> QED
      BY <2>1, <2>2, <2>3, IdleRequest, BoardWrite
  <1>2. CASE (CancelCommit(r) /\ ~ Exists(b)) \/ RemoveDeactivate(r)
    BY <1>2, BoardEnds DEF CancelCommit, RemoveDeactivate, locks
  <1>3. CASE FallbackMark(r)
    <2> DEFINE row == [booking[b] EXCEPT !.fallback = Exists(b)]
    <2>1. b \in BookingIds
      BY <1>0, <1>3 DEF FallbackMark, At, IsAbout
    <2>2. row.status = booking[b].status
      BY <2>1, Underway DEF BookingRow
    <2>3. /\ req' = [req EXCEPT ![r] = Idle] /\ booking' = [booking EXCEPT ![b] = row]
          /\ UNCHANGED bookingLock /\ bookingLock[b] = None
      BY <1>3 DEF FallbackMark, Ends, Free, locks
    <2>4. CASE Exists(b)
      <3>1. row.status \notin {"absent", "deleted"}
        BY <2>2, <2>4 DEF Exists
      <3> HIDE DEF row
      <3> QED
        BY <2>1, <2>3, <3>1, IdleRequest, BoardWrite
    <2>5. CASE ~ Exists(b)
      <3>1. booking[b].fallback = FALSE
        BY <2>1, <2>5, AbsentRows DEF BoardInv
      <3>2. [booking[b] EXCEPT !.fallback = booking[b].fallback] = booking[b]
        BY <2>1, Underway DEF BookingRow
      <3>3. Exists(b) = FALSE
        BY <2>5 DEF Exists
      <3>4. row = booking[b]
        BY <3>1, <3>2, <3>3
      <3>5. booking' = booking
        BY <2>3, <3>4 DEF BaseInv, TypeOK
      <3> QED
        BY <2>3, <3>5, BoardEnds DEF Ends
    <2> QED
      BY <2>4, <2>5
  <1>4. CASE DeadlockVictim(r)
    BY <1>4, BoardEnds DEF DeadlockVictim, RollsBack
  <1> QED
    BY <1>1, <1>2, <1>3, <1>4

\* The jobs change rows that are there, and keep them there.
LEMMA ExistsUpdated ==
  ASSUME BaseInv, NEW which \in SUBSET BookingIds, NEW status \in {"expired", "archived"},
         UpdateMany(which, status), \A b \in which : Exists(b)
  PROVE  \A b \in BookingIds :
            /\ bookingLock[b] # None => booking'[b] = booking[b]
            /\ Exists(b)' = Exists(b)
            /\ ~ Exists(b) => booking'[b] = booking[b]
  BY UpdatedRows DEF UpdateMany, Free, Exists

LEMMA BoardAlone ==
  ASSUME BaseInv, BoardInv, UNCHANGED <<bookingLock, req>>,
         \A b \in BookingIds :
            /\ bookingLock[b] # None => booking'[b] = booking[b]
            /\ Exists(b)' = Exists(b)
            /\ ~ Exists(b) => booking'[b] = booking[b]
  PROVE  BoardInv'
  <1>1. \A s \in Requests : req'[s] = IF s = None THEN Idle ELSE req[s]
    BY NoneIsNone
  <1>2. \A b \in BookingIds : ~ Exists(b)' => booking'[b] \in {NoBooking, Gone}
    BY DEF BoardInv
  <1> QED
    BY <1>1, <1>2, IdleRequest, IdleCreates, BoardStep

\* Which rows a job changes.
LEMMA JobRows ==
  ASSUME Jobs
  PROVE  /\ \E which \in SUBSET BookingIds, status \in {"expired", "archived"} :
               UpdateMany(which, status) /\ \A b \in which : Exists(b)
         /\ UNCHANGED <<active, bookingLock, req>>
  <1>1. CASE ExpireUnassigned
    BY <1>1 DEF ExpireUnassigned, ToExpire, ExpireExempt, Exists, locks
  <1>2. CASE QueueExpires
    BY <1>2 DEF QueueExpires, Exists, locks
  <1>3. CASE ArchiveAssigned
    BY <1>3 DEF ArchiveAssigned, ToArchive, ArchiveExempt, Exists, locks
  <1> QED
    BY <1>1, <1>2, <1>3 DEF Jobs

LEMMA BoardInit == Init => BoardInv
  BY IdleRequest DEF Init, BoardInv, Placed, Creates

LEMMA BoardNext == BaseInv /\ BoardInv /\ [Next]_vars => BoardInv'
  <1> SUFFICES ASSUME BaseInv, BoardInv, [Next]_vars PROVE BoardInv'
    OBVIOUS
  <1>1. ASSUME NEW r \in Requests, Continuing(r)
        PROVE  BoardInv'
    BY <1>1, BoardCreating, BoardClaiming, BoardReassigning, BoardAllocating, BoardFinishing
    DEF Continuing
  <1>2. ASSUME NEW r \in Requests, RequestFails(r)
        PROVE  BoardInv'
    BY <1>2, BoardEnds DEF RequestFails, RollsBack
  <1>3. CASE Jobs
    BY <1>3, JobRows, ExistsUpdated, BoardAlone
  <1>4. CASE UNCHANGED <<booking, bookingLock, req>>
    BY <1>4, BoardAlone DEF Exists
  <1>5. CASE Tick \/ UNCHANGED vars \/ \E b \in BookingIds : TutorJoins(b)
    BY <1>4, <1>5 DEF Tick, vars, TutorJoins, locks
  <1> QED
    BY <1>1, <1>2, <1>3, <1>5, BoardStarting DEF Next

LEMMA Stages ==
  /\ Stage("absent") = "absent" /\ Stage("deleted") = "deleted"
  /\ Stage("requested") = "standing" /\ Stage("confirmed") = "standing"
  /\ Stage("cancelled") = "over" /\ Stage("expired") = "over"
  /\ Stage("archived") = "over"
  BY DEF Stage

\* What the board shows of a row, and of one that is written.
LEMMA ShownFields ==
  ASSUME NEW row \in BookingRow
  PROVE  /\ Shown(row).tutor = row.tutor /\ Shown(row).offered = row.fallback
         /\ Shown(row).state = "standing" <=> row.status \in {"requested", "confirmed"}
         /\ Shown(row).state \in {"standing", "over"} <=> row.status \notin {"absent", "deleted"}
  BY Stages DEF Shown, BookingRow, BookingStatus

\* The bookings whose automatic assignment is under way.
Pending == {b \in BookingIds : \E r \in Requests : Tries(req[r], b)}

LEMMA BoardReads ==
  ASSUME BaseInv, NEW b \in BookingIds
  PROVE  /\ Board!Exists(b) <=> Exists(b)
         /\ \A t \in Tutors : Board!Busy(t, b) <=> Busy(t, b)
  <1>1. \A c \in BookingIds : booking[c] \in BookingRow
    BY DEF BaseInv, TypeOK
  <1>2. Board!Exists(b) <=> Exists(b)
    BY <1>1, ShownFields DEF Board!Exists, Exists
  <1>3. \A t \in Tutors, c \in BookingIds : Board!Holds(t, c) <=> Holds(t, c)
    BY <1>1, ShownFields DEF Board!Holds, Holds
  <1>4. \A t \in Tutors : Board!Busy(t, b) <=> Busy(t, b)
    BY <1>3 DEF Board!Busy, Busy
  <1> QED
    BY <1>2, <1>4

LEMMA ShownGiven ==
  ASSUME BaseInv, NEW b \in BookingIds, NEW t \in Tutors,
         NEW who \in {"platform", "reassign", "admin"}
  PROVE  /\ Shown(Assigned(booking[b], t)) = Board!Standing(b, t)
         /\ Shown(Chosen(booking[b], t, who)) = Board!Standing(b, t)
  <1> DEFINE row == booking[b]
  <1>1. row \in BookingRow
    BY DEF BaseInv, TypeOK
  <1>2. /\ Assigned(row, t).fallback = row.fallback
        /\ Chosen(row, t, who).fallback = row.fallback
    BY <1>1 DEF Assigned, Chosen, BookingRow
  <1>3. Board!Standing(b, t) =
           [state |-> "standing", tutor |-> t, offered |-> row.fallback]
    BY DEF Board!Standing, Shown
  <1> QED
    BY <1>1, <1>2, <1>3, RowFields, Stages DEF Shown

LEMMA ShownAbsent ==
  Shown(NoBooking) = Board!Absent /\ Shown(Gone) = Board!Deleted
  BY Stages, AbsentRows DEF Shown, Board!Absent, Board!Deleted

\* Writing a row writes what the board shows of it.
LEMMA BoardBecomes ==
  ASSUME BaseInv, NEW b \in BookingIds, NEW row, booking' = [booking EXCEPT ![b] = row]
  PROVE  Board!Becomes(b, Shown(row))
  <1>1. \A c \in BookingIds : booking'[c] = IF c = b THEN row ELSE booking[c]
    BY DEF BaseInv, TypeOK
  <1> QED
    BY <1>1 DEF Board!Becomes, Shown, Stage

\* Which assignments are under way after a step of one request.
LEMMA PendingSame ==
  ASSUME BaseInv, NEW r \in Requests, NEW q \in Request, req' = [req EXCEPT ![r] = q],
         \A b \in BookingIds : Tries(q, b) <=> Tries(req[r], b)
  PROVE  Pending' = Pending
  <1>1. \A s \in Requests : req'[s] = IF s = r THEN q ELSE req[s]
    BY RequestsAfter DEF BaseInv
  <1>2. \A b \in BookingIds : (\E s \in Requests : Tries(req'[s], b))
                                 <=> \E s \in Requests : Tries(req[s], b)
    BY <1>1
  <1>3. Pending' = {b \in BookingIds : \E s \in Requests : Tries(req'[s], b)}
    BY DEF Pending, Tries
  <1> QED
    BY <1>2, <1>3 DEF Pending

LEMMA PendingLess ==
  ASSUME BaseInv, BoardInv, NEW r \in Requests, NEW q \in Request,
         req' = [req EXCEPT ![r] = q], NEW b \in BookingIds,
         Tries(req[r], b), \A c \in BookingIds : ~ Tries(q, c)
  PROVE  b \in Pending /\ Pending' = Pending \ {b}
  <1>1. \A s \in Requests : req'[s] = IF s = r THEN q ELSE req[s]
    BY RequestsAfter DEF BaseInv
  <1>2. \A s \in Requests : Tries(req[s], b) => s = r
    BY DEF BoardInv, Tries, Creates
  <1>3. \A c \in BookingIds : Tries(req[r], c) => c = b
    BY DEF Tries
  <1>4. \A c \in BookingIds : (\E s \in Requests : Tries(req'[s], c))
                                 <=> c # b /\ \E s \in Requests : Tries(req[s], c)
    BY <1>1, <1>2, <1>3
  <1>5. Pending' = {c \in BookingIds : \E s \in Requests : Tries(req'[s], c)}
    BY DEF Pending, Tries
  <1> QED
    BY <1>4, <1>5 DEF Pending

LEMMA PendingMore ==
  ASSUME BaseInv, NEW r \in Requests, NEW q \in Request, req' = [req EXCEPT ![r] = q],
         NEW b \in BookingIds, \A c \in BookingIds : Tries(q, c) <=> c = b,
         \A c \in BookingIds : ~ Tries(req[r], c)
  PROVE  Pending' = Pending \union {b}
  <1>1. \A s \in Requests : req'[s] = IF s = r THEN q ELSE req[s]
    BY RequestsAfter DEF BaseInv
  <1>2. \A c \in BookingIds : (\E s \in Requests : Tries(req'[s], c))
                                 <=> c = b \/ \E s \in Requests : Tries(req[s], c)
    BY <1>1
  <1>3. Pending' = {c \in BookingIds : \E s \in Requests : Tries(req'[s], c)}
    BY DEF Pending, Tries
  <1> QED
    BY <1>2, <1>3 DEF Pending

\* A step of the board, or none.
Moves == Board!Next \/ UNCHANGED Board!boardVars

LEMMA BoardStays ==
  ASSUME BaseInv, UNCHANGED <<booking, active>>, Pending' = Pending
  PROVE  Moves
  <1>1. \A b \in BookingIds : Shown(booking[b])' = Shown(booking[b])
    OBVIOUS
  <1> QED
    BY <1>1 DEF Moves, Board!boardVars, Pending

\* A request that ends without writing a row: a creation gives its automatic
\* assignment up, if it was still to come.
LEMMA BoardGivesUp ==
  ASSUME BaseInv, BoardInv, NEW r \in Requests, Ends(r), UNCHANGED <<booking, active>>
  PROVE  Moves
  <1>1. Idle \in Request /\ req' = [req EXCEPT ![r] = Idle]
        /\ \A b \in BookingIds : ~ Tries(Idle, b)
    BY IdleRequest DEF Ends, Tries
  <1>2. CASE \A b \in BookingIds : ~ Tries(req[r], b)
    <2>1. Pending' = Pending
      BY <1>1, <1>2, PendingSame
    <2> QED
      BY <2>1, BoardStays
  <1>3. ASSUME NEW b \in BookingIds, Tries(req[r], b)
        PROVE  Moves
    <2>1. b \in Pending /\ Pending' = Pending \ {b}
      BY <1>1, <1>3, PendingLess
    <2>2. \A c \in BookingIds : Shown(booking[c])' = Shown(booking[c])
      OBVIOUS
    <2>3. Board!GiveUp(b)
      BY <2>1, <2>2 DEF Board!GiveUp, Pending
    <2> QED
      BY <2>3 DEF Moves, Board!Next
  <1> QED
    BY <1>2, <1>3

\* A step of a request that only goes on.
LEMMA BoardGoesOn ==
  ASSUME BaseInv, NEW r \in Requests, NEW q \in Request, req' = [req EXCEPT ![r] = q],
         UNCHANGED <<booking, active>>,
         \A b \in BookingIds : Tries(q, b) <=> Tries(req[r], b)
  PROVE  Moves
  BY PendingSame, BoardStays

\* From p, the same request: it tries what it tried.
LEMMA BoardGoesToMove ==
  ASSUME BaseInv, NEW r \in Requests,
         NEW p \in {"check", "commit", "find", "save"}, GoesTo(r, p),
         req[r].op = "create" => req[r].pc \in {"lockTutor", "check"} /\ p \in {"check", "commit"},
         UNCHANGED <<booking, active>>
  PROVE  Moves
  <1> DEFINE q == [req[r] EXCEPT !.pc = p]
  <1>1. q \in Request /\ q.op = req[r].op /\ q.b = req[r].b /\ q.pc = p
    BY Underway DEF Request
  <1>2. req' = [req EXCEPT ![r] = q]
    BY DEF GoesTo, BaseInv, TypeOK
  <1> HIDE DEF q
  <1>3. \A b \in BookingIds : Tries(q, b) <=> Tries(req[r], b)
    BY <1>1 DEF Tries
  <1> QED
    BY <1>1, <1>2, <1>3, BoardGoesOn

\* Somebody chooses the tutor of a booking.
LEMMA BoardChosen ==
  ASSUME BaseInv, BoardInv, NEW b \in BookingIds, NEW t \in Tutors,
         NEW who \in {"reassign", "admin"},
         booking' = [booking EXCEPT ![b] = Chosen(booking[b], t, who)],
         Exists(b) \/ booking[b].status = "absent",
         active' = active, Pending' = Pending
  PROVE  Moves
  <1>1. Board!Becomes(b, Board!Standing(b, t))
    BY BoardBecomes, ShownGiven
  <1>2. Shown(booking[b]) = Board!Absent \/ Board!Exists(b)
    <2>1. CASE Exists(b)
      BY <2>1, BoardReads
    <2>2. CASE booking[b].status = "absent"
      <3>1. booking[b] = NoBooking
        BY <2>2, AbsentRows DEF BoardInv, Exists
      <3> QED
        BY <3>1, ShownAbsent
    <2> QED
      BY <2>1, <2>2
  <1>3. Board!Choose(b, t)
    BY <1>1, <1>2 DEF Board!Choose, Pending
  <1> QED
    BY <1>3 DEF Moves, Board!Next

LEMMA BoardStartingMove ==
  ASSUME BaseInv, BoardInv, NEW r \in Requests, Starting(r)
  PROVE  Moves
  <1>0. req[r] = Idle /\ \A b \in BookingIds : ~ Tries(req[r], b)
    <2>1. req[r] = Idle
      BY DEF Starting, CreateBooking, CancelRead, FallbackRead, Claim, Reassign, AssignTutor,
         RemoveUnassign, AllocateReads, Starts
    <2> QED
      BY <2>1, IdleRequest DEF Tries
  <1>1. ASSUME NEW b \in BookingIds, CreateBooking(r, b)
        PROVE  Moves
    <2> DEFINE q == [op |-> "create", b |-> b, t |-> None, pc |-> "deduct", seen |-> FALSE]
               row == [booking[b] EXCEPT !.status = "requested"]
    <2>1. /\ q \in Request /\ q.op = "create" /\ q.b = b /\ q.pc = "deduct"
      BY RequestRecord
    <2>2. /\ req' = [req EXCEPT ![r] = q] /\ booking' = [booking EXCEPT ![b] = row]
          /\ active' = active
      BY <1>1 DEF CreateBooking, Starts
    <2>3. booking[b] = NoBooking
      BY <1>1, AbsentRows DEF CreateBooking, BoardInv, Exists
    <2>4. row.status = "requested" /\ row.tutor = None /\ row.fallback = FALSE
      BY <2>3 DEF NoBooking
    <2> HIDE DEF q, row
    <2>5. Shown(row) = [state |-> "standing", tutor |-> None, offered |-> FALSE]
      BY <2>4, Stages DEF Shown
    <2>6. Shown(booking[b]) = Board!Absent /\ Shown(booking[b]).offered = FALSE
      BY <2>3, ShownAbsent, AbsentRows DEF Shown
    <2>7. Board!Becomes(b, Board!Standing(b, None))
      BY <2>2, <2>5, <2>6, BoardBecomes DEF Board!Standing
    <2>8. Pending' = Pending \union {b}
      <3>1. \A c \in BookingIds : Tries(q, c) <=> c = b
        BY <2>1 DEF Tries
      <3> QED
        BY <1>0, <2>1, <2>2, <3>1, PendingMore
    <2>9. Board!Book(b)
      BY <2>2, <2>6, <2>7, <2>8 DEF Board!Book, Pending
    <2> QED
      BY <2>9 DEF Moves, Board!Next
  <1>2. ASSUME NEW b \in BookingIds \union {None}, NEW t \in Tutors \union {None},
               NEW o \in {"cancel", "fallback", "allocate", "claim", "reassign", "remove"},
               NEW p \in {"cancel", "mark", "look", "lockTutor", "find", "deactivate"},
               NEW s \in BOOLEAN,
               req' = [req EXCEPT ![r] = [op |-> o, b |-> b, t |-> t, pc |-> p,
                                          seen |-> s]]
        PROVE  Pending' = Pending /\ (UNCHANGED <<booking, active>> => Moves)
    <2> DEFINE q == [op |-> o, b |-> b, t |-> t, pc |-> p, seen |-> s]
    <2>1. q \in Request
      BY ZenonT(60), RequestRecord
    <2>2. q.op # "create" /\ req' = [req EXCEPT ![r] = q]
      BY <1>2
    <2> HIDE DEF q
    <2>3. \A c \in BookingIds : ~ Tries(q, c)
      BY <2>2 DEF Tries
    <2> QED
      BY <1>0, <2>1, <2>2, <2>3, PendingSame, BoardStays
  <1>3. ASSUME NEW b \in BookingIds, CancelRead(r, b)
        PROVE  Moves
    <2>1. HasSessions(b) \in BOOLEAN
      BY DEF HasSessions
    <2>2. /\ req' = [req EXCEPT ![r] = [op |-> "cancel", b |-> b, t |-> None,
                                        pc |-> "cancel", seen |-> HasSessions(b)]]
          /\ UNCHANGED <<booking, active>>
      BY <1>3 DEF CancelRead
    <2> QED
      BY <1>2, <2>1, <2>2
  <1>4. ASSUME NEW b \in BookingIds, FallbackRead(r, b)
        PROVE  Moves
    BY <1>2, <1>4 DEF FallbackRead, Starts
  <1>5. ASSUME NEW t \in Tutors, AllocateReads(r, t)
        PROVE  Moves
    BY <1>2, <1>5 DEF AllocateReads, Starts
  <1>6. ASSUME NEW b \in BookingIds, NEW t \in Tutors, Claim(r, b, t)
        PROVE  Moves
    BY <1>2, <1>6 DEF Claim, Starts
  <1>7. ASSUME NEW b \in BookingIds, NEW t \in Tutors, Reassign(r, b, t)
        PROVE  Moves
    BY <1>2, <1>7, BoardChosen DEF Reassign, Starts
  <1>8. ASSUME NEW b \in BookingIds, NEW t \in Tutors, AssignTutor(r, b, t)
        PROVE  Moves
    BY <1>2, <1>8, BoardChosen DEF AssignTutor, Starts
  <1>9. ASSUME NEW t \in Tutors, RemoveUnassign(r, t)
        PROVE  Moves
    <2>1. Pending' = Pending
      BY <1>2, <1>9 DEF RemoveUnassign, Starts
    <2>2. ASSUME NEW b \in BookingIds
          PROVE  Shown(booking[b])' = IF Shown(booking[b]).tutor = t
                                      THEN Board!Standing(b, None) ELSE Shown(booking[b])
      <3>1. booking'[b] = IF booking[b].tutor = t THEN Unassigned(booking[b])
                          ELSE booking[b]
        BY <1>9 DEF RemoveUnassign, Theirs
      <3>2. booking[b] \in BookingRow
        BY DEF BaseInv, TypeOK
      <3>3. /\ Unassigned(booking[b]).tutor = None
            /\ Unassigned(booking[b]).status = "requested"
            /\ Unassigned(booking[b]).fallback = booking[b].fallback
        BY <3>2 DEF Unassigned, BookingRow
      <3>4. Shown(Unassigned(booking[b])) = Board!Standing(b, None)
        BY <3>3, Stages DEF Shown, Board!Standing
      <3>5. Shown(booking[b]).tutor = booking[b].tutor
        BY DEF Shown
      <3>6. Shown(booking[b])' = Shown(booking'[b])
        BY DEF Shown, Stage
      <3> QED
        BY <3>1, <3>4, <3>5, <3>6
    <2>3. active[t] /\ active' = active
      BY <1>9 DEF RemoveUnassign
    <2>4. Board!Release(t)
      BY <2>1, <2>2, <2>3 DEF Board!Release, Pending
    <2> QED
      BY <2>4 DEF Moves, Board!Next
  <1> QED
    BY <1>1, <1>3, <1>4, <1>5, <1>6, <1>7, <1>8, <1>9 DEF Starting

\* autoAssignTutor commits: the booking is there, the tutor is active and free.
LEMMA BoardCommits ==
  ASSUME BaseInv, TutorInv, BoardInv, NEW r \in Requests, AssignCommit(r)
  PROVE  Moves
  <1> DEFINE b == req[r].b
             t == req[r].t
             q == [req[r] EXCEPT !.pc = "session"]
  <1>1. Commits(req[r]) /\ req[r].op = "create" /\ req[r].pc = "commit"
    BY DEF AssignCommit, At, Commits
  <1>2. b \in BookingIds /\ t \in Tutors /\ ~ Busy(t, b) /\ active[t] /\ Exists(b)
    BY <1>1, CheckedTutor DEF TutorInv, LockInv, Guarded, BoardInv, Placed
  <1>3. q \in Request /\ q.pc = "session" /\ req' = [req EXCEPT ![r] = q]
    BY Underway DEF AssignCommit, GoesTo, Request, BaseInv, TypeOK
  <1>4. booking' = [booking EXCEPT ![b] = Assigned(booking[b], t)] /\ active' = active
    BY DEF AssignCommit
  <1> HIDE DEF q, b, t
  <1>5. Tries(req[r], b) /\ \A c \in BookingIds : ~ Tries(q, c)
    BY <1>1, <1>3 DEF Tries, b
  <1>6. b \in Pending /\ Pending' = Pending \ {b}
    BY <1>2, <1>3, <1>5, PendingLess
  <1>7. Board!Becomes(b, Board!Standing(b, t))
    BY <1>2, <1>4, BoardBecomes, ShownGiven
  <1>8. Board!Exists(b) /\ ~ Board!Busy(t, b)
    BY <1>2, BoardReads
  <1>9. Board!AutoAssign(b, t)
    BY <1>2, <1>4, <1>6, <1>7, <1>8 DEF Board!AutoAssign, Pending
  <1> QED
    BY <1>2, <1>9 DEF Moves, Board!Next

LEMMA BoardCreatingMove ==
  ASSUME BaseInv, TutorInv, BoardInv, NEW r \in Requests, Creating(r)
  PROVE  Moves
  <1> DEFINE b == req[r].b
  <1>0. req[r] \in Request /\ IsAbout(req[r])
    BY Underway
  <1>1. CASE DeductFails(r)
    <2>1. b \in BookingIds /\ Tries(req[r], b)
      BY <1>0, <1>1 DEF DeductFails, At, IsAbout, Tries
    <2>2. /\ Idle \in Request /\ req' = [req EXCEPT ![r] = Idle]
          /\ booking' = [booking EXCEPT ![b] = Gone] /\ active' = active
      BY <1>1, IdleRequest DEF DeductFails, Ends, Gone
    <2>3. b \in Pending /\ Pending' = Pending \ {b}
      BY <2>1, <2>2, IdleRequest, PendingLess DEF Tries
    <2>4. Board!Becomes(b, Board!Deleted)
      BY <2>1, <2>2, BoardBecomes, ShownAbsent
    <2>5. Board!Delete(b)
      BY <2>2, <2>3, <2>4 DEF Board!Delete, Pending
    <2> QED
      BY <2>1, <2>5 DEF Moves, Board!Next
  <1>2. ASSUME NEW t \in Tutors, PickTutor(r, t)
        PROVE  Moves
    <2> DEFINE q == [req[r] EXCEPT !.t = t, !.pc = "lockTutor"]
    <2>1. /\ q \in Request /\ q.op = req[r].op /\ q.b = req[r].b
          /\ q.pc = "lockTutor" /\ req[r].pc = "deduct"
      BY <1>0, <1>2 DEF Request, PickTutor, At
    <2>2. req' = [req EXCEPT ![r] = q] /\ UNCHANGED <<booking, active>>
      BY <1>2 DEF PickTutor, BaseInv, TypeOK
    <2> HIDE DEF q
    <2>3. \A c \in BookingIds : Tries(q, c) <=> Tries(req[r], c)
      BY <2>1 DEF Tries
    <2> QED
      BY <2>1, <2>2, <2>3, BoardGoesOn
  <1>3. CASE PickNobody(r) \/ CreateSession(r) \/ AssignRefused(r)
    BY <1>3, BoardGivesUp DEF PickNobody, CreateSession, AssignRefused, RollsBack
  <1>4. CASE AssignLockTutor(r) \/ AssignChecked(r)
    BY <1>4, BoardGoesToMove DEF AssignLockTutor, AssignChecked, At
  <1> QED
    BY <1>1, <1>2, <1>3, <1>4, BoardCommits DEF Creating

LEMMA BoardClaimingMove ==
  ASSUME BaseInv, TutorInv, BoardInv, NEW r \in Requests, Claiming(r)
  PROVE  Moves
  <1>1. CASE ClaimLockTutor(r) \/ ClaimChecked(r)
    BY <1>1, BoardGoesToMove DEF ClaimLockTutor, ClaimChecked, At
  <1>2. CASE ClaimOverlaps(r)
    BY <1>2, BoardGivesUp DEF ClaimOverlaps, RollsBack
  <1>3. CASE ClaimCommit(r)
    <2> DEFINE b == req[r].b
               t == req[r].t
    <2>1. Commits(req[r]) /\ req[r].op = "claim"
      BY <1>3 DEF ClaimCommit, At, Commits
    <2>2. b \in BookingIds /\ t \in Tutors /\ ~ Busy(t, b) /\ Exists(b) /\ ~ Claimed(b)
      BY <2>1, CheckedTutor DEF TutorInv, LockInv, Guarded, BoardInv, Placed
    <2>3. /\ req' = [req EXCEPT ![r] = Idle] /\ active' = active
          /\ booking' = [booking EXCEPT ![b] = Assigned(booking[b], t)]
      BY <1>3 DEF ClaimCommit, Ends
    <2>4. Pending' = Pending
      BY <2>1, <2>3, IdleRequest, PendingSame DEF Tries
    <2> HIDE DEF b, t
    <2>5. Board!Becomes(b, Board!Standing(b, t))
      BY <2>2, <2>3, BoardBecomes, ShownGiven
    <2>6. Board!Exists(b) /\ ~ Board!Busy(t, b)
      BY <2>2, BoardReads
    <2>7. Shown(booking[b]).tutor = None \/ Shown(booking[b]).offered
      BY <2>2 DEF Claimed, Shown
    <2>8. Board!Claim(b, t)
      BY <2>2, <2>3, <2>4, <2>5, <2>6, <2>7 DEF Board!Claim, Pending
    <2> QED
      BY <2>2, <2>8 DEF Moves, Board!Next
  <1> QED
    BY <1>1, <1>2, <1>3 DEF Claiming

LEMMA BoardReassigningMove ==
  ASSUME BaseInv, BoardInv, NEW r \in Requests, Reassigning(r)
  PROVE  Moves
  <1>1. CASE ReassignFind(r)
    <2> DEFINE q == [req[r] EXCEPT !.pc = "save", !.seen = HasSessions(req[r].b)]
    <2>1. q \in Request /\ q.op = "reassign" /\ req[r].op = "reassign"
      BY <1>1, Underway DEF Request, HasSessions, ReassignFind, At
    <2>2. req' = [req EXCEPT ![r] = q] /\ UNCHANGED <<booking, active>>
      BY <1>1 DEF ReassignFind, BaseInv, TypeOK
    <2> HIDE DEF q
    <2> QED
      BY <2>1, <2>2, BoardGoesOn DEF Tries
  <1>2. CASE ReassignUpdate(r) \/ ReassignCreate(r) \/ ReassignFails(r)
    BY <1>2, BoardGivesUp DEF ReassignUpdate, ReassignCreate, ReassignFails
  <1> QED
    BY <1>1, <1>2 DEF Reassigning

LEMMA BoardAllocatingMove ==
  ASSUME BaseInv, BoardInv, NEW r \in Requests, Allocating(r)
  PROVE  Moves
  <1>0. req[r] \in Request /\ IsAbout(req[r])
    BY Underway
  <1>1. ASSUME NEW q \in Request, q.op = "allocate", req[r].op = "allocate",
               req' = [req EXCEPT ![r] = q]
        PROVE  Pending' = Pending
    BY <1>1, PendingSame DEF Tries
  <1>2. ASSUME NEW b \in BookingIds, AllocateLooks(r, b)
        PROVE  Moves
    <2> DEFINE q == [req[r] EXCEPT !.b = b, !.pc = "assign"]
    <2>1. q \in Request /\ q.op = "allocate" /\ req[r].op = "allocate"
      BY <1>0, <1>2 DEF Request, AllocateLooks, At
    <2>2. req' = [req EXCEPT ![r] = q] /\ UNCHANGED <<booking, active>>
      BY <1>2 DEF AllocateLooks, BaseInv, TypeOK
    <2> HIDE DEF q
    <2> QED
      BY <1>1, <2>1, <2>2, BoardStays
  <1>3. ASSUME NEW b \in BookingIds, AllocateCreates(r, b)
        PROVE  Moves
    <2> DEFINE q == [req[r] EXCEPT !.b = b, !.pc = "save"]
    <2>1. q \in Request /\ q.op = "allocate" /\ req[r].op = "allocate"
      BY <1>0, <1>3 DEF Request, AllocateCreates, At
    <2>2. /\ req[r].t \in Tutors /\ booking[b].status = "absent" /\ active' = active
          /\ booking' = [booking EXCEPT ![b] = Chosen(booking[b], req[r].t, "admin")]
          /\ req' = [req EXCEPT ![r] = q]
      BY <1>0, <1>3 DEF AllocateCreates, At, IsAbout, BaseInv, TypeOK
    <2> HIDE DEF q
    <2> QED
      BY <1>1, <2>1, <2>2, BoardChosen
  <1>4. CASE AllocateAssigns(r)
    <2> DEFINE b == req[r].b
               q == [req[r] EXCEPT !.pc = "find"]
    <2>1. q \in Request /\ q.op = "allocate" /\ req[r].op = "allocate"
      BY <1>0, <1>4 DEF Request, AllocateAssigns, At
    <2>2. /\ b \in BookingIds /\ req[r].t \in Tutors /\ Exists(b) /\ active' = active
          /\ booking' = [booking EXCEPT ![b] = Chosen(booking[b], req[r].t, "admin")]
          /\ req' = [req EXCEPT ![r] = q]
      BY <1>0, <1>4 DEF AllocateAssigns, At, GoesTo, IsAbout, BaseInv, TypeOK
    <2> HIDE DEF q
    <2> QED
      BY <1>1, <2>1, <2>2, BoardChosen
  <1>5. CASE AllocateFinds(r)
    BY <1>5, BoardGivesUp, BoardGoesToMove DEF AllocateFinds, At
  <1>6. CASE AllocateMakes(r) \/ AllocateFails(r)
    BY <1>6, BoardGivesUp DEF AllocateMakes, AllocateFails
  <1> QED
    BY <1>2, <1>3, <1>4, <1>5, <1>6 DEF Allocating

\* Rows that stood are over, the others show what they showed.
LEMMA BoardCloses ==
  ASSUME BaseInv, active' = active, Pending' = Pending,
         \A b \in BookingIds :
            \/ booking'[b] = booking[b]
            \/ /\ Exists(b)
               /\ booking'[b].status \in {"cancelled", "expired", "archived"}
               /\ booking'[b].tutor = booking[b].tutor
               /\ booking'[b].fallback = booking[b].fallback
  PROVE  Moves
  <1> DEFINE bs == {b \in BookingIds : booking'[b] # booking[b]
                                          /\ Shown(booking[b]).state = "standing"}
  <1>1. ASSUME NEW b \in BookingIds
        PROVE  Shown(booking[b])' = IF b \in bs THEN [Shown(booking[b]) EXCEPT !.state = "over"]
                                    ELSE Shown(booking[b])
    <2>1. Shown(booking[b])' = Shown(booking'[b])
      BY DEF Shown, Stage
    <2>2. CASE booking'[b] = booking[b]
      BY <2>1, <2>2
    <2>3. CASE booking'[b] # booking[b]
      <3>1. /\ Exists(b) /\ booking[b] \in BookingRow
            /\ booking'[b].status \in {"cancelled", "expired", "archived"}
            /\ booking'[b].tutor = booking[b].tutor
            /\ booking'[b].fallback = booking[b].fallback
        BY <2>3 DEF BaseInv, TypeOK
      <3>2. Shown(booking'[b]) = [state |-> "over", tutor |-> booking[b].tutor,
                                  offered |-> booking[b].fallback]
        BY <3>1, Stages DEF Shown
      <3>3. Shown(booking[b]).state \in {"standing", "over"}
        BY <3>1, ShownFields DEF Exists
      <3>4. [Shown(booking[b]) EXCEPT !.state = "over"] =
               [state |-> "over", tutor |-> booking[b].tutor, offered |-> booking[b].fallback]
        BY DEF Shown
      <3>5. CASE b \in bs
        BY <2>1, <3>2, <3>4, <3>5
      <3>6. CASE b \notin bs
        <4>1. Stage(booking[b].status) = "over"
          BY <2>3, <3>3, <3>6 DEF Shown
        <4> QED
          BY <2>1, <3>2, <3>6, <4>1 DEF Shown
      <3> QED
        BY <3>5, <3>6
    <2> QED
      BY <2>2, <2>3
  <1>2. \A b \in bs : b \in BookingIds /\ Shown(booking[b]).state = "standing"
    OBVIOUS
  <1> HIDE DEF bs
  <1>3. Board!Close(bs) /\ bs \in SUBSET BookingIds
    BY <1>1, <1>2 DEF Board!Close, Pending
  <1> QED
    BY <1>3 DEF Moves, Board!Next

LEMMA OfferedShown ==
  ASSUME NEW s, NEW t, NEW o, NEW p
  PROVE  [[state |-> s, tutor |-> t, offered |-> o] EXCEPT !.offered = p] =
            [state |-> s, tutor |-> t, offered |-> p]
  OBVIOUS

LEMMA BoardFinishingMove ==
  ASSUME BaseInv, BoardInv, NEW r \in Requests,
         CancelCommit(r) \/ RemoveDeactivate(r) \/ FallbackMark(r) \/ DeadlockVictim(r)
  PROVE  Moves
  <1> DEFINE b == req[r].b
  <1>0. req[r] \in Request /\ IsAbout(req[r])
    BY Underway
  <1>1. ASSUME req[r].op # "create", Ends(r)
        PROVE  Pending' = Pending
    BY <1>1, IdleRequest, PendingSame DEF Ends, Tries
  <1>2. CASE CancelCommit(r) /\ Exists(b)
    <2>1. /\ b \in BookingIds /\ req[r].op = "cancel" /\ Ends(r) /\ active' = active
          /\ booking' = [booking EXCEPT ![b] = [booking[b] EXCEPT !.status = "cancelled"]]
      BY <1>0, <1>2 DEF CancelCommit, At, IsAbout
    <2>2. /\ booking'[b].status = "cancelled" /\ booking'[b].tutor = booking[b].tutor
          /\ booking'[b].fallback = booking[b].fallback
      BY <2>1 DEF BaseInv, TypeOK, BookingRow
    <2>3. \A c \in BookingIds : c # b => booking'[c] = booking[c]
      BY <2>1 DEF BaseInv, TypeOK
    <2> QED
      BY <1>1, <1>2, <2>1, <2>2, <2>3, BoardCloses
  <1>3. CASE (CancelCommit(r) /\ ~ Exists(b)) \/ DeadlockVictim(r)
    BY <1>3, BoardGivesUp DEF CancelCommit, DeadlockVictim, RollsBack
  <1>4. CASE RemoveDeactivate(r)
    <2>1. req[r].op = "remove" /\ req[r].t \in Tutors /\ Ends(r)
      BY <1>0, <1>4 DEF RemoveDeactivate, At, IsAbout
    <2>2. /\ active' = [active EXCEPT ![req[r].t] = FALSE]
          /\ \A c \in BookingIds : Shown(booking[c])' = Shown(booking[c])
      BY <1>4 DEF RemoveDeactivate
    <2>3. Pending' = Pending
      BY <1>1, <2>1
    <2>4. Board!Dismiss(req[r].t)
      BY <2>2, <2>3 DEF Board!Dismiss, Pending
    <2> QED
      BY <2>1, <2>4 DEF Moves, Board!Next
  <1>5. CASE FallbackMark(r)
    <2> DEFINE row == [booking[b] EXCEPT !.fallback = Exists(b)]
    <2>1. /\ b \in BookingIds /\ req[r].op = "fallback" /\ Ends(r) /\ active' = active
          /\ booking' = [booking EXCEPT ![b] = row]
      BY <1>0, <1>5 DEF FallbackMark, At, IsAbout
    <2>2. Pending' = Pending
      BY <1>1, <2>1
    <2>3. /\ row.status = booking[b].status /\ row.tutor = booking[b].tutor
          /\ row.fallback = Exists(b) /\ booking[b] \in BookingRow
      BY <2>1, Underway DEF BookingRow
    <2> HIDE DEF row
    <2>4. Board!Becomes(b, Shown(row))
      BY <2>1, BoardBecomes
    <2>5. CASE Exists(b)
      <3>1. Shown(row) = [Shown(booking[b]) EXCEPT !.offered = TRUE]
        <4>1. Exists(b) = TRUE
          BY <2>5 DEF Exists
        <4>2. [Shown(booking[b]) EXCEPT !.offered = TRUE] =
                 [state |-> Stage(booking[b].status), tutor |-> booking[b].tutor,
                  offered |-> TRUE]
          BY OfferedShown DEF Shown
        <4> QED
          BY <2>3, <4>1, <4>2 DEF Shown
      <3>2. Board!Offer(b)
        BY <2>1, <2>2, <2>4, <2>5, <3>1, BoardReads DEF Board!Offer, Pending
      <3> QED
        BY <2>1, <3>2 DEF Moves, Board!Next
    <2>6. CASE ~ Exists(b)
      <3>1. booking[b].fallback = FALSE /\ Exists(b) = FALSE
        BY <2>1, <2>6, AbsentRows DEF BoardInv, Exists
      <3>2. Shown(row) = Shown(booking[b])
        BY <2>3, <3>1 DEF Shown
      <3>3. \A c \in BookingIds : booking'[c] = IF c = b THEN row ELSE booking[c]
        BY <2>1 DEF BaseInv, TypeOK
      <3>4. \A c \in BookingIds : Shown(booking[c])' = Shown(booking[c])
        BY <3>2, <3>3 DEF Shown, Stage
      <3> QED
        BY <2>1, <2>2, <3>4 DEF Moves, Board!boardVars, Pending
    <2> QED
      BY <2>5, <2>6
  <1> QED
    BY <1>2, <1>3, <1>4, <1>5

LEMMA BoardJobsMove ==
  ASSUME BaseInv, BoardInv, Jobs
  PROVE  Moves
  <1>1. PICK which \in SUBSET BookingIds, status \in {"expired", "archived"} :
           UpdateMany(which, status) /\ \A b \in which : Exists(b)
    BY JobRows
  <1>2. Pending' = Pending /\ active' = active
    BY JobRows DEF Pending, Tries
  <1>3. \A b \in which : booking'[b].fallback = booking[b].fallback
    BY <1>1 DEF UpdateMany, BaseInv, TypeOK, BookingRow
  <1> QED
    BY <1>1, <1>2, <1>3, UpdatedRows, BoardCloses

LEMMA AssignmentsInit == Init => Board!Init
  <1> SUFFICES ASSUME Init PROVE Board!Init
    OBVIOUS
  <1>1. \A b \in BookingIds : Shown(booking[b]) = Board!Absent
    BY ShownAbsent DEF Init
  <1>2. Pending = {}
    BY IdleRequest DEF Init, Pending, Tries
  <1> QED
    BY <1>1, <1>2 DEF Init, Board!Init, Pending

LEMMA AssignmentsStep ==
  BaseInv /\ TutorInv /\ BoardInv /\ [Next]_vars => [Board!Next]_(Board!boardVars)
  <1> SUFFICES ASSUME BaseInv, TutorInv, BoardInv, [Next]_vars PROVE Moves
    BY DEF Moves
  <1>1. ASSUME NEW r \in Requests, Continuing(r)
        PROVE  Moves
    BY <1>1, BoardCreatingMove, BoardClaimingMove, BoardReassigningMove, BoardAllocatingMove,
       BoardFinishingMove DEF Continuing
  <1>2. ASSUME NEW r \in Requests, RequestFails(r)
        PROVE  Moves
    BY <1>2, BoardGivesUp DEF RequestFails, RollsBack
  <1>3. CASE UNCHANGED <<booking, active, req>>
    <2>1. Pending' = Pending
      BY <1>3 DEF Pending, Tries
    <2> QED
      BY <1>3, <2>1, BoardStays
  <1>4. CASE Tick \/ UNCHANGED vars \/ \E b \in BookingIds : TutorJoins(b)
    BY <1>3, <1>4 DEF Tick, vars, TutorJoins
  <1> QED
    BY <1>1, <1>2, <1>4, BoardStartingMove, BoardJobsMove DEF Next

\* Whatever requests, locks, jobs, failures and deadlocks do in between, a booking
\* is given to its tutor in one step of the board: automatically once, to somebody
\* active and free; by a claim, to somebody free while it had no tutor or was
\* offered; or by an admin.
THEOREM ImplementsAssignments == Spec => AssignmentsSpec
  BY BaseInit, BaseNext, TutorInit, TutorNext, BoardInit, BoardNext, AssignmentsInit,
     AssignmentsStep, PTL DEF Spec, AssignmentsSpec, Board!Spec

=============================================================================
