--------------------------- MODULE SessionsProofs ---------------------------
(***************************************************************************)
(* Proofs about Sessions, for any number of calls, sessions and weeks: the *)
(* hours of a session are counted once, a completed session is counted,    *)
(* and a streak is earned.                                                 *)
(*                                                                         *)
(* HoursOnce is not inductive by itself: HoursInv adds the calls that have *)
(* completed a session and not yet counted it.  StreakEarned rests on      *)
(* PendingStreak, which says it of what updateStreak is about to write.    *)
(***************************************************************************)
EXTENDS Sessions, FiniteSetTheorems, TLAPS

\* The calls that have still to count the hours of s.
Owing(s) == {c \in Workers : call[c].pc = "hours" /\ call[c].s = s}

Done(s) == IF session[s] = "completed" THEN 1 ELSE 0

-----------------------------------------------------------------------------
(* The inductive invariant *)

\* Hours counted or owed are paid for by a completion that stands or was undone.
HoursInv ==
    \A s \in SessionIds :
        tally[s].counted + Cardinality(Owing(s)) <= tally[s].reopened + Done(s)

\* 'completed' is written by the writes that look at the status alone.
SetInv == \A c \in Workers : call[c].op \in {"set", "join"} => call[c].set # "completed"

\* What updateStreak has read and not yet written is earned.
Earned(last, weeks) == \A w \in 1..last : last - weeks < w => w \in lessonWeeks

PendingStreak ==
    \A c \in Workers :
        call[c].pc = "streakWrite" => Earned(call[c].weekRead, call[c].streakRead)

IInv == /\ SessionsTypeOK /\ SetInv /\ HoursInv /\ CompletedIsCounted
        /\ StreakEarned /\ PendingStreak

\* The variables that only have their type.
OthersOK ==
    /\ parent \in {"confirmed", "completed", "cancelled"}
    /\ hour \in {"before", "after", "late"}
    /\ week \in 1..LastWeek
    /\ reverts \in 0..MaxReverts
    /\ callFaults \in 0..MaxCallFaults

RowsOK ==
    /\ session \in [SessionIds -> SessionStatus]
    /\ streak \in [weeks: Nat, last: Nat]
    /\ tally \in [SessionIds -> Tally]
    /\ lessonWeeks \subseteq 1..LastWeek

CallsOK == call \in [Workers -> Call]

LEMMA Types == SessionsTypeOK <=> OthersOK /\ RowsOK /\ CallsOK
  BY DEF SessionsTypeOK, OthersOK, RowsOK, CallsOK

LEMMA IdleCall ==
  /\ NoCall \in Call /\ NoCall.pc = "idle" /\ NoCall.op = "idle"
  BY DEF NoCall, Call, SessionStatus

LEMMA WorkersFinite == IsFiniteSet(Workers)
  BY SessionsAssumption, FS_AddElement DEF Workers

LEMMA OwingFinite ==
  ASSUME NEW s
  PROVE  IsFiniteSet(Owing(s)) /\ Cardinality(Owing(s)) \in Nat
  BY WorkersFinite, FS_Subset, FS_CardinalityType DEF Owing

LEMMA OwingFiniteNext ==
  ASSUME NEW s
  PROVE  IsFiniteSet(Owing(s)') /\ Cardinality(Owing(s)') \in Nat
  BY WorkersFinite, FS_Subset, FS_CardinalityType DEF Owing

\* One call changes.
LEMMA OneCall ==
  ASSUME CallsOK, NEW c \in Workers, NEW rec \in Call, call' = [call EXCEPT ![c] = rec]
  PROVE  /\ CallsOK'
         /\ \A e \in Workers : call'[e] = IF e = c THEN rec ELSE call[e]
  BY DEF CallsOK

\* It goes to another place.
LEMMA Goes ==
  ASSUME NEW k \in Call,
         NEW p \in {"idle", "create", "write", "hours", "booking", "streak", "streakWrite"}
  PROVE  LET rec == [k EXCEPT !.pc = p]
         IN  /\ rec \in Call /\ rec.pc = p /\ rec.op = k.op /\ rec.s = k.s
             /\ rec.set = k.set
  BY DEF Call

-----------------------------------------------------------------------------
(* What a step leaves alone *)

LEMMA StreaksStay ==
  ASSUME StreakEarned, PendingStreak, streak' = streak, lessonWeeks \subseteq lessonWeeks',
         \A c \in Workers : call'[c].pc = "streakWrite"
             => /\ call[c].pc = "streakWrite"
                /\ call'[c].weekRead = call[c].weekRead
                /\ call'[c].streakRead = call[c].streakRead
  PROVE  StreakEarned' /\ PendingStreak'
  BY DEF StreakEarned, PendingStreak, Earned

\* Hours neither become owed nor are counted.
LEMMA OwingStays ==
  ASSUME \A c \in Workers : /\ call'[c].pc = "hours" <=> call[c].pc = "hours"
                            /\ call[c].pc = "hours" => call'[c].s = call[c].s
  PROVE  \A s : Owing(s)' = Owing(s)
  BY DEF Owing

LEMMA HoursStay ==
  ASSUME HoursInv, CompletedIsCounted, UNCHANGED <<session, tally>>,
         \A c \in Workers : /\ call'[c].pc = "hours" <=> call[c].pc = "hours"
                            /\ call[c].pc = "hours" => call'[c].s = call[c].s
  PROVE  HoursInv' /\ CompletedIsCounted'
  <1>1. \A s : Owing(s)' = Owing(s)
    BY OwingStays
  <1>2. HoursInv'
    BY <1>1 DEF HoursInv, Done
  <1>3. CompletedIsCounted'
    BY DEF CompletedIsCounted, CompletionOwed
  <1> QED
    BY <1>2, <1>3

\* A step of one call that is before or behind the counting of hours.
LEMMA InvQuiet ==
  ASSUME IInv, NEW c \in Workers, NEW rec \in Call, call' = [call EXCEPT ![c] = rec],
         UNCHANGED <<session, tally, streak>>, OthersOK',
         lessonWeeks \subseteq lessonWeeks', lessonWeeks' \subseteq 1..LastWeek,
         call[c].pc # "hours", rec.pc \notin {"hours", "streakWrite"},
         rec.op \in {"set", "join"} => rec.set # "completed"
  PROVE  IInv'
  <1>1. /\ CallsOK'
        /\ \A e \in Workers : call'[e] = IF e = c THEN rec ELSE call[e]
    BY OneCall, Types DEF IInv
  <1>2. SessionsTypeOK'
    <2>1. RowsOK'
      BY Types DEF IInv, RowsOK
    <2> QED
      BY <1>1, <2>1 DEF SessionsTypeOK, OthersOK, RowsOK, CallsOK
  <1>3. SetInv'
    BY <1>1 DEF IInv, SetInv
  <1>4. HoursInv' /\ CompletedIsCounted'
    BY <1>1, HoursStay DEF IInv
  <1>5. StreakEarned' /\ PendingStreak'
    BY <1>1, StreaksStay DEF IInv
  <1> QED
    BY <1>2, <1>3, <1>4, <1>5 DEF IInv

LEMMA InvInit == SessionsInit => IInv
  <1> SUFFICES ASSUME SessionsInit PROVE IInv
    OBVIOUS
  <1>1. /\ call = [c \in Workers |-> NoCall] /\ lessonWeeks = {}
        /\ streak = [weeks |-> 0, last |-> 0]
        /\ tally = [s \in SessionIds |-> [reopened |-> 0, counted |-> 0,
                                          repaired |-> FALSE, dropped |-> FALSE]]
    BY DEF SessionsInit
  <1>2. PICK first \in {"absent", "scheduled"} :
            session = [s \in SessionIds |-> IF s = 1 THEN first ELSE "absent"]
    BY DEF SessionsInit
  <1>3. session \in [SessionIds -> SessionStatus]
        /\ \A s \in SessionIds : session[s] # "completed"
    BY <1>2 DEF SessionStatus
  <1>4. [reopened |-> 0, counted |-> 0, repaired |-> FALSE, dropped |-> FALSE] \in Tally
    BY SMT DEF Tally
  <1>5. SessionsTypeOK
    <2>1. OthersOK
      BY DEF SessionsInit, OthersOK
    <2>2. RowsOK
      BY <1>1, <1>3, <1>4 DEF RowsOK
    <2>3. CallsOK
      BY <1>1, IdleCall DEF CallsOK
    <2> QED
      BY <2>1, <2>2, <2>3, Types
  <1>6. \A c \in Workers : call[c].pc = "idle" /\ call[c].op = "idle"
    BY <1>1, IdleCall
  <1>7. SetInv
    BY <1>6 DEF SetInv
  <1>8. HoursInv
    <2>1. \A s \in SessionIds : Owing(s) = {}
      BY <1>6 DEF Owing
    <2>2. \A s \in SessionIds : tally[s].counted = 0 /\ tally[s].reopened = 0
      BY <1>1
    <2> QED
      BY <2>1, <2>2, FS_EmptySet DEF HoursInv, Done
  <1>9. CompletedIsCounted
    BY <1>3 DEF CompletedIsCounted
  <1>10. StreakEarned /\ PendingStreak
    BY <1>1, <1>6 DEF StreakEarned, PendingStreak
  <1> QED
    BY <1>5, <1>7, <1>8, <1>9, <1>10 DEF IInv

-----------------------------------------------------------------------------
(* The writes of a status *)

\* A write that takes away 'completed' undoes the completion that paid for the
\* hours, and tally remembers it.
LEMMA OverwrittenRows ==
  ASSUME RowsOK, NEW ids, NEW status \in SessionStatus, Overwritten(ids, status)
  PROVE  /\ session' \in [SessionIds -> SessionStatus]
         /\ tally' \in [SessionIds -> Tally]
         /\ \A s \in SessionIds :
              /\ session'[s] = IF s \in ids THEN status ELSE session[s]
              /\ tally'[s].counted = tally[s].counted
              /\ tally'[s].repaired = tally[s].repaired
              /\ tally'[s].dropped = tally[s].dropped
              /\ tally'[s].reopened =
                    IF s \in ids /\ session[s] = "completed" /\ status # "completed"
                    THEN tally[s].reopened + 1 ELSE tally[s].reopened
  <1>1. \A s \in SessionIds : tally[s] \in Tally
    BY DEF RowsOK
  <1>2. \A k \in Tally : LET n == [k EXCEPT !.reopened = @ + 1]
                        IN  /\ n \in Tally /\ n.reopened = k.reopened + 1
                            /\ n.counted = k.counted /\ n.repaired = k.repaired
                            /\ n.dropped = k.dropped
    BY DEF Tally
  <1> QED
    BY <1>1, <1>2 DEF RowsOK, Overwritten

\* WriteStatus and CancelWrites.
LEMMA InvOverwrites ==
  ASSUME IInv, NEW c \in Workers, NEW ids, NEW status \in SessionStatus,
         status # "completed", Overwritten(ids, status),
         call[c].pc = "write", call' = [call EXCEPT ![c] = NoCall],
         UNCHANGED <<streak, lessonWeeks>>, OthersOK'
  PROVE  IInv'
  <1>1. /\ CallsOK'
        /\ \A e \in Workers : call'[e] = IF e = c THEN NoCall ELSE call[e]
    BY OneCall, IdleCall, Types DEF IInv
  <1>2. RowsOK /\ \A s \in SessionIds : tally[s] \in Tally
    BY Types DEF IInv, RowsOK
  <1>3. SessionsTypeOK'
    <2>1. RowsOK'
      BY <1>2, OverwrittenRows DEF RowsOK
    <2> QED
      BY <1>1, <2>1 DEF SessionsTypeOK, OthersOK, RowsOK, CallsOK
  <1>4. SetInv'
    BY <1>1, IdleCall DEF IInv, SetInv
  <1>5. \A s : Owing(s)' = Owing(s)
    BY <1>1, IdleCall, OwingStays
  <1>6. HoursInv'
    <2> SUFFICES ASSUME NEW s \in SessionIds
                 PROVE  tally'[s].counted + Cardinality(Owing(s)')
                          <= tally'[s].reopened + Done(s)'
      BY DEF HoursInv
    <2>1. tally[s].counted + Cardinality(Owing(s)) <= tally[s].reopened + Done(s)
      BY DEF IInv, HoursInv
    <2>2. /\ tally[s].counted \in Nat /\ tally[s].reopened \in Nat
          /\ Cardinality(Owing(s)) \in Nat
      BY <1>2, OwingFinite DEF Tally
    <2> QED
      BY <1>2, <1>5, <2>1, <2>2, OverwrittenRows DEF Done
  <1>7. CompletedIsCounted'
    <2> SUFFICES ASSUME NEW s \in SessionIds, session'[s] = "completed"
                 PROVE  \/ tally'[s].counted > 0 \/ CompletionOwed(s)'
                        \/ tally'[s].repaired \/ tally'[s].dropped
      BY DEF CompletedIsCounted
    <2>1. session[s] = "completed"
      BY <1>2, OverwrittenRows
    <2>2. \/ tally[s].counted > 0 \/ CompletionOwed(s)
          \/ tally[s].repaired \/ tally[s].dropped
      BY <2>1 DEF IInv, CompletedIsCounted
    <2>3. CompletionOwed(s) => CompletionOwed(s)'
      BY <1>1 DEF CompletionOwed
    <2> QED
      BY <1>2, <2>2, <2>3, OverwrittenRows
  <1>8. StreakEarned' /\ PendingStreak'
    BY <1>1, IdleCall, StreaksStay DEF IInv
  <1> QED
    BY <1>3, <1>4, <1>6, <1>7, <1>8 DEF IInv

\* updateMany where the status is not 'completed', or 'in_progress': the call that
\* wins owes the hours.
LEMMA InvCompletes ==
  ASSUME IInv, NEW c \in Workers, NEW s \in SessionIds, NEW rec \in Call,
         call' = [call EXCEPT ![c] = rec], call[c].pc = "write",
         rec.pc = "hours", rec.s = s, rec.op \notin {"set", "join"},
         session[s] # "completed", Completes(s)
  PROVE  IInv'
  <1>1. /\ CallsOK'
        /\ \A e \in Workers : call'[e] = IF e = c THEN rec ELSE call[e]
    BY OneCall, Types DEF IInv
  <1>2. RowsOK /\ OthersOK /\ \A t \in SessionIds : tally[t] \in Tally
    BY Types DEF IInv, RowsOK
  <1>3. /\ session' = [session EXCEPT ![s] = "completed"]
        /\ UNCHANGED <<parent, hour, week, streak, tally, lessonWeeks, reverts, callFaults>>
    BY DEF Completes, clock
  <1>4. /\ session' \in [SessionIds -> SessionStatus]
        /\ \A t \in SessionIds : session'[t] = IF t = s THEN "completed" ELSE session[t]
    BY <1>2, <1>3 DEF RowsOK, SessionStatus
  <1>5. SessionsTypeOK'
    <2>1. RowsOK' /\ OthersOK'
      BY <1>2, <1>3, <1>4 DEF RowsOK, OthersOK
    <2> QED
      BY <1>1, <2>1 DEF SessionsTypeOK, OthersOK, RowsOK, CallsOK
  <1>6. SetInv'
    BY <1>1 DEF IInv, SetInv
  <1>7. /\ Owing(s)' = Owing(s) \union {c} /\ c \notin Owing(s)
        /\ \A t \in SessionIds \ {s} : Owing(t)' = Owing(t)
    BY <1>1 DEF Owing
  <1>8. HoursInv'
    <2> SUFFICES ASSUME NEW t \in SessionIds
                 PROVE  tally'[t].counted + Cardinality(Owing(t)')
                          <= tally'[t].reopened + Done(t)'
      BY DEF HoursInv
    <2>1. tally[t].counted + Cardinality(Owing(t)) <= tally[t].reopened + Done(t)
      BY DEF IInv, HoursInv
    <2>2. /\ tally[t].counted \in Nat /\ tally[t].reopened \in Nat
          /\ Cardinality(Owing(t)) \in Nat /\ IsFiniteSet(Owing(t))
      BY <1>2, OwingFinite DEF Tally
    <2>3. CASE t = s
      <3>1. Cardinality(Owing(s)') = Cardinality(Owing(s)) + 1
        <4>1. IsFiniteSet(Owing(s))
          BY <2>2, <2>3
        <4>2. Cardinality(Owing(s) \union {c}) = Cardinality(Owing(s)) + 1
          BY <1>7, <4>1, FS_AddElement
        <4> QED
          BY <1>7, <4>2
      <3>2. Done(s) = 0 /\ Done(s)' = 1
        BY <1>4 DEF Done
      <3> QED
        BY <1>3, <2>1, <2>2, <2>3, <3>1, <3>2
    <2>4. CASE t # s
      <3>1. Cardinality(Owing(t)') = Cardinality(Owing(t)) /\ Done(t)' = Done(t)
        BY <1>4, <1>7, <2>4 DEF Done
      <3> QED
        BY <1>3, <2>1, <3>1
    <2> QED
      BY <2>3, <2>4
  <1>9. CompletedIsCounted'
    <2>1. CompletionOwed(s)'
      BY <1>1 DEF CompletionOwed
    <2>2. \A t \in SessionIds : CompletionOwed(t) => CompletionOwed(t)'
      BY <1>1 DEF CompletionOwed
    <2> QED
      BY <1>3, <1>4, <2>1, <2>2 DEF IInv, CompletedIsCounted
  <1>10. StreakEarned' /\ PendingStreak'
    BY <1>1, <1>3, StreaksStay DEF IInv
  <1> QED
    BY <1>5, <1>6, <1>8, <1>9, <1>10 DEF IInv

\* A call without a session completes nothing and owes the hours of none.
LEMMA InvNoSession ==
  ASSUME IInv, NEW c \in Workers, NEW s, s \notin SessionIds, NEW rec \in Call,
         call' = [call EXCEPT ![c] = rec], call[c].pc = "write",
         rec.pc = "hours", rec.s = s, rec.op \notin {"set", "join"}, Completes(s)
  PROVE  IInv'
  <1>1. /\ CallsOK'
        /\ \A e \in Workers : call'[e] = IF e = c THEN rec ELSE call[e]
    BY OneCall, Types DEF IInv
  <1>2. /\ session' = session
        /\ UNCHANGED <<parent, hour, week, streak, tally, lessonWeeks, reverts, callFaults>>
    BY Types DEF Completes, clock, IInv, RowsOK
  <1>3. SessionsTypeOK'
    BY <1>1, <1>2, Types DEF IInv, SessionsTypeOK, RowsOK, OthersOK, CallsOK
  <1>4. SetInv'
    BY <1>1 DEF IInv, SetInv
  <1>5. \A t \in SessionIds : Owing(t)' = Owing(t)
    BY <1>1 DEF Owing
  <1>6. HoursInv'
    BY <1>2, <1>5 DEF IInv, HoursInv, Done
  <1>7. CompletedIsCounted'
    BY <1>1, <1>2 DEF IInv, CompletedIsCounted, CompletionOwed
  <1>8. StreakEarned' /\ PendingStreak'
    BY <1>1, <1>2, StreaksStay DEF IInv
  <1> QED
    BY <1>3, <1>4, <1>6, <1>7, <1>8 DEF IInv

-----------------------------------------------------------------------------
(* handleSessionCompletion *)

\* One column of the history of one session.
LEMMA TallyRows ==
  ASSUME RowsOK, NEW s \in SessionIds
  PROVE  /\ LET k == [tally[s] EXCEPT !.counted = @ + 1]
            IN  /\ k \in Tally /\ k.counted = tally[s].counted + 1
                /\ k.reopened = tally[s].reopened
         /\ LET k == [tally[s] EXCEPT !.dropped = TRUE]
            IN  /\ k \in Tally /\ k.dropped /\ k.counted = tally[s].counted
                /\ k.reopened = tally[s].reopened /\ k.repaired = tally[s].repaired
         /\ LET k == [tally[s] EXCEPT !.repaired = TRUE]
            IN  /\ k \in Tally /\ k.repaired /\ k.counted = tally[s].counted
                /\ k.reopened = tally[s].reopened
  <1>1. tally[s] \in Tally
    BY DEF RowsOK
  <1>2. LET k == [tally[s] EXCEPT !.counted = @ + 1]
        IN  /\ k \in Tally /\ k.counted = tally[s].counted + 1
            /\ k.reopened = tally[s].reopened
    BY <1>1 DEF Tally
  <1>3. LET k == [tally[s] EXCEPT !.dropped = TRUE]
        IN  /\ k \in Tally /\ k.dropped /\ k.counted = tally[s].counted
            /\ k.reopened = tally[s].reopened /\ k.repaired = tally[s].repaired
    BY <1>1 DEF Tally
  <1>4. LET k == [tally[s] EXCEPT !.repaired = TRUE]
        IN  /\ k \in Tally /\ k.repaired /\ k.counted = tally[s].counted
            /\ k.reopened = tally[s].reopened
    BY <1>1 DEF Tally
  <1> QED
    BY <1>2, <1>3, <1>4

\* The hours that were owed are counted.
LEMMA InvAddHours ==
  ASSUME IInv, NEW c \in Workers, AddHours(c)
  PROVE  IInv'
  <1> DEFINE rec == [call[c] EXCEPT !.pc = "booking"]
             mine == call[c].s
  <1>1. RowsOK /\ OthersOK /\ CallsOK /\ call[c] \in Call
    BY Types DEF IInv, CallsOK
  <1>2. rec \in Call /\ rec.pc = "booking" /\ rec.op = call[c].op /\ rec.set = call[c].set
    BY <1>1, Goes
  <1>3. /\ call[c].pc = "hours" /\ call' = [call EXCEPT ![c] = rec]
        /\ tally' = [tally EXCEPT ![mine].counted = @ + 1]
        /\ UNCHANGED <<session, parent, hour, week, streak, lessonWeeks, reverts,
                        callFaults>>
    BY DEF AddHours, CallGoesTo, clock
  <1> HIDE DEF rec, mine
  <1>4. /\ CallsOK'
        /\ \A e \in Workers : call'[e] = IF e = c THEN rec ELSE call[e]
    BY <1>1, <1>2, <1>3, OneCall
  <1>5. /\ tally' \in [SessionIds -> Tally]
        /\ \A t \in SessionIds :
              IF t = mine THEN /\ tally'[t].counted = tally[t].counted + 1
                               /\ tally'[t].reopened = tally[t].reopened
              ELSE tally'[t] = tally[t]
    BY <1>1, <1>3, TallyRows DEF RowsOK
  <1>6. SessionsTypeOK'
    <2>1. RowsOK' /\ OthersOK'
      BY <1>1, <1>3, <1>5 DEF RowsOK, OthersOK
    <2> QED
      BY <1>4, <2>1 DEF SessionsTypeOK, OthersOK, RowsOK, CallsOK
  <1>7. SetInv'
    BY <1>2, <1>4 DEF IInv, SetInv
  <1>8. \A t \in SessionIds : IF t = mine THEN Owing(t)' = Owing(t) \ {c} /\ c \in Owing(t)
                             ELSE Owing(t)' = Owing(t)
    BY <1>2, <1>3, <1>4 DEF Owing, mine
  <1>9. HoursInv'
    <2> SUFFICES ASSUME NEW t \in SessionIds
                 PROVE  tally'[t].counted + Cardinality(Owing(t)')
                          <= tally'[t].reopened + Done(t)'
      BY DEF HoursInv
    <2>1. /\ tally[t].counted + Cardinality(Owing(t)) <= tally[t].reopened + Done(t)
          /\ Done(t)' = Done(t)
      BY <1>3 DEF IInv, HoursInv, Done
    <2>2. /\ tally[t].counted \in Nat /\ tally[t].reopened \in Nat
          /\ Cardinality(Owing(t)) \in Nat /\ IsFiniteSet(Owing(t))
      BY <1>1, OwingFinite DEF RowsOK, Tally
    <2>3. CASE t = mine
      <3>1. Cardinality(Owing(t) \ {c}) = Cardinality(Owing(t)) - 1
        BY <1>8, <2>2, <2>3, FS_RemoveElement
      <3>2. Cardinality(Owing(t)') = Cardinality(Owing(t)) - 1
        BY <1>8, <2>3, <3>1
      <3>3. Done(t) \in Nat
        BY DEF Done
      <3> QED
        BY <1>5, <2>1, <2>2, <2>3, <3>2, <3>3
    <2>4. CASE t # mine
      BY <1>5, <1>8, <2>1, <2>4
    <2> QED
      BY <2>3, <2>4
  <1>10. CompletedIsCounted'
    <2> SUFFICES ASSUME NEW t \in SessionIds, session'[t] = "completed"
                 PROVE  \/ tally'[t].counted > 0 \/ CompletionOwed(t)'
                        \/ tally'[t].repaired \/ tally'[t].dropped
      BY DEF CompletedIsCounted
    <2>1. CASE t = mine
      BY <1>1, <1>5, <2>1 DEF RowsOK, Tally
    <2>2. CASE t # mine
      <3>1. tally'[t] = tally[t]
        BY <1>5, <2>2
      <3>2. CompletionOwed(t) => CompletionOwed(t)'
        BY <1>4, <2>2 DEF CompletionOwed, mine
      <3> QED
        BY <1>3, <3>1, <3>2 DEF IInv, CompletedIsCounted
    <2> QED
      BY <2>1, <2>2
  <1>11. StreakEarned' /\ PendingStreak'
    BY <1>2, <1>3, <1>4, StreaksStay DEF IInv
  <1> QED
    BY <1>6, <1>7, <1>9, <1>10, <1>11 DEF IInv

\* What a call is when it is through.
LEMMA SettledCall ==
  ASSUME CallsOK, NEW c \in Workers
  PROVE  /\ Settled(c) \in Call /\ Settled(c).pc \in {"idle", "write"}
         /\ Settled(c).op \in {"idle", "sweep"}
  <1>1. call[c].todo \in SUBSET SessionIds
    BY DEF CallsOK, Call
  <1>2. ASSUME NEW todo \in SUBSET SessionIds
        PROVE  LET rec == [NoCall EXCEPT !.op = "sweep", !.pc = "write", !.todo = todo]
               IN  rec \in Call /\ rec.pc = "write" /\ rec.op = "sweep"
    BY IdleCall DEF Call
  <1> QED
    BY <1>1, <1>2, IdleCall DEF Settled

\* updateStreak reads: the week has its lesson, and what will be written is earned.
LEMMA InvStreakRead ==
  ASSUME IInv, NEW c \in Workers, StreakRead(c)
  PROVE  IInv'
  <1>1. RowsOK /\ OthersOK /\ CallsOK /\ call[c] \in Call
    BY Types DEF IInv, CallsOK
  <1>2. /\ call[c].pc = "streak" /\ lessonWeeks' = lessonWeeks \union {week}
        /\ UNCHANGED <<session, tally, streak, parent, hour, week, reverts, callFaults>>
    BY DEF StreakRead, clock
  <1>3. /\ OthersOK' /\ lessonWeeks' \subseteq 1..LastWeek
        /\ lessonWeeks \subseteq lessonWeeks'
    BY <1>1, <1>2 DEF OthersOK, RowsOK
  <1>4. CASE streak.last = week
    <2>1. call' = [call EXCEPT ![c] = Settled(c)]
      BY <1>4 DEF StreakRead
    <2> QED
      BY <1>1, <1>2, <1>3, <2>1, SettledCall, InvQuiet
  <1>5. CASE streak.last # week
    <2> DEFINE rec == [call[c] EXCEPT !.pc = "streakWrite", !.weekRead = week,
                                      !.streakRead = NextStreak(streak)]
    <2>1. call' = [call EXCEPT ![c] = rec]
      BY <1>1, <1>5 DEF StreakRead, CallsOK
    <2>2. /\ streak.weeks \in Nat /\ streak.last \in Nat /\ week \in Nat /\ week > 0
          /\ NextStreak(streak) \in Nat
      BY <1>1, SessionsAssumption DEF RowsOK, OthersOK, NextStreak
    <2>3. /\ rec \in Call /\ rec.pc = "streakWrite" /\ rec.op = call[c].op
          /\ rec.set = call[c].set /\ rec.weekRead = week
          /\ rec.streakRead = NextStreak(streak)
      BY <1>1, <2>2 DEF Call
    <2> HIDE DEF rec
    <2>4. /\ CallsOK'
          /\ \A e \in Workers : call'[e] = IF e = c THEN rec ELSE call[e]
      BY <1>1, <2>1, <2>3, OneCall
    <2>5. SessionsTypeOK'
      <3>1. RowsOK'
        BY <1>1, <1>2, <1>3 DEF RowsOK
      <3> QED
        BY <1>3, <2>4, <3>1 DEF SessionsTypeOK, OthersOK, RowsOK, CallsOK
    <2>6. SetInv'
      BY <2>3, <2>4 DEF IInv, SetInv
    <2>7. HoursInv' /\ CompletedIsCounted'
      BY <1>2, <2>3, <2>4, HoursStay DEF IInv
    <2>8. StreakEarned'
      BY <1>2, <1>3 DEF IInv, StreakEarned
    <2>9. PendingStreak'
      <3> SUFFICES ASSUME NEW e \in Workers, call'[e].pc = "streakWrite",
                          NEW w \in 1..call'[e].weekRead,
                          call'[e].weekRead - call'[e].streakRead < w
                   PROVE  w \in lessonWeeks'
        BY DEF PendingStreak, Earned
      <3>1. CASE e # c
        BY <1>3, <2>4, <3>1 DEF IInv, PendingStreak, Earned
      <3>2. CASE e = c
        <4>1. w \in 1..week /\ week - NextStreak(streak) < w
          BY <2>3, <2>4, <3>2
        <4>2. CASE w = week
          BY <1>2, <4>2
        <4>3. CASE w # week
          <5>1. w <= week - 1 /\ w >= 1 /\ w \in Nat
            BY <2>2, <4>1, <4>3
          <5>2. streak.last = week - 1
            BY <2>2, <4>1, <5>1 DEF NextStreak
          <5>3. w \in 1..streak.last /\ streak.last - streak.weeks < w
            BY <2>2, <4>1, <5>1, <5>2 DEF NextStreak
          <5> QED
            BY <1>3, <5>3 DEF IInv, StreakEarned
        <4> QED
          BY <4>2, <4>3
      <3> QED
        BY <3>1, <3>2
    <2> QED
      BY <2>5, <2>6, <2>7, <2>8, <2>9 DEF IInv
  <1> QED
    BY <1>4, <1>5

\* ... and writes it.
LEMMA InvStreakWrite ==
  ASSUME IInv, NEW c \in Workers, StreakWrite(c)
  PROVE  IInv'
  <1>1. RowsOK /\ OthersOK /\ CallsOK /\ call[c] \in Call
    BY Types DEF IInv, CallsOK
  <1>2. /\ call[c].pc = "streakWrite" /\ call' = [call EXCEPT ![c] = Settled(c)]
        /\ streak' = [weeks |-> call[c].streakRead, last |-> call[c].weekRead]
        /\ UNCHANGED <<session, tally, lessonWeeks, parent, hour, week, reverts, callFaults>>
    BY DEF StreakWrite, clock
  <1>3. /\ CallsOK'
        /\ \A e \in Workers : call'[e] = IF e = c THEN Settled(c) ELSE call[e]
    BY <1>1, <1>2, SettledCall, OneCall
  <1>4. /\ streak' \in [weeks: Nat, last: Nat] /\ streak'.last = call[c].weekRead
        /\ streak'.weeks = call[c].streakRead
    BY <1>1, <1>2 DEF Call
  <1>5. SessionsTypeOK'
    <2>1. RowsOK' /\ OthersOK'
      BY <1>1, <1>2, <1>4 DEF RowsOK, OthersOK
    <2> QED
      BY <1>3, <2>1 DEF SessionsTypeOK, OthersOK, RowsOK, CallsOK
  <1>6. SetInv'
    BY <1>1, <1>3, SettledCall DEF IInv, SetInv
  <1>7. HoursInv' /\ CompletedIsCounted'
    BY <1>1, <1>2, <1>3, SettledCall, HoursStay DEF IInv
  <1>8. StreakEarned'
    BY <1>2, <1>4 DEF IInv, PendingStreak, Earned, StreakEarned
  <1>9. PendingStreak'
    BY <1>1, <1>2, <1>3, SettledCall DEF IInv, PendingStreak, Earned
  <1> QED
    BY <1>5, <1>6, <1>7, <1>8, <1>9 DEF IInv

-----------------------------------------------------------------------------
(* The other writes *)

\* The auto-fix of a dashboard: no hours, but it is known.
LEMMA InvFixes ==
  ASSUME IInv, NEW c \in Workers, FixWrites(c)
  PROVE  IInv'
  <1> DEFINE todo == call[c].todo
  <1>1. RowsOK /\ OthersOK /\ CallsOK
    BY Types DEF IInv
  <1>2. /\ call[c].pc = "write" /\ call' = [call EXCEPT ![c] = NoCall]
        /\ session' = [s \in SessionIds |-> IF s \in todo THEN "completed" ELSE session[s]]
        /\ tally' = [s \in SessionIds |-> IF s \in todo
                                          THEN [tally[s] EXCEPT !.repaired = TRUE]
                                          ELSE tally[s]]
        /\ UNCHANGED <<streak, lessonWeeks, parent, hour, week, reverts, callFaults>>
    BY DEF FixWrites, Calling, CallEnds, clock
  <1> HIDE DEF todo
  <1>3. /\ CallsOK'
        /\ \A e \in Workers : call'[e] = IF e = c THEN NoCall ELSE call[e]
    BY <1>1, <1>2, IdleCall, OneCall
  <1>4. /\ session' \in [SessionIds -> SessionStatus]
        /\ \A s \in SessionIds :
              session'[s] = IF s \in todo THEN "completed" ELSE session[s]
    BY <1>1, <1>2 DEF RowsOK, SessionStatus
  <1>5. /\ tally' \in [SessionIds -> Tally]
        /\ \A s \in SessionIds : /\ tally'[s].counted = tally[s].counted
                                 /\ tally'[s].reopened = tally[s].reopened
                                 /\ s \in todo => tally'[s].repaired
                                 /\ s \notin todo => tally'[s] = tally[s]
    BY <1>1, <1>2, TallyRows DEF RowsOK
  <1>6. SessionsTypeOK'
    <2>1. RowsOK' /\ OthersOK'
      BY <1>1, <1>2, <1>4, <1>5 DEF RowsOK, OthersOK
    <2> QED
      BY <1>3, <2>1 DEF SessionsTypeOK, OthersOK, RowsOK, CallsOK
  <1>7. SetInv'
    BY <1>3, IdleCall DEF IInv, SetInv
  <1>8. \A s : Owing(s)' = Owing(s)
    BY <1>2, <1>3, IdleCall, OwingStays
  <1>9. HoursInv'
    <2> SUFFICES ASSUME NEW s \in SessionIds
                 PROVE  tally'[s].counted + Cardinality(Owing(s)')
                          <= tally'[s].reopened + Done(s)'
      BY DEF HoursInv
    <2>1. tally[s].counted + Cardinality(Owing(s)) <= tally[s].reopened + Done(s)
      BY DEF IInv, HoursInv
    <2>2. /\ tally[s].counted \in Nat /\ tally[s].reopened \in Nat
          /\ Cardinality(Owing(s)) \in Nat
      BY <1>1, OwingFinite DEF RowsOK, Tally
    <2>3. Done(s) <= Done(s)' /\ Done(s) \in Nat /\ Done(s)' \in Nat
      BY <1>4 DEF Done
    <2> QED
      BY <1>5, <1>8, <2>1, <2>2, <2>3
  <1>10. CompletedIsCounted'
    <2> SUFFICES ASSUME NEW s \in SessionIds, session'[s] = "completed", s \notin todo
                 PROVE  \/ tally'[s].counted > 0 \/ CompletionOwed(s)'
                        \/ tally'[s].repaired \/ tally'[s].dropped
      BY <1>5 DEF CompletedIsCounted
    <2>1. CompletionOwed(s) => CompletionOwed(s)'
      BY <1>2, <1>3 DEF CompletionOwed
    <2> QED
      BY <1>4, <1>5, <2>1 DEF IInv, CompletedIsCounted
  <1>11. StreakEarned' /\ PendingStreak'
    BY <1>2, <1>3, IdleCall, StreaksStay DEF IInv
  <1> QED
    BY <1>6, <1>7, <1>9, <1>10, <1>11 DEF IInv

\* ensureSessionId makes the first session.
LEMMA InvCreatesSession ==
  ASSUME IInv, NEW c \in Workers, NEW s \in SessionIds, EnsureCreates(c, s)
  PROVE  IInv'
  <1> DEFINE rec == [call[c] EXCEPT !.pc = "write", !.s = s]
  <1>1. RowsOK /\ OthersOK /\ CallsOK /\ call[c] \in Call
    BY Types DEF IInv, CallsOK
  <1>2. /\ call[c].pc = "create" /\ call' = [call EXCEPT ![c] = rec]
        /\ session[s] = "absent" /\ session' = [session EXCEPT ![s] = "scheduled"]
        /\ UNCHANGED <<tally, streak, lessonWeeks, parent, hour, week, reverts, callFaults>>
    BY <1>1 DEF EnsureCreates, Made, clock, CallsOK
  <1>3. rec \in Call /\ rec.pc = "write" /\ rec.op = call[c].op /\ rec.set = call[c].set
    BY <1>1 DEF Call
  <1> HIDE DEF rec
  <1>4. /\ CallsOK'
        /\ \A e \in Workers : call'[e] = IF e = c THEN rec ELSE call[e]
    BY <1>1, <1>2, <1>3, OneCall
  <1>5. /\ session' \in [SessionIds -> SessionStatus]
        /\ \A t \in SessionIds : session'[t] = "completed" <=> session[t] = "completed"
    BY <1>1, <1>2 DEF RowsOK, SessionStatus
  <1>6. SessionsTypeOK'
    <2>1. RowsOK' /\ OthersOK'
      BY <1>1, <1>2, <1>5 DEF RowsOK, OthersOK
    <2> QED
      BY <1>4, <2>1 DEF SessionsTypeOK, OthersOK, RowsOK, CallsOK
  <1>7. SetInv'
    BY <1>3, <1>4 DEF IInv, SetInv
  <1>8. \A t : Owing(t)' = Owing(t)
    BY <1>2, <1>3, <1>4, OwingStays
  <1>9. HoursInv'
    BY <1>2, <1>5, <1>8 DEF IInv, HoursInv, Done
  <1>10. CompletedIsCounted'
    BY <1>2, <1>3, <1>4, <1>5 DEF IInv, CompletedIsCounted, CompletionOwed
  <1>11. StreakEarned' /\ PendingStreak'
    BY <1>2, <1>3, <1>4, StreaksStay DEF IInv
  <1> QED
    BY <1>6, <1>7, <1>9, <1>10, <1>11 DEF IInv

\* A call fails: hours it owed are dropped, and it is known.
LEMMA InvFails ==
  ASSUME IInv, NEW c \in Workers, CallFails(c)
  PROVE  IInv'
  <1>1. RowsOK /\ OthersOK /\ CallsOK
    BY Types DEF IInv
  <1>2. /\ call' = [call EXCEPT ![c] = NoCall]
        /\ tally' = [s \in SessionIds |-> IF call[c].pc = "hours" /\ call[c].s = s
                                          THEN [tally[s] EXCEPT !.dropped = TRUE]
                                          ELSE tally[s]]
        /\ callFaults < MaxCallFaults /\ callFaults' = callFaults + 1
        /\ UNCHANGED <<session, streak, lessonWeeks, parent, hour, week, reverts>>
    BY DEF CallFails, CallEnds, clock
  <1>3. /\ CallsOK'
        /\ \A e \in Workers : call'[e] = IF e = c THEN NoCall ELSE call[e]
    BY <1>1, <1>2, IdleCall, OneCall
  <1>4. /\ tally' \in [SessionIds -> Tally]
        /\ \A s \in SessionIds : /\ tally'[s].counted = tally[s].counted
                                 /\ tally'[s].reopened = tally[s].reopened
                                 /\ call[c].pc = "hours" /\ call[c].s = s
                                      => tally'[s].dropped
                                 /\ ~ (call[c].pc = "hours" /\ call[c].s = s)
                                      => tally'[s] = tally[s]
    BY <1>1, <1>2, TallyRows DEF RowsOK
  <1>5. SessionsTypeOK'
    <2>1. RowsOK'
      BY <1>1, <1>2, <1>4 DEF RowsOK
    <2>2. OthersOK'
      BY <1>1, <1>2, SessionsAssumption DEF OthersOK
    <2> QED
      BY <1>3, <2>1, <2>2 DEF SessionsTypeOK, OthersOK, RowsOK, CallsOK
  <1>6. SetInv'
    BY <1>3, IdleCall DEF IInv, SetInv
  <1>7. \A s : Owing(s)' = Owing(s) \ {c}
    BY <1>3, IdleCall DEF Owing
  <1>8. HoursInv'
    <2> SUFFICES ASSUME NEW s \in SessionIds
                 PROVE  tally'[s].counted + Cardinality(Owing(s)')
                          <= tally'[s].reopened + Done(s)'
      BY DEF HoursInv
    <2>1. /\ tally[s].counted + Cardinality(Owing(s)) <= tally[s].reopened + Done(s)
          /\ Done(s)' = Done(s)
      BY <1>2 DEF IInv, HoursInv, Done
    <2>2. /\ tally[s].counted \in Nat /\ tally[s].reopened \in Nat
          /\ Cardinality(Owing(s)) \in Nat /\ IsFiniteSet(Owing(s)) /\ Done(s) \in Nat
      BY <1>1, OwingFinite DEF RowsOK, Tally, Done
    <2>3. /\ Cardinality(Owing(s) \ {c}) <= Cardinality(Owing(s))
          /\ Cardinality(Owing(s) \ {c}) \in Nat
      <3>1. Owing(s) \ {c} \in SUBSET Owing(s)
        OBVIOUS
      <3>2. /\ IsFiniteSet(Owing(s) \ {c})
            /\ Cardinality(Owing(s) \ {c}) <= Cardinality(Owing(s))
        BY <2>2, <3>1, FS_Subset
      <3> QED
        BY <3>2, FS_CardinalityType
    <2>4. /\ Cardinality(Owing(s)') <= Cardinality(Owing(s))
          /\ Cardinality(Owing(s)') \in Nat
      BY <1>7, <2>3
    <2> QED
      BY <1>4, <2>1, <2>2, <2>4
  <1>9. CompletedIsCounted'
    <2> SUFFICES ASSUME NEW s \in SessionIds, session'[s] = "completed",
                        ~ (call[c].pc = "hours" /\ call[c].s = s)
                 PROVE  \/ tally'[s].counted > 0 \/ CompletionOwed(s)'
                        \/ tally'[s].repaired \/ tally'[s].dropped
      BY <1>4 DEF CompletedIsCounted
    <2>1. CompletionOwed(s) => CompletionOwed(s)'
      BY <1>3 DEF CompletionOwed
    <2> QED
      BY <1>2, <1>4, <2>1 DEF IInv, CompletedIsCounted
  <1>10. StreakEarned' /\ PendingStreak'
    BY <1>2, <1>3, IdleCall, StreaksStay DEF IInv
  <1> QED
    BY <1>5, <1>6, <1>8, <1>9, <1>10 DEF IInv

\* The clock.
LEMMA InvClock ==
  ASSUME IInv, UNCHANGED <<session, call, tally, streak, lessonWeeks>>, OthersOK'
  PROVE  IInv'
  <1>1. SessionsTypeOK'
    BY Types DEF IInv, SessionsTypeOK, OthersOK, RowsOK, CallsOK
  <1>2. SetInv'
    BY DEF IInv, SetInv
  <1>3. HoursInv' /\ CompletedIsCounted'
    BY HoursStay DEF IInv
  <1>4. StreakEarned' /\ PendingStreak'
    BY StreaksStay DEF IInv
  <1> QED
    BY <1>1, <1>2, <1>3, <1>4 DEF IInv

-----------------------------------------------------------------------------
(* The steps that only look *)

LEMMA BoundedStays ==
  ASSUME OthersOK, NEW op, Bounded(op)
  PROVE  reverts' \in 0..MaxReverts
  BY SessionsAssumption DEF OthersOK, Bounded, Reverts

LEMMA ResolvedCall ==
  ASSUME NEW o \in Requested, NEW s \in SessionIds \union {NoOne}
  PROVE  /\ Resolved(o, s) \in Call /\ Resolved(o, s).pc = "write"
         /\ Resolved(o, s).op \in {"set", "join"} => Resolved(o, s).set # "completed"
  <1>1. /\ o[1] \in {"set", "complete", "join"} /\ o[2] \in SessionStatus
        /\ o[1] \in {"set", "join"} => o[2] # "completed"
    BY DEF Requested, SessionStatus
  <1> DEFINE op == o[1]
             set == o[2]
             rec == [NoCall EXCEPT !.op = op, !.pc = "write", !.s = s, !.set = set]
  <1>2. op \in {"set", "complete", "join"} /\ set \in SessionStatus
    BY <1>1
  <1>3. Resolved(o, s) = rec
    BY DEF Resolved
  <1> HIDE DEF op, set
  <1>4. rec \in Call /\ rec.pc = "write" /\ rec.op = op /\ rec.set = set
    BY <1>2, IdleCall DEF Call
  <1> HIDE DEF rec
  <1> QED
    BY <1>1, <1>3, <1>4 DEF op, set

LEMMA InvResolving ==
  ASSUME IInv, NEW c \in Callers, Resolving(c)
  PROVE  IInv'
  <1>1. RowsOK /\ OthersOK /\ CallsOK /\ c \in Workers
    BY Types DEF IInv, Workers
  <1>2. ASSUME NEW o \in Requested, EnsureFinds(c, o)
        PROVE  IInv'
    <2>1. PICK s \in Made : Resolves(c, o, s)
      BY <1>2 DEF EnsureFinds
    <2>2. /\ call[c].pc = "idle" /\ call' = [call EXCEPT ![c] = Resolved(o, s)]
          /\ UNCHANGED <<session, tally, streak, lessonWeeks, parent, hour, week, callFaults>>
      BY <1>2, <2>1, IdleCall DEF EnsureFinds, Resolves, CallBegins, clock
    <2>3. OthersOK'
      BY <1>1, <1>2, <2>2, BoundedStays DEF EnsureFinds, OthersOK
    <2>4. s \in SessionIds
      BY DEF Made
    <2> QED
      BY <1>1, <2>2, <2>3, <2>4, ResolvedCall, InvQuiet DEF RowsOK
  <1>3. ASSUME NEW o \in Requested, EnsureMisses(c, o)
        PROVE  IInv'
    <2> DEFINE r == Resolved(o, NoOne)
               rec == [r EXCEPT !.pc = "create"]
    <2>1. /\ call[c].pc = "idle" /\ call' = [call EXCEPT ![c] = rec]
          /\ UNCHANGED <<session, tally, streak, lessonWeeks, parent, hour, week, callFaults>>
      BY <1>3, IdleCall DEF EnsureMisses, CallBegins, clock
    <2>2. OthersOK'
      BY <1>1, <1>3, <2>1, BoundedStays DEF EnsureMisses, OthersOK
    <2>3. /\ rec \in Call /\ rec.pc = "create"
          /\ rec.op \in {"set", "join"} => rec.set # "completed"
      <3>1. r \in Call /\ (r.op \in {"set", "join"} => r.set # "completed")
        BY ResolvedCall
      <3> HIDE DEF r
      <3> QED
        BY <3>1, Goes
    <2> HIDE DEF rec
    <2> QED
      BY <1>1, <2>1, <2>2, <2>3, InvQuiet DEF RowsOK
  <1>4. CASE CancelReads(c)
    <2> DEFINE rec == [NoCall EXCEPT !.op = "cancel", !.pc = "write"]
    <2>1. /\ call[c].pc = "idle" /\ call' = [call EXCEPT ![c] = rec]
          /\ UNCHANGED <<session, tally, streak, lessonWeeks, parent, hour, week, callFaults>>
      BY <1>4, IdleCall DEF CancelReads, CallBegins, clock
    <2>2. OthersOK'
      BY <1>1, <1>4, <2>1, BoundedStays DEF CancelReads, OthersOK
    <2>3. rec \in Call /\ rec.pc = "write" /\ rec.op = "cancel"
      BY IdleCall DEF Call
    <2> HIDE DEF rec
    <2> QED
      BY <1>1, <2>1, <2>2, <2>3, InvQuiet DEF RowsOK
  <1> QED
    BY <1>2, <1>3, <1>4 DEF Resolving

\* A dashboard, or the sweep, reads the sessions it will complete.
LEMMA InvReads ==
  ASSUME IInv, NEW c \in Workers, NEW op \in {"fix", "sweep"},
         NEW todo \in SUBSET SessionIds,
         CallBegins(c, [NoCall EXCEPT !.op = op, !.pc = "write", !.todo = todo]),
         UNCHANGED <<session, parent, clock, streak, tally, lessonWeeks, reverts, callFaults>>
  PROVE  IInv'
  <1> DEFINE rec == [NoCall EXCEPT !.op = op, !.pc = "write", !.todo = todo]
  <1>1. RowsOK /\ OthersOK
    BY Types DEF IInv
  <1>2. call[c].pc = "idle" /\ call' = [call EXCEPT ![c] = rec]
    BY IdleCall DEF CallBegins
  <1>3. rec \in Call /\ rec.pc = "write" /\ rec.op = op
    BY IdleCall DEF Call
  <1>4. OthersOK' /\ lessonWeeks' = lessonWeeks
    BY <1>1 DEF OthersOK, clock
  <1> HIDE DEF rec
  <1> QED
    BY <1>1, <1>2, <1>3, <1>4, InvQuiet DEF RowsOK

-----------------------------------------------------------------------------
(* All steps *)

LEMMA InvProceeding ==
  ASSUME IInv, NEW c \in Callers, Proceeding(c)
  PROVE  IInv'
  <1>1. RowsOK /\ OthersOK /\ CallsOK /\ c \in Workers /\ call[c] \in Call
    BY Types DEF IInv, Workers, CallsOK
  <1>2. CASE \E s \in SessionIds : EnsureCreates(c, s)
    BY <1>1, <1>2, InvCreatesSession
  <1>3. CASE WriteStatus(c)
    <2>1. /\ call[c].pc = "write" /\ Overwritten({call[c].s}, call[c].set)
          /\ call' = [call EXCEPT ![c] = NoCall]
          /\ UNCHANGED <<parent, hour, week, streak, lessonWeeks, reverts, callFaults>>
      BY <1>3 DEF WriteStatus, CallEnds, clock
    <2>2. call[c].set \in SessionStatus /\ call[c].set # "completed"
      BY <1>1, <1>3 DEF WriteStatus, IInv, SetInv, Call
    <2>3. OthersOK'
      BY <1>1, <2>1 DEF OthersOK
    <2> QED
      BY <1>1, <2>1, <2>2, <2>3, InvOverwrites
  <1>4. CASE CancelWrites(c)
    <2>1. /\ call[c].pc = "write" /\ Overwritten(Made, "cancelled")
          /\ call' = [call EXCEPT ![c] = NoCall] /\ parent' = "cancelled"
          /\ UNCHANGED <<hour, week, streak, lessonWeeks, reverts, callFaults>>
      BY <1>4 DEF CancelWrites, Calling, CallEnds, clock
    <2>2. OthersOK' /\ "cancelled" \in SessionStatus
      BY <1>1, <2>1 DEF OthersOK, SessionStatus
    <2> QED
      BY <1>1, <2>1, <2>2, InvOverwrites
  <1>5. CASE WriteCompleted(c)
    <2> DEFINE rec == [call[c] EXCEPT !.pc = "hours"]
    <2>1. /\ call[c].op = "complete" /\ call[c].pc = "write"
          /\ session[call[c].s] # "completed" /\ Completes(call[c].s)
          /\ call' = [call EXCEPT ![c] = rec]
      BY <1>5 DEF WriteCompleted, Calling, Open, CallGoesTo
    <2>2. rec \in Call /\ rec.pc = "hours" /\ rec.s = call[c].s /\ rec.op = "complete"
      BY <1>1, <2>1, Goes
    <2> HIDE DEF rec
    <2>3. CASE call[c].s \in SessionIds
      BY <1>1, <2>1, <2>2, <2>3, InvCompletes
    <2>4. CASE call[c].s \notin SessionIds
      BY <1>1, <2>1, <2>2, <2>4, InvNoSession
    <2> QED
      BY <2>3, <2>4
  <1>6. CASE AlreadyCompleted(c) \/ EndRefused(c)
    <2>1. /\ call[c].pc = "write" /\ call' = [call EXCEPT ![c] = NoCall]
          /\ UNCHANGED <<session, parent, hour, week, streak, tally, lessonWeeks,
                          reverts, callFaults>>
      BY <1>6 DEF AlreadyCompleted, EndRefused, Calling, CallEnds, clock
    <2>2. OthersOK'
      BY <1>1, <2>1 DEF OthersOK
    <2> QED
      BY <1>1, <2>1, <2>2, IdleCall, InvQuiet DEF RowsOK
  <1>7. CASE FixWrites(c)
    BY <1>1, <1>7, InvFixes
  <1> QED
    BY <1>2, <1>3, <1>4, <1>5, <1>6, <1>7 DEF Proceeding

LEMMA InvCompleting ==
  ASSUME IInv, NEW c \in Workers, Completing(c)
  PROVE  IInv'
  <1>1. RowsOK /\ OthersOK /\ CallsOK /\ call[c] \in Call
    BY Types DEF IInv, CallsOK
  <1>2. CASE CompleteBooking(c)
    <2> DEFINE rec == [call[c] EXCEPT !.pc = "streak"]
    <2>1. /\ call[c].pc = "booking" /\ call' = [call EXCEPT ![c] = rec]
          /\ parent' = "completed"
          /\ UNCHANGED <<session, hour, week, streak, tally, lessonWeeks, reverts,
                          callFaults>>
      BY <1>2 DEF CompleteBooking, CallGoesTo, clock
    <2>2. rec \in Call /\ rec.pc = "streak" /\ rec.op = call[c].op /\ rec.set = call[c].set
      BY <1>1, Goes
    <2> HIDE DEF rec
    <2>3. OthersOK'
      BY <1>1, <2>1 DEF OthersOK
    <2>4. rec.op \in {"set", "join"} => rec.set # "completed"
      BY <2>2 DEF IInv, SetInv
    <2> QED
      BY <1>1, <2>1, <2>2, <2>3, <2>4, InvQuiet DEF RowsOK
  <1> QED
    BY <1>2, InvAddHours, InvStreakRead, InvStreakWrite DEF Completing

LEMMA InvSweeping ==
  ASSUME IInv, Sweeping
  PROVE  IInv'
  <1>1. RowsOK /\ OthersOK /\ CallsOK /\ Sweeper \in Workers /\ call[Sweeper] \in Call
    BY Types DEF IInv, Workers, CallsOK
  <1>2. CASE SweepReads
    <2>1. Stuck \in SUBSET SessionIds
      BY DEF Stuck, Made
    <2> QED
      BY <1>1, <1>2, <2>1, InvReads DEF SweepReads
  <1>3. ASSUME NEW s \in SessionIds, SweepCompletes(s)
        PROVE  IInv'
    <2> DEFINE rec == [call[Sweeper] EXCEPT !.pc = "hours", !.s = s, !.todo = @ \ {s}]
    <2>1. /\ call[Sweeper].op = "sweep" /\ call[Sweeper].pc = "write"
          /\ session[s] # "completed" /\ Completes(s)
          /\ call' = [call EXCEPT ![Sweeper] = rec]
      BY <1>1, <1>3 DEF SweepCompletes, Calling, CallsOK
    <2>2. rec \in Call /\ rec.pc = "hours" /\ rec.s = s /\ rec.op = "sweep"
      BY <1>1, <2>1 DEF Call
    <2> HIDE DEF rec
    <2> QED
      BY <1>1, <2>1, <2>2, InvCompletes
  <1>4. ASSUME NEW s \in SessionIds, SweepSkips(s)
        PROVE  IInv'
    <2> DEFINE next == SweepWithout(s)
    <2>1. /\ call[Sweeper].op = "sweep" /\ call[Sweeper].pc = "write"
          /\ call' = [call EXCEPT ![Sweeper] = next]
          /\ UNCHANGED <<session, parent, hour, week, streak, tally, lessonWeeks,
                          reverts, callFaults>>
      BY <1>4 DEF SweepSkips, Calling, clock
    <2>2. ASSUME NEW rest \in SUBSET SessionIds
          PROVE  LET rec == [call[Sweeper] EXCEPT !.todo = rest]
                 IN  rec \in Call /\ rec.pc = "write" /\ rec.op = "sweep"
      BY <1>1, <2>1 DEF Call
    <2>3. next \in Call /\ next.pc \in {"idle", "write"} /\ next.op \in {"idle", "sweep"}
      <3>1. call[Sweeper].todo \ {s} \in SUBSET SessionIds
        BY <1>1 DEF Call
      <3> QED
        BY <2>2, <3>1, IdleCall DEF SweepWithout
    <2>4. OthersOK'
      BY <1>1, <2>1 DEF OthersOK
    <2> HIDE DEF next
    <2> QED
      BY <1>1, <2>1, <2>3, <2>4, InvQuiet DEF RowsOK
  <1>5. CASE Completing(Sweeper)
    BY <1>1, <1>5, InvCompleting
  <1> QED
    BY <1>2, <1>3, <1>4, <1>5 DEF Sweeping

LEMMA InvNext == IInv /\ [SessionsNext]_sessionsVars => IInv'
  <1> SUFFICES ASSUME IInv, [SessionsNext]_sessionsVars PROVE IInv'
    OBVIOUS
  <1>1. OthersOK
    BY Types DEF IInv
  <1>2. CASE UNCHANGED sessionsVars
    <2>1. /\ UNCHANGED <<session, call, tally, streak, lessonWeeks>>
          /\ UNCHANGED <<parent, hour, week, reverts, callFaults>>
      BY <1>2 DEF sessionsVars
    <2>2. OthersOK'
      BY <1>1, <2>1 DEF OthersOK
    <2> QED
      BY <2>1, <2>2, InvClock
  <1>3. ASSUME NEW c \in Callers,
               Resolving(c) \/ Proceeding(c) \/ Completing(c) \/ DashboardRead(c)
        PROVE  IInv'
    <2>1. c \in Workers
      BY DEF Workers
    <2>2. CASE DashboardRead(c)
      <3>1. NeedsFix \in SUBSET SessionIds
        BY DEF NeedsFix, Made
      <3> QED
        BY <2>1, <2>2, <3>1, InvReads DEF DashboardRead
    <2> QED
      BY <1>3, <2>1, <2>2, InvResolving, InvProceeding, InvCompleting
  <1>4. CASE Sweeping
    BY <1>4, InvSweeping
  <1>5. ASSUME NEW c \in Workers, CallFails(c)
        PROVE  IInv'
    BY <1>5, InvFails
  <1>6. CASE HourPasses
    <2>1. OthersOK'
      BY <1>1, <1>6 DEF HourPasses, OthersOK
    <2> QED
      BY <1>6, <2>1, InvClock DEF HourPasses
  <1>7. CASE WeekPasses
    <2>1. OthersOK'
      BY <1>1, <1>7, SessionsAssumption DEF WeekPasses, OthersOK
    <2> QED
      BY <1>7, <2>1, InvClock DEF WeekPasses
  <1> QED
    BY <1>2, <1>3, <1>4, <1>5, <1>6, <1>7 DEF SessionsNext

-----------------------------------------------------------------------------
(* Theorems *)

LEMMA InvHolds == SessionsSpec => []IInv
  BY InvInit, InvNext, PTL DEF SessionsSpec

\* The rows, the calls and the history have their types.
THEOREM SessionsTyped == SessionsSpec => []SessionsTypeOK
  <1>1. IInv => SessionsTypeOK
    BY DEF IInv
  <1> QED
    BY <1>1, InvHolds, PTL

\* handleSessionCompletion adds the hours of a session once, whoever ends it and
\* however the calls, webhooks and sweeps overlap, unless it was set back.
THEOREM HoursAddedOnce == SessionsSpec => []HoursOnce
  <1>1. IInv => HoursOnce
    <2> SUFFICES ASSUME IInv, NEW s \in SessionIds
                 PROVE  tally[s].counted <= 1 + tally[s].reopened
      BY DEF HoursOnce
    <2>1. tally[s].counted + Cardinality(Owing(s)) <= tally[s].reopened + Done(s)
      BY DEF IInv, HoursInv
    <2>2. /\ tally[s].counted \in Nat /\ tally[s].reopened \in Nat
          /\ Cardinality(Owing(s)) \in Nat
      BY Types, OwingFinite DEF IInv, RowsOK, Tally
    <2>3. Done(s) \in {0, 1}
      BY DEF Done
    <2> QED
      BY <2>1, <2>2, <2>3
  <1> QED
    BY <1>1, InvHolds, PTL

\* A completed session was counted or will be, unless the dashboard completed it
\* or a call failed right after the write.
THEOREM CompletionCounted == SessionsSpec => []CompletedIsCounted
  <1>1. IInv => CompletedIsCounted
    BY DEF IInv
  <1> QED
    BY <1>1, InvHolds, PTL

\* A streak never spans a week without a lesson, whenever updateStreak writes what
\* it has read.
THEOREM StreaksEarned == SessionsSpec => []StreakEarned
  <1>1. IInv => StreakEarned
    BY DEF IInv
  <1> QED
    BY <1>1, InvHolds, PTL

=============================================================================
