---------------------------- MODULE PhonesProofs ----------------------------
(***************************************************************************)
(* Proofs about Phones, for any users, numbers and requests and any number *)
(* of edits, restarts and failed calls: a verified number was proven by    *)
(* its holder and is nobody else's, and the login provider says what the   *)
(* row says.                                                               *)
(*                                                                         *)
(* A request checks, awaits the provider, and writes.  AttemptInv says     *)
(* what a request between two awaits may rely on; AgreeInv that no belated *)
(* "no" is under way for a user the provider calls verified.               *)
(***************************************************************************)
EXTENDS Phones, TLAPS

Attempt == [pc: {"idle", "send", "check", "update", "sync"}, by: Holders,
            to: Lines \union {NoLine}]

-----------------------------------------------------------------------------
(* The inductive invariant *)

\* A request is about a number.  One about to write has entered its code; one about
\* to tell the login provider has written.
AttemptInv ==
    \A t \in Attempts :
        /\ attempt[t].pc # "idle" => attempt[t].to \in Lines
        /\ attempt[t].pc = "update" => <<attempt[t].by, attempt[t].to>> \in proven
        /\ attempt[t].pc = "sync" => checked[attempt[t].by]

\* Where the calls were in order, none that says "no" is still under way.
AgreeInv ==
    \A h \in Holders :
        /\ says[h] = "yes" => checked[h]
        /\ checked[h] /\ ~ Syncing(h) /\ h \notin muddled
             => says[h] = "yes" /\ h \notin telling

IInv == PhonesTypeOK /\ AttemptInv /\ VerifiedIsProven /\ NumberIsOnes /\ AgreeInv

LEMMA IdleAttempt == NoAttempt \in Attempt /\ NoAttempt.pc = "idle"
  BY PhonesAssumption DEF NoAttempt, Attempt

\* A request that goes on.
LEMMA AttemptGoesOn ==
  ASSUME NEW a \in Attempt, NEW pc \in {"update", "sync"}
  PROVE  /\ [a EXCEPT !.pc = pc] \in Attempt
         /\ [a EXCEPT !.pc = pc].pc = pc
         /\ [a EXCEPT !.pc = pc].by = a.by
         /\ [a EXCEPT !.pc = pc].to = a.to
  BY DEF Attempt

LEMMA TypeOfAttempts ==
  PhonesTypeOK => attempt \in [Attempts -> Attempt]
  BY DEF PhonesTypeOK, Attempt

LEMMA InvInit == PhonesInit => IInv
  <1> SUFFICES ASSUME PhonesInit PROVE IInv
    OBVIOUS
  <1>1. PhonesTypeOK
    BY IdleAttempt, PhonesAssumption DEF PhonesInit, PhonesTypeOK, Attempt
  <1>2. AttemptInv /\ VerifiedIsProven /\ NumberIsOnes /\ AgreeInv
    BY IdleAttempt
    DEF PhonesInit, AttemptInv, VerifiedIsProven, NumberIsOnes, AgreeInv
  <1> QED
    BY <1>1, <1>2 DEF IInv

-----------------------------------------------------------------------------
(* One lemma per action *)

\* A request begins, and the guard may set off a call.
LEMMA InvStarts ==
  ASSUME IInv, NEW t \in Attempts, NEW h \in Holders, NEW n \in Lines,
         NEW what \in {"send", "check"}, StartsAttempt(t, h, n, what)
  PROVE  IInv'
  <1>1. attempt' \in [Attempts -> Attempt]
    BY TypeOfAttempts DEF IInv, StartsAttempt, AttemptIs, Attempt
  <1>2. noted' \subseteq Holders /\ telling' \subseteq Holders
        /\ \A g \in Holders : g \in telling' => g \in telling \/ ~ checked[g]
    BY DEF IInv, PhonesTypeOK, StartsAttempt, GuardTells
  <1>3. PhonesTypeOK'
    BY <1>1, <1>2, PhonesAssumption DEF IInv, PhonesTypeOK, StartsAttempt, Attempt
  <1>4. \A u \in Attempts : attempt'[u].pc \in {"update", "sync"}
                            <=> attempt[u].pc \in {"update", "sync"}
                                /\ attempt'[u] = attempt[u]
    BY TypeOfAttempts DEF IInv, StartsAttempt, AttemptIs, Attempt
  <1>5. AttemptInv'
    <2>1. \A u \in Attempts : attempt'[u].pc # "idle" => attempt'[u].to \in Lines
      <3>1. \/ attempt' = attempt
            \/ attempt' = [attempt EXCEPT ![t] = [pc |-> what, by |-> h, to |-> n]]
        BY DEF StartsAttempt, AttemptIs
      <3>2. \A u \in Attempts : attempt'[u] = attempt[u] \/ attempt'[u].to = n
        BY <3>1, TypeOfAttempts DEF IInv
      <3> QED
        BY <3>2 DEF IInv, AttemptInv
    <2> QED
      BY <1>4, <2>1 DEF IInv, AttemptInv, StartsAttempt
  <1>6. VerifiedIsProven' /\ NumberIsOnes'
    BY DEF IInv, VerifiedIsProven, NumberIsOnes, StartsAttempt
  <1>7. \A g \in Holders : Syncing(g)' <=> Syncing(g)
    <2>1. \A u \in Attempts : (attempt'[u].pc = "sync" /\ attempt'[u] = attempt[u])
                              <=> attempt[u].pc = "sync"
      BY TypeOfAttempts DEF IInv, StartsAttempt, AttemptIs, Attempt
    <2> QED
      BY <1>4, <2>1 DEF Syncing
  <1>8. AgreeInv'
    BY <1>2, <1>7 DEF IInv, AgreeInv, StartsAttempt
  <1> QED
    BY <1>3, <1>5, <1>6, <1>8 DEF IInv

\* The code is sent, or was not right: the request is over.
LEMMA InvEnds ==
  ASSUME IInv, NEW t \in Attempts, attempt[t].pc \in {"send", "check", "update"},
         attempt' = [attempt EXCEPT ![t] = NoAttempt], code' \subseteq Lines,
         UNCHANGED <<line, checked, says, telling, noted, proven, edited, muddled,
                     attempts, troubles>>
  PROVE  IInv'
  <1>1. attempt' \in [Attempts -> Attempt]
    BY TypeOfAttempts, IdleAttempt DEF IInv
  <1>2. PhonesTypeOK'
    BY <1>1 DEF IInv, PhonesTypeOK, Attempt
  <1>3. \A u \in Attempts : attempt'[u] = IF u = t THEN NoAttempt ELSE attempt[u]
    BY TypeOfAttempts DEF IInv
  <1>4. AttemptInv' /\ VerifiedIsProven' /\ NumberIsOnes'
    BY <1>3, IdleAttempt DEF IInv, AttemptInv, VerifiedIsProven, NumberIsOnes
  <1>5. \A g \in Holders : Syncing(g)' <=> Syncing(g)
    BY <1>3, IdleAttempt DEF Syncing
  <1>6. AgreeInv'
    BY <1>5 DEF IInv, AgreeInv
  <1> QED
    BY <1>2, <1>4, <1>6 DEF IInv

\* The code is right: it is spent, and the request may write.
LEMMA InvApproved ==
  ASSUME IInv, NEW t \in Attempts, attempt[t].pc = "check", Approved(attempt[t].to),
         ChecksCode(t, TRUE)
  PROVE  IInv'
  <1> DEFINE q == [attempt[t] EXCEPT !.pc = "update"]
  <1>1. attempt[t] \in Attempt
    BY TypeOfAttempts DEF IInv
  <1>2. q \in Attempt /\ q.pc = "update" /\ q.by = attempt[t].by /\ q.to = attempt[t].to
    BY <1>1, AttemptGoesOn
  <1>3. attempt' = [attempt EXCEPT ![t] = q]
        /\ proven' = proven \union {<<attempt[t].by, attempt[t].to>>}
        /\ code' = code \ {attempt[t].to}
        /\ UNCHANGED <<line, checked, says, telling, noted, edited, muddled, attempts,
                       troubles>>
    <2>1. code \intersect {attempt[t].to} = {attempt[t].to}
      BY DEF Approved
    <2>2. {<<attempt[t].by, n>> : n \in code \intersect {attempt[t].to}}
            = {<<attempt[t].by, attempt[t].to>>}
      BY <2>1
    <2> QED
      BY <2>2 DEF ChecksCode, AttemptIs
  <1> HIDE DEF q
  <1>4. attempt[t].to \in Lines /\ attempt[t].by \in Holders
    BY <1>1 DEF IInv, PhonesTypeOK, Approved, Attempt
  <1>5. attempt' \in [Attempts -> Attempt]
        /\ \A u \in Attempts : attempt'[u] = IF u = t THEN q ELSE attempt[u]
    BY <1>2, <1>3, TypeOfAttempts DEF IInv
  <1>6. PhonesTypeOK'
    BY <1>3, <1>4, <1>5 DEF IInv, PhonesTypeOK, Attempt
  <1>7. AttemptInv'
    BY <1>2, <1>3, <1>5 DEF IInv, AttemptInv
  <1>8. VerifiedIsProven' /\ NumberIsOnes'
    BY <1>3 DEF IInv, VerifiedIsProven, NumberIsOnes
  <1>9. \A g \in Holders : Syncing(g)' <=> Syncing(g)
    BY <1>2, <1>5 DEF Syncing
  <1>10. AgreeInv'
    BY <1>3, <1>9 DEF IInv, AgreeInv
  <1> QED
    BY <1>6, <1>7, <1>8, <1>10 DEF IInv

\* The row is written: the number is nobody else's.
LEMMA InvUpdates ==
  ASSUME IInv, NEW t \in Attempts, UpdatesUser(t)
  PROVE  IInv'
  <1> DEFINE h == attempt[t].by
             n == attempt[t].to
             q == [attempt[t] EXCEPT !.pc = "sync"]
  <1>1. attempt[t] \in Attempt /\ h \in Holders /\ n \in Lines \union {NoLine}
    BY TypeOfAttempts DEF IInv, Attempt
  <1>2. CASE checked[h] \/ \E o \in Holders \ {h} : line[o] = n
    <2>1. /\ attempt' = [attempt EXCEPT ![t] = NoAttempt]
          /\ UNCHANGED <<line, checked, edited, code, says, telling, noted, proven,
                         muddled, attempts, troubles>>
      BY <1>2 DEF UpdatesUser, AttemptIs
    <2>2. code' \subseteq Lines
      BY <2>1 DEF IInv, PhonesTypeOK
    <2> QED
      BY <2>1, <2>2, InvEnds DEF UpdatesUser
  <1>3. CASE ~ (checked[h] \/ \E o \in Holders \ {h} : line[o] = n)
    <2>1. /\ line' = [line EXCEPT ![h] = n]
          /\ checked' = [checked EXCEPT ![h] = TRUE]
          /\ edited' = edited \ {h}
          /\ attempt' = [attempt EXCEPT ![t] = q]
          /\ UNCHANGED <<code, says, telling, noted, proven, muddled, attempts, troubles>>
          /\ attempt[t].pc = "update"
      BY <1>3 DEF UpdatesUser, AttemptIs
    <2>2. q \in Attempt /\ q.pc = "sync" /\ q.by = h
      BY <1>1, AttemptGoesOn
    <2>3. <<h, n>> \in proven
      BY <2>1 DEF IInv, AttemptInv
    <2> HIDE DEF q, h, n
    <2>4. attempt' \in [Attempts -> Attempt]
          /\ \A u \in Attempts : attempt'[u] = IF u = t THEN q ELSE attempt[u]
      BY <2>1, <2>2, TypeOfAttempts DEF IInv
    <2>5. /\ line' \in [Holders -> Lines \union {NoLine}]
          /\ checked' \in [Holders -> BOOLEAN]
          /\ \A g \in Holders : /\ line'[g] = IF g = h THEN n ELSE line[g]
                                /\ checked'[g] = IF g = h THEN TRUE ELSE checked[g]
      BY <1>1, <2>1 DEF IInv, PhonesTypeOK
    <2>6. PhonesTypeOK'
      BY <2>1, <2>4, <2>5 DEF IInv, PhonesTypeOK, Attempt
    <2>7. AttemptInv'
      <3>1. q.to \in Lines
        BY <1>1, <2>1, AttemptGoesOn DEF IInv, AttemptInv, q, n
      <3>2. \A u \in Attempts : attempt[u].by \in Holders
        BY TypeOfAttempts DEF IInv, Attempt
      <3> QED
        BY <2>1, <2>2, <2>4, <2>5, <3>1, <3>2 DEF IInv, AttemptInv
    <2>8. VerifiedIsProven'
      BY <2>1, <2>3, <2>5 DEF IInv, VerifiedIsProven
    <2>9. NumberIsOnes'
      BY <1>3, <2>5 DEF IInv, NumberIsOnes
    <2>10. \A g \in Holders : Syncing(g)' <=> (Syncing(g) \/ g = h)
      BY <2>1, <2>2, <2>4 DEF Syncing
    <2>11. AgreeInv'
      BY <2>1, <2>5, <2>10 DEF IInv, AgreeInv
    <2> QED
      BY <2>6, <2>7, <2>8, <2>9, <2>11 DEF IInv
  <1> QED
    BY <1>2, <1>3

\* The login provider is told, or the call fails.
LEMMA InvTellsYes ==
  ASSUME IInv, NEW t \in Attempts, NEW fails \in BOOLEAN, TellsYes(t, fails)
  PROVE  IInv'
  <1> DEFINE h == attempt[t].by
  <1>1. h \in Holders /\ attempt[t].pc = "sync" /\ checked[h]
    BY TypeOfAttempts DEF IInv, Attempt, TellsYes, AttemptInv
  <1>2. attempt' \in [Attempts -> Attempt]
        /\ \A u \in Attempts : attempt'[u] = IF u = t THEN NoAttempt ELSE attempt[u]
    BY TypeOfAttempts, IdleAttempt DEF IInv, TellsYes, AttemptIs
  <1>3. says' \in [Holders -> {"nothing", "no", "yes"}]
        /\ \A g \in Holders : says'[g] = IF g = h /\ ~ fails THEN "yes" ELSE says[g]
    BY <1>1 DEF IInv, PhonesTypeOK, TellsYes
  <1>4. muddled' \subseteq Holders /\ troubles' \in 0..MaxTroubles
    BY <1>1, PhonesAssumption DEF IInv, PhonesTypeOK, TellsYes
  <1>5. PhonesTypeOK'
    BY <1>2, <1>3, <1>4 DEF IInv, PhonesTypeOK, Attempt, TellsYes
  <1>6. AttemptInv' /\ VerifiedIsProven' /\ NumberIsOnes'
    BY <1>2, IdleAttempt
    DEF IInv, AttemptInv, VerifiedIsProven, NumberIsOnes, TellsYes
  <1>7. \A g \in Holders : Syncing(g) => Syncing(g)' \/ g = h
    BY <1>2 DEF Syncing
  <1>8. /\ muddled \subseteq muddled'
        /\ h \notin muddled' => ~ fails /\ h \notin telling
        /\ UNCHANGED <<checked, telling>>
    BY DEF TellsYes
  <1>9. AgreeInv'
    BY <1>1, <1>3, <1>7, <1>8 DEF IInv, AgreeInv
  <1> QED
    BY <1>5, <1>6, <1>9 DEF IInv

\* The guard's call lands, or fails.
LEMMA InvTellsNo ==
  ASSUME IInv, NEW h \in Holders, NEW fails \in BOOLEAN, TellsNo(h, fails)
  PROVE  IInv'
  <1>1. says' \in [Holders -> {"nothing", "no", "yes"}]
        /\ \A g \in Holders : says'[g] = IF g = h /\ ~ fails THEN "no" ELSE says[g]
    BY DEF IInv, PhonesTypeOK, TellsNo
  <1>2. PhonesTypeOK'
    BY <1>1, PhonesAssumption DEF IInv, PhonesTypeOK, TellsNo
  <1>3. AttemptInv' /\ VerifiedIsProven' /\ NumberIsOnes'
    BY DEF IInv, AttemptInv, VerifiedIsProven, NumberIsOnes, TellsNo
  <1>4. \A g \in Holders : Syncing(g)' <=> Syncing(g)
    BY DEF Syncing, TellsNo
  <1>5. h \in telling /\ telling' = telling \ {h} /\ UNCHANGED <<checked, muddled>>
    BY DEF TellsNo
  <1>6. AgreeInv'
    BY <1>1, <1>4, <1>5 DEF IInv, AgreeInv
  <1> QED
    BY <1>2, <1>3, <1>6 DEF IInv

\* A tutor's edit of the profile: the row keeps its mark, the number is unique.
LEMMA InvEdits ==
  ASSUME IInv, NEW h \in Holders, NEW n \in Lines \union {NoLine}, EditsPhone(h, n)
  PROVE  IInv'
  <1>1. line' \in [Holders -> Lines \union {NoLine}]
        /\ \A g \in Holders : line'[g] = IF g = h THEN n ELSE line[g]
    BY DEF IInv, PhonesTypeOK, EditsPhone
  <1>2. PhonesTypeOK'
    BY <1>1, PhonesAssumption DEF IInv, PhonesTypeOK, EditsPhone
  <1>3. AttemptInv' /\ AgreeInv'
    BY DEF IInv, AttemptInv, AgreeInv, Syncing, EditsPhone
  <1>4. VerifiedIsProven' /\ NumberIsOnes'
    BY <1>1 DEF IInv, VerifiedIsProven, NumberIsOnes, EditsPhone
  <1> QED
    BY <1>2, <1>3, <1>4 DEF IInv

\* A restart loses the requests and the calls nobody waits for.
LEMMA InvRestart ==
  ASSUME IInv, PhonesRestart
  PROVE  IInv'
  <1>1. attempt' \in [Attempts -> Attempt]
        /\ \A u \in Attempts : attempt'[u].pc = "idle"
    BY IdleAttempt DEF PhonesRestart
  <1>2. muddled' \subseteq Holders /\ \A g \in Holders : Syncing(g) => g \in muddled'
    BY TypeOfAttempts DEF IInv, PhonesTypeOK, PhonesRestart, Syncing, Attempt
  <1>3. PhonesTypeOK'
    BY <1>1, <1>2, PhonesAssumption DEF IInv, PhonesTypeOK, PhonesRestart, Attempt
  <1>4. AttemptInv' /\ VerifiedIsProven' /\ NumberIsOnes'
    BY <1>1 DEF IInv, AttemptInv, VerifiedIsProven, NumberIsOnes, PhonesRestart
  <1>5. AgreeInv'
    BY <1>2 DEF IInv, AgreeInv, PhonesRestart
  <1> QED
    BY <1>3, <1>4, <1>5 DEF IInv

LEMMA InvNext == IInv /\ [PhonesNext]_phonesVars => IInv'
  <1> SUFFICES ASSUME IInv, [PhonesNext]_phonesVars PROVE IInv'
    OBVIOUS
  <1>1. ASSUME NEW t \in Attempts, SendsCode(t) PROVE IInv'
    <2>1. code' \subseteq Lines
      BY <1>1 DEF SendsCode, IInv, PhonesTypeOK, AttemptInv
    <2> QED
      BY <1>1, <2>1, InvEnds DEF SendsCode, AttemptIs
  <1>2. ASSUME NEW t \in Attempts, NEW right \in BOOLEAN, ChecksCode(t, right)
        PROVE  IInv'
    <2>1. CASE right /\ Approved(attempt[t].to)
      <3>1. right = TRUE
        BY <1>2, <2>1
      <3> QED
        BY <1>2, <2>1, <3>1, InvApproved DEF ChecksCode
    <2>2. CASE ~ (right /\ Approved(attempt[t].to))
      <3>1. code' \subseteq Lines
        BY <1>2, <2>2 DEF ChecksCode, IInv, PhonesTypeOK
      <3> QED
        BY <1>2, <2>2, <3>1, InvEnds DEF ChecksCode, AttemptIs
    <2> QED
      BY <2>1, <2>2
  <1>3. CASE UNCHANGED phonesVars
    BY <1>3
    DEF phonesVars, IInv, PhonesTypeOK, AttemptInv, VerifiedIsProven, NumberIsOnes,
        AgreeInv, Syncing
  <1> QED
    BY <1>1, <1>2, <1>3, InvStarts, InvUpdates, InvTellsYes, InvTellsNo, InvEdits,
       InvRestart
    DEF PhonesNext

-----------------------------------------------------------------------------
(* Theorems *)

LEMMA InvHolds == PhonesSpec => []IInv
  BY InvInit, InvNext, PTL DEF PhonesSpec

\* The state of the verification has its type.
THEOREM PhonesTyped == PhonesSpec => []PhonesTypeOK
  <1>1. IInv => PhonesTypeOK
    BY DEF IInv
  <1> QED
    BY <1>1, InvHolds, PTL

\* Whatever requests of several users for one number, edits, restarts and belated
\* calls come between, a verified number was proven by its holder and is nobody
\* else's, and the login provider says what the row says (verifyOtp, the guard,
\* updateTutorProfile).
THEOREM NumbersProven == PhonesSpec => []NumbersAreProven
  <1>1. IInv => NumbersAreProven
    BY DEF IInv, NumbersAreProven, ProviderAgrees, AgreeInv
  <1> QED
    BY <1>1, InvHolds, PTL

=============================================================================
