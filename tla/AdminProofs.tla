---------------------------- MODULE AdminProofs -----------------------------
(***************************************************************************)
(* Proofs about what admins do, for any number of their requests at one    *)
(* time and of failures: the account of a tutor (Staff), and the classes   *)
(* with their meetings (GroupClasses).  They share no variable; each part  *)
(* has an inductive invariant, a lemma for every action and its theorems.  *)
(***************************************************************************)
EXTENDS Staff, GroupClasses, TLAPS

-----------------------------------------------------------------------------
(* Part 1: a tutor's account.  A temporary password has to be changed, an   *)
(* address has one account, and a removed tutor is out.  removeTutor makes  *)
(* four writes: RemovalInv says what each of them may rely on when it       *)
(* comes; OvertakenInv, that a request which could undo a write was begun   *)
(* before it and is known as overtaken.                                     *)

Tutor == [exists: BOOLEAN, password: Passwords, force: BOOLEAN, verified: BOOLEAN,
          active: BOOLEAN, status: {"ACTIVE", "SUSPENDED"}, profile: BOOLEAN,
          invited: BOOLEAN, freed: BOOLEAN]
Load == [bookings: BOOLEAN, trial: BOOLEAN]
Deed == [pc: {"idle", "write", "trial", "profile", "user"}, of: DeedKinds,
         overtaken: BOOLEAN]

-----------------------------------------------------------------------------
(* The inductive invariant *)

\* Without an account nothing but creations is at work.
AbsentInv ==
    /\ created = IF tutor.exists THEN 1 ELSE 0
    /\ ~ tutor.exists => /\ ~ tutor.invited /\ ~ tutor.freed
                         /\ \A d \in Deeds : /\ deed[d].pc \in {"idle", "write"}
                                             /\ deed[d].pc = "write" => deed[d].of = "create"

\* What a removal has taken away is gone, unless something came late.
RemovalInv ==
    \A d \in Deeds :
        /\ deed[d].pc \in Past("bookings") /\ ~ late => ~ load.bookings
        /\ deed[d].pc \in Past("trial") /\ ~ late => ~ load.trial
        /\ deed[d].pc = "user" => ~ tutor.profile

\* Requests that could undo a removal were there before and are known.
OvertakenInv ==
    /\ tutor.exists /\ ~ tutor.profile
         => \A d \in Deeds : ToWrite(d, "take") => deed[d].overtaken
    /\ tutor.freed => ~ tutor.profile
    /\ tutor.freed /\ ~ late
         => /\ ~ tutor.invited
            /\ \A d \in Deeds : ToWrite(d, "accept") => deed[d].overtaken

StaffInv == StaffTypeOK /\ TemporaryIsForced /\ AbsentInv /\ RemovalInv /\ OvertakenInv
        /\ RemovedIsOut

USE DEF Past, ToWrite

LEMMA Types ==
  StaffTypeOK => /\ tutor \in Tutor /\ load \in Load /\ deed \in [Deeds -> Deed]
                 /\ late \in BOOLEAN
  BY DEF StaffTypeOK, Tutor, Load, Deed

LEMMA IdleDeed == NoDeed \in Deed /\ NoDeed.pc = "idle"
  BY DEF NoDeed, Deed, DeedKinds

LEMMA TutorRow ==
  ASSUME NEW x \in BOOLEAN, NEW p \in Passwords, NEW f \in BOOLEAN, NEW v \in BOOLEAN,
         NEW a \in BOOLEAN, NEW s \in {"ACTIVE", "SUSPENDED"}, NEW o \in BOOLEAN,
         NEW i \in BOOLEAN, NEW g \in BOOLEAN
  PROVE  [exists |-> x, password |-> p, force |-> f, verified |-> v, active |-> a,
          status |-> s, profile |-> o, invited |-> i, freed |-> g] \in Tutor
  BY DEF Tutor

LEMMA EmptyRow ==
  /\ NoTutor \in Tutor
  /\ NoTutor.exists = FALSE /\ NoTutor.password = "none" /\ NoTutor.force = FALSE
  /\ NoTutor.active = FALSE /\ NoTutor.profile = FALSE /\ NoTutor.invited = FALSE
  /\ NoTutor.freed = FALSE
  <1>1. "none" \in Passwords
    BY DEF Passwords
  <1> QED
    BY <1>1, TutorRow DEF NoTutor

LEMMA InvInit == StaffInit => StaffInv
  <1> SUFFICES ASSUME StaffInit PROVE StaffInv
    OBVIOUS
  <1>1. /\ tutor \in Tutor
        /\ tutor.exists = FALSE /\ tutor.password = "none" /\ tutor.force = FALSE
        /\ tutor.active = FALSE /\ tutor.profile = FALSE /\ tutor.invited = FALSE
        /\ tutor.freed = FALSE
    BY EmptyRow DEF StaffInit
  <1>2. StaffTypeOK
    <2>1. load \in Load
      BY DEF StaffInit, Load
    <2>2. late \in BOOLEAN /\ created \in Nat /\ halted \in 0..MaxHalts
          /\ deeds \in 0..MaxDeeds
      <3>1. late \in BOOLEAN
        BY DEF StaffInit
      <3>2. created \in Nat /\ halted \in 0..MaxHalts /\ deeds \in 0..MaxDeeds
        BY StaffAssumption DEF StaffInit
      <3> QED
        BY <3>1, <3>2
    <2>3. deed \in [Deeds -> Deed]
      BY IdleDeed DEF StaffInit
    <2> QED
      BY <1>1, <2>1, <2>2, <2>3 DEF StaffTypeOK, Tutor, Load, Deed
  <1>3. ~ tutor.exists /\ ~ tutor.invited /\ ~ tutor.freed /\ tutor.password = "none"
    BY <1>1
  <1>4. deed = [d \in Deeds |-> NoDeed] /\ created = 0
    BY DEF StaffInit
  <1>5. TemporaryIsForced /\ RemovedIsOut
    BY <1>3 DEF TemporaryIsForced, RemovedIsOut
  <1>6. AbsentInv
    BY <1>3, <1>4, IdleDeed DEF AbsentInv
  <1>7. RemovalInv /\ OvertakenInv
    BY <1>3, <1>4, IdleDeed DEF RemovalInv, OvertakenInv
  <1> QED
    BY <1>2, <1>5, <1>6, <1>7 DEF StaffInv

-----------------------------------------------------------------------------
(* One lemma per action *)

\* A request that has looked goes on to write.
LEMMA InvBegins ==
  ASSUME StaffInv, NEW d \in Deeds, NEW kind \in DeedKinds, Begins(d, kind),
         kind # "create" => tutor.exists,
         kind = "take" => tutor.profile,
         kind = "accept" => tutor.invited
  PROVE  StaffInv'
  <1> DEFINE q == [NoDeed EXCEPT !.pc = "write", !.of = kind]
  <1>1. q \in Deed /\ q.pc = "write" /\ q.of = kind
    BY IdleDeed DEF NoDeed, Deed
  <1>2. /\ deed' = [deed EXCEPT ![d] = q]
        /\ UNCHANGED <<tutor, load, created, late, halted>>
        /\ deeds' \in 0..MaxDeeds
    BY StaffAssumption DEF Begins, DeedIs, StaffInv, StaffTypeOK
  <1> HIDE DEF q
  <1>3. deed' \in [Deeds -> Deed]
        /\ \A e \in Deeds : deed'[e] = IF e = d THEN q ELSE deed[e]
    BY <1>1, <1>2, Types DEF StaffInv
  <1>4. StaffTypeOK'
    BY <1>2, <1>3 DEF StaffInv, StaffTypeOK, Deed
  <1>5. AbsentInv' /\ TemporaryIsForced' /\ RemovedIsOut'
    BY <1>1, <1>2, <1>3 DEF StaffInv, AbsentInv, TemporaryIsForced, RemovedIsOut
  <1>6. RemovalInv'
    BY <1>1, <1>2, <1>3 DEF StaffInv, RemovalInv
  <1>7. OvertakenInv'
    BY <1>1, <1>2, <1>3 DEF StaffInv, OvertakenInv
  <1> QED
    BY <1>4, <1>5, <1>6, <1>7 DEF StaffInv

\* A request ends and has written, at most, what points to no profile.
LEMMA InvWrites ==
  ASSUME StaffInv, NEW d \in Deeds, deed[d].pc = "write", NEW row \in Tutor,
         tutor' = row, deed' = [deed EXCEPT ![d] = NoDeed],
         UNCHANGED <<load, created, halted, deeds>>,
         late' \in BOOLEAN, late => late',
         row.exists = tutor.exists, row.profile = tutor.profile, row.freed = tutor.freed,
         row.invited => tutor.invited,
         row.password = "temporary" => row.force,
         row.active => tutor.active \/ (tutor.freed => late'),
         tutor.exists
  PROVE  StaffInv'
  <1>1. deed' \in [Deeds -> Deed]
        /\ \A e \in Deeds : deed'[e] = IF e = d THEN NoDeed ELSE deed[e]
    BY Types, IdleDeed DEF StaffInv
  <1>2. StaffTypeOK'
    BY <1>1 DEF StaffInv, StaffTypeOK, Tutor, Deed
  <1>3. AbsentInv' /\ TemporaryIsForced'
    BY DEF StaffInv, AbsentInv, TemporaryIsForced
  <1>4. RemovalInv'
    BY <1>1, IdleDeed DEF StaffInv, RemovalInv
  <1>5. OvertakenInv'
    BY <1>1, IdleDeed DEF StaffInv, OvertakenInv
  <1>6. RemovedIsOut'
    BY DEF StaffInv, RemovedIsOut
  <1> QED
    BY <1>2, <1>3, <1>4, <1>5, <1>6 DEF StaffInv

\* createTutor.
LEMMA InvCreates ==
  ASSUME StaffInv, NEW d \in Deeds, CreatesTutor(d)
  PROVE  StaffInv'
  <1>1. tutor \in Tutor
    BY Types DEF StaffInv
  <1>2. CASE tutor.exists
    <2>1. /\ tutor' = tutor /\ deed' = [deed EXCEPT ![d] = NoDeed] /\ deed[d].pc = "write"
          /\ UNCHANGED <<load, created, halted, deeds, late>>
      BY <1>2 DEF CreatesTutor, DeedIs
    <2>2. late' \in BOOLEAN
      BY <2>1, Types DEF StaffInv
    <2> QED
      BY <1>1, <1>2, <2>1, <2>2, InvWrites DEF StaffInv, TemporaryIsForced
  <1>3. CASE ~ tutor.exists
    <2> DEFINE row == [NoTutor EXCEPT !.exists = TRUE, !.password = "temporary",
                                      !.force = TRUE, !.active = TRUE, !.profile = TRUE]
    <2>1. NoTutor \in Tutor /\ NoTutor.invited = FALSE /\ NoTutor.freed = FALSE
      BY EmptyRow
    <2>6. "temporary" \in Passwords
      BY DEF Passwords
    <2>2. row \in Tutor /\ row.exists = TRUE /\ row.profile = TRUE /\ row.freed = FALSE
          /\ row.force = TRUE /\ row.invited = FALSE
      BY <2>1, <2>6 DEF Tutor
    <2>3. /\ tutor' = row /\ created' = created + 1
          /\ deed' = [deed EXCEPT ![d] = NoDeed]
          /\ UNCHANGED <<load, late, halted, deeds>>
      BY <1>3 DEF CreatesTutor, DeedIs
    <2> HIDE DEF row
    <2>4. deed' \in [Deeds -> Deed]
          /\ \A e \in Deeds : deed'[e] = IF e = d THEN NoDeed ELSE deed[e]
      BY <2>3, Types, IdleDeed DEF StaffInv
    <2>5. created = 0 /\ created' = 1
      BY <1>3, <2>3 DEF StaffInv, AbsentInv
    <2>7. StaffTypeOK'
      BY <2>2, <2>3, <2>4, <2>5 DEF StaffInv, StaffTypeOK, Tutor, Deed
    <2>8. AbsentInv' /\ TemporaryIsForced'
      BY <2>2, <2>3, <2>5 DEF AbsentInv, TemporaryIsForced
    <2>9. RemovalInv'
      BY <1>3, <2>4, IdleDeed DEF StaffInv, AbsentInv, RemovalInv
    <2>10. OvertakenInv' /\ RemovedIsOut'
      BY <2>2, <2>3 DEF OvertakenInv, RemovedIsOut
    <2> QED
      BY <2>7, <2>8, <2>9, <2>10 DEF StaffInv
  <1> QED
    BY <1>2, <1>3
\* The deeds after a step that changes one of them.
LEMMA OneDeed ==
  ASSUME StaffTypeOK, NEW d \in Deeds, NEW rec \in Deed, DeedIs(d, rec)
  PROVE  /\ deed' \in [Deeds -> Deed]
         /\ \A e \in Deeds : deed'[e] = IF e = d THEN rec ELSE deed[e]
  BY Types DEF DeedIs

\* ... and after one that overtakes the others.
LEMMA ManyDeeds ==
  ASSUME StaffTypeOK, NEW d \in Deeds, NEW rec \in Deed, Overtakes(d, rec)
  PROVE  /\ deed' \in [Deeds -> Deed]
         /\ deed'[d] = rec
         /\ \A e \in Deeds \ {d} :
               /\ deed'[e].pc = deed[e].pc /\ deed'[e].of = deed[e].of
               /\ deed'[e].overtaken = (deed[e].pc = "write" /\ deed[e].of # "remove")
  <1>1. deed \in [Deeds -> Deed]
    BY Types
  <1>2. ASSUME NEW e \in Deeds, NEW b \in BOOLEAN
        PROVE  /\ [deed[e] EXCEPT !.overtaken = b] \in Deed
               /\ [deed[e] EXCEPT !.overtaken = b].pc = deed[e].pc
               /\ [deed[e] EXCEPT !.overtaken = b].of = deed[e].of
               /\ [deed[e] EXCEPT !.overtaken = b].overtaken = b
    BY <1>1 DEF Deed
  <1> QED
    BY <1>1, <1>2 DEF Overtakes

\* The deed that goes on, with another pc.
LEMMA Steps ==
  ASSUME StaffTypeOK, NEW d \in Deeds, NEW p \in {"trial", "profile", "user"}
  PROVE  /\ [deed[d] EXCEPT !.pc = p] \in Deed
         /\ [deed[d] EXCEPT !.pc = p].pc = p
  BY Types DEF Deed

\* A claim or an assignment lands.
LEMMA InvTakes ==
  ASSUME StaffInv, NEW d \in Deeds, NEW what \in {"bookings", "trial"}, TakesWork(d, what)
  PROVE  StaffInv'
  <1>1. /\ deed[d].pc = "write" /\ deed[d].of = "take" /\ DeedIs(d, NoDeed)
        /\ load' = [load EXCEPT ![what] = TRUE]
        /\ late' = (late \/ deed[d].overtaken \/ \E r \in Deeds : deed[r].pc \in Past(what))
        /\ UNCHANGED <<tutor, created, halted, deeds>>
    BY DEF TakesWork
  <1>2. deed' \in [Deeds -> Deed]
        /\ \A e \in Deeds : deed'[e] = IF e = d THEN NoDeed ELSE deed[e]
    BY <1>1, OneDeed, IdleDeed DEF StaffInv
  <1>3. load' \in Load /\ \A w \in {"bookings", "trial"} : w # what => load'[w] = load[w]
    BY <1>1, Types DEF StaffInv, Load
  <1>4. late' \in BOOLEAN /\ (late => late')
    BY <1>1, Types DEF StaffInv
  <1>5. StaffTypeOK'
    BY <1>1, <1>2, <1>3, <1>4 DEF StaffInv, StaffTypeOK, Load, Deed
  <1>6. tutor.exists
    BY <1>1 DEF StaffInv, AbsentInv
  <1>7. AbsentInv' /\ TemporaryIsForced'
    BY <1>1, <1>6 DEF StaffInv, AbsentInv, TemporaryIsForced
  <1>8. RemovalInv'
    <2> SUFFICES ASSUME NEW e \in Deeds
                 PROVE  /\ deed'[e].pc \in Past("bookings") /\ ~ late' => ~ load'.bookings
                        /\ deed'[e].pc \in Past("trial") /\ ~ late' => ~ load'.trial
                        /\ deed'[e].pc = "user" => ~ tutor'.profile
      BY DEF RemovalInv
    <2>1. CASE e = d
      BY <2>1, <1>2, IdleDeed
    <2>2. CASE e # d
      <3>1. deed'[e] = deed[e]
        BY <2>2, <1>2
      <3>2. CASE what = "bookings"
        BY <3>1, <3>2, <1>1, <1>3, <1>4 DEF StaffInv, RemovalInv
      <3>3. CASE what = "trial"
        BY <3>1, <3>3, <1>1, <1>3, <1>4 DEF StaffInv, RemovalInv
      <3> QED
        BY <3>2, <3>3
    <2> QED
      BY <2>1, <2>2
  <1>9. OvertakenInv'
    BY <1>1, <1>2, <1>4, IdleDeed DEF StaffInv, OvertakenInv
  <1>10. RemovedIsOut'
    <2>1. tutor.freed => late'
      BY <1>1, <1>6 DEF StaffInv, OvertakenInv
    <2> QED
      BY <2>1, <1>1 DEF RemovedIsOut
  <1> QED
    BY <1>5, <1>7, <1>8, <1>9, <1>10 DEF StaffInv

\* The first write of a removal.
LEMMA InvUnassigns ==
  ASSUME StaffInv, NEW d \in Deeds, UnassignsBookings(d)
  PROVE  StaffInv'
  <1> DEFINE rec == [deed[d] EXCEPT !.pc = "trial"]
  <1>1. /\ deed[d].pc = "write" /\ deed[d].of = "remove" /\ DeedIs(d, rec)
        /\ load' = [load EXCEPT !.bookings = FALSE]
        /\ UNCHANGED <<tutor, created, late, halted, deeds>>
    BY DEF UnassignsBookings
  <1>2. rec \in Deed /\ rec.pc = "trial"
    BY Steps DEF StaffInv
  <1> HIDE DEF rec
  <1>3. deed' \in [Deeds -> Deed]
        /\ \A e \in Deeds : deed'[e] = IF e = d THEN rec ELSE deed[e]
    BY <1>1, <1>2, OneDeed DEF StaffInv
  <1>4. load' \in Load /\ load'.bookings = FALSE /\ load'.trial = load.trial
    BY <1>1, Types DEF StaffInv, Load
  <1>5. StaffTypeOK'
    BY <1>1, <1>3, <1>4 DEF StaffInv, StaffTypeOK, Load, Deed
  <1>6. tutor.exists
    BY <1>1 DEF StaffInv, AbsentInv
  <1>7. AbsentInv' /\ TemporaryIsForced' /\ RemovedIsOut'
    BY <1>1, <1>4, <1>6 DEF StaffInv, AbsentInv, TemporaryIsForced, RemovedIsOut
  <1>8. RemovalInv' /\ OvertakenInv'
    BY <1>1, <1>2, <1>3, <1>4 DEF StaffInv, RemovalInv, OvertakenInv
  <1> QED
    BY <1>5, <1>7, <1>8 DEF StaffInv

\* The second.
LEMMA InvClears ==
  ASSUME StaffInv, NEW d \in Deeds, ClearsTrials(d)
  PROVE  StaffInv'
  <1> DEFINE rec == [deed[d] EXCEPT !.pc = "profile"]
  <1>1. /\ deed[d].pc = "trial" /\ DeedIs(d, rec)
        /\ load' = [load EXCEPT !.trial = FALSE]
        /\ UNCHANGED <<tutor, created, late, halted, deeds>>
    BY DEF ClearsTrials, ClearedTrials
  <1>2. rec \in Deed /\ rec.pc = "profile"
    BY Steps DEF StaffInv
  <1> HIDE DEF rec
  <1>3. deed' \in [Deeds -> Deed]
        /\ \A e \in Deeds : deed'[e] = IF e = d THEN rec ELSE deed[e]
    BY <1>1, <1>2, OneDeed DEF StaffInv
  <1>4. load' \in Load /\ load'.bookings = load.bookings /\ load'.trial = FALSE
    BY <1>1, Types DEF StaffInv, Load
  <1>5. StaffTypeOK'
    BY <1>1, <1>3, <1>4 DEF StaffInv, StaffTypeOK, Load, Deed
  <1>6. tutor.exists
    BY <1>1 DEF StaffInv, AbsentInv
  <1>7. AbsentInv' /\ TemporaryIsForced' /\ RemovedIsOut'
    BY <1>1, <1>4, <1>6 DEF StaffInv, AbsentInv, TemporaryIsForced, RemovedIsOut
  <1>8. RemovalInv' /\ OvertakenInv'
    BY <1>1, <1>2, <1>3, <1>4 DEF StaffInv, RemovalInv, OvertakenInv
  <1> QED
    BY <1>5, <1>7, <1>8 DEF StaffInv

\* The third: from now on no work is looked for, and who has looked is known.
LEMMA InvDeactivatesProfile ==
  ASSUME StaffInv, NEW d \in Deeds, DeactivatesProfile(d)
  PROVE  StaffInv'
  <1> DEFINE rec == [deed[d] EXCEPT !.pc = "user"]
             row == [tutor EXCEPT !.profile = FALSE]
  <1>1. /\ deed[d].pc = "profile" /\ Overtakes(d, rec) /\ tutor' = row
        /\ UNCHANGED <<load, created, late, halted, deeds>>
    BY DEF DeactivatesProfile
  <1>2. rec \in Deed /\ rec.pc = "user"
    BY Steps DEF StaffInv
  <1>3. /\ row \in Tutor /\ row.profile = FALSE /\ row.exists = tutor.exists
        /\ row.password = tutor.password /\ row.force = tutor.force
        /\ row.active = tutor.active /\ row.invited = tutor.invited
        /\ row.freed = tutor.freed
    BY Types DEF StaffInv, Tutor
  <1> HIDE DEF rec, row
  <1>4. /\ deed' \in [Deeds -> Deed] /\ deed'[d] = rec
        /\ \A e \in Deeds \ {d} :
              /\ deed'[e].pc = deed[e].pc /\ deed'[e].of = deed[e].of
              /\ deed'[e].overtaken = (deed[e].pc = "write" /\ deed[e].of # "remove")
    BY <1>1, <1>2, ManyDeeds DEF StaffInv
  <1>5. StaffTypeOK'
    BY <1>1, <1>3, <1>4 DEF StaffInv, StaffTypeOK, Tutor, Deed
  <1>6. tutor.exists
    BY <1>1 DEF StaffInv, AbsentInv
  <1>7. AbsentInv' /\ TemporaryIsForced' /\ RemovedIsOut'
    BY <1>1, <1>3, <1>6 DEF StaffInv, AbsentInv, TemporaryIsForced, RemovedIsOut
  <1>8. RemovalInv'
    BY <1>1, <1>2, <1>3, <1>4 DEF StaffInv, RemovalInv
  <1>9. OvertakenInv'
    BY ZenonT(60), <1>1, <1>2, <1>3, <1>4 DEF StaffInv, OvertakenInv
  <1> QED
    BY <1>5, <1>7, <1>8, <1>9 DEF StaffInv

\* The last: everything was taken away, or something came late.
LEMMA InvDeactivatesUser ==
  ASSUME StaffInv, NEW d \in Deeds, DeactivatesUser(d)
  PROVE  StaffInv'
  <1> DEFINE row == [tutor EXCEPT !.active = FALSE, !.status = "SUSPENDED", !.freed = TRUE]
  <1>1. /\ deed[d].pc = "user" /\ Overtakes(d, NoDeed) /\ tutor' = row
        /\ late' = (late \/ tutor.invited)
        /\ UNCHANGED <<load, created, halted, deeds>>
    BY DEF DeactivatesUser
  <1>2. /\ row \in Tutor /\ row.profile = tutor.profile /\ row.exists = tutor.exists
        /\ row.password = tutor.password /\ row.force = tutor.force
        /\ row.active = FALSE /\ row.invited = tutor.invited /\ row.freed = TRUE
    BY Types DEF StaffInv, Tutor
  <1> HIDE DEF row
  <1>3. /\ deed' \in [Deeds -> Deed] /\ deed'[d] = NoDeed
        /\ \A e \in Deeds \ {d} :
              /\ deed'[e].pc = deed[e].pc /\ deed'[e].of = deed[e].of
              /\ deed'[e].overtaken = (deed[e].pc = "write" /\ deed[e].of # "remove")
    BY <1>1, IdleDeed, ManyDeeds DEF StaffInv
  <1>4. late' \in BOOLEAN /\ (late => late') /\ tutor.invited \in BOOLEAN
    BY <1>1, Types DEF StaffInv, Tutor
  <1>5. StaffTypeOK'
    BY <1>1, <1>2, <1>3, <1>4 DEF StaffInv, StaffTypeOK, Tutor, Deed
  <1>6. tutor.exists
    BY <1>1 DEF StaffInv, AbsentInv
  <1>7. ~ tutor.profile /\ (~ late => ~ load.bookings /\ ~ load.trial)
    BY <1>1 DEF StaffInv, RemovalInv
  <1>8. AbsentInv' /\ TemporaryIsForced' /\ RemovedIsOut'
    BY <1>1, <1>2, <1>4, <1>6, <1>7
       DEF StaffInv, AbsentInv, TemporaryIsForced, RemovedIsOut
  <1>9. RemovalInv'
    BY <1>1, <1>2, <1>3, <1>4, IdleDeed DEF StaffInv, RemovalInv
  <1>10. OvertakenInv'
    BY ZenonT(60), <1>1, <1>2, <1>3, <1>4, <1>6, <1>7, IdleDeed DEF StaffInv, OvertakenInv
  <1> QED
    BY <1>5, <1>8, <1>9, <1>10 DEF StaffInv

\* A removal that stops half-way leaves what it has not reached.
LEMMA InvHalts ==
  ASSUME StaffInv, NEW d \in Deeds, RemovalHalts(d)
  PROVE  StaffInv'
  <1>1. /\ deed[d].pc \in {"trial", "profile", "user"} /\ DeedIs(d, NoDeed)
        /\ halted' \in 0..MaxHalts
        /\ UNCHANGED <<tutor, load, created, late, deeds>>
    BY StaffAssumption DEF RemovalHalts, StaffInv, StaffTypeOK
  <1>2. deed' \in [Deeds -> Deed]
        /\ \A e \in Deeds : deed'[e] = IF e = d THEN NoDeed ELSE deed[e]
    BY <1>1, OneDeed, IdleDeed DEF StaffInv
  <1>3. StaffTypeOK'
    BY <1>1, <1>2 DEF StaffInv, StaffTypeOK, Deed
  <1>4. tutor.exists
    BY <1>1 DEF StaffInv, AbsentInv
  <1>5. AbsentInv' /\ TemporaryIsForced' /\ RemovedIsOut'
    BY <1>1, <1>4 DEF StaffInv, AbsentInv, TemporaryIsForced, RemovedIsOut
  <1>6. RemovalInv' /\ OvertakenInv'
    BY <1>1, <1>2, IdleDeed DEF StaffInv, RemovalInv, OvertakenInv
  <1> QED
    BY <1>3, <1>5, <1>6 DEF StaffInv

\* An invitation, or a status: one column of the user and no request.
LEMMA InvColumn ==
  ASSUME StaffInv, NEW row \in Tutor, tutor' = row, tutor.exists,
         row.exists = tutor.exists, row.password = tutor.password,
         row.force = tutor.force, row.active = tutor.active,
         row.profile = tutor.profile, row.freed = tutor.freed,
         row.invited => tutor.invited \/ ~ tutor.freed,
         UNCHANGED <<load, deed, created, late, halted>>, deeds' \in 0..MaxDeeds
  PROVE  StaffInv'
  <1>1. StaffTypeOK'
    BY DEF StaffInv, StaffTypeOK, Tutor
  <1>2. AbsentInv' /\ TemporaryIsForced' /\ RemovedIsOut'
    BY DEF StaffInv, AbsentInv, TemporaryIsForced, RemovedIsOut
  <1>3. RemovalInv' /\ OvertakenInv'
    BY DEF StaffInv, RemovalInv, OvertakenInv
  <1> QED
    BY <1>1, <1>2, <1>3 DEF StaffInv

\* acceptTutorInvite, changePassword, resetTutorPassword.
LEMMA InvPasswords ==
  ASSUME StaffInv, NEW d \in Deeds,
         AcceptsInvite(d) \/ ChangesPassword(d) \/ ResetsPassword(d)
  PROVE  StaffInv'
  <1>1. tutor \in Tutor /\ late \in BOOLEAN /\ deed \in [Deeds -> Deed]
    BY Types DEF StaffInv
  <1>2. "own" \in Passwords /\ "temporary" \in Passwords
    BY DEF Passwords
  <1>3. CASE AcceptsInvite(d)
    <2> DEFINE row == [tutor EXCEPT !.password = "own", !.verified = TRUE,
                                    !.invited = FALSE, !.active = TRUE]
    <2>1. /\ row \in Tutor /\ row.exists = tutor.exists /\ row.profile = tutor.profile
          /\ row.freed = tutor.freed /\ row.invited = FALSE /\ row.password = "own"
      BY <1>1, <1>2 DEF Tutor
    <2>2. /\ deed[d].pc = "write" /\ deed[d].of = "accept" /\ tutor' = row
          /\ deed' = [deed EXCEPT ![d] = NoDeed] /\ late' = (late \/ deed[d].overtaken)
          /\ UNCHANGED <<load, created, halted, deeds>>
      BY <1>3 DEF AcceptsInvite, DeedIs
    <2> HIDE DEF row
    <2>3. tutor.exists /\ (tutor.freed => late')
      BY <2>2 DEF StaffInv, AbsentInv, OvertakenInv
    <2>4. late' \in BOOLEAN /\ (late => late')
      BY <1>1, <2>2
    <2> QED
      BY <2>1, <2>2, <2>3, <2>4, InvWrites
  <1>4. CASE ChangesPassword(d)
    <2> DEFINE row == [tutor EXCEPT !.password = "own", !.force = FALSE]
    <2>1. /\ row \in Tutor /\ row.exists = tutor.exists /\ row.profile = tutor.profile
          /\ row.freed = tutor.freed /\ row.invited = tutor.invited
          /\ row.password = "own" /\ row.active = tutor.active
      BY <1>1, <1>2 DEF Tutor
    <2>2. /\ deed[d].pc = "write" /\ deed[d].of = "change" /\ tutor' = row
          /\ deed' = [deed EXCEPT ![d] = NoDeed]
          /\ UNCHANGED <<load, created, late, halted, deeds>>
      BY <1>4 DEF ChangesPassword, DeedIs
    <2> HIDE DEF row
    <2>3. tutor.exists
      BY <2>2 DEF StaffInv, AbsentInv
    <2> QED
      BY <1>1, <2>1, <2>2, <2>3, InvWrites
  <1>5. CASE ResetsPassword(d)
    <2> DEFINE row == [tutor EXCEPT !.password = "temporary", !.force = TRUE]
    <2>1. /\ row \in Tutor /\ row.exists = tutor.exists /\ row.profile = tutor.profile
          /\ row.freed = tutor.freed /\ row.invited = tutor.invited
          /\ row.force /\ row.active = tutor.active
      BY <1>1, <1>2 DEF Tutor
    <2>2. /\ deed[d].pc = "write" /\ deed[d].of = "reset" /\ tutor' = row
          /\ deed' = [deed EXCEPT ![d] = NoDeed]
          /\ UNCHANGED <<load, created, late, halted, deeds>>
      BY <1>5 DEF ResetsPassword, DeedIs
    <2> HIDE DEF row
    <2>3. tutor.exists
      BY <2>2 DEF StaffInv, AbsentInv
    <2> QED
      BY <1>1, <2>1, <2>2, <2>3, InvWrites
  <1> QED
    BY <1>3, <1>4, <1>5

LEMMA InvSettings ==
  ASSUME StaffInv, Invited \/ \E s \in {"ACTIVE", "SUSPENDED"} : SetsTutorStatus(s)
  PROVE  StaffInv'
  <1>1. tutor \in Tutor
    BY Types DEF StaffInv
  <1>2. deeds' \in 0..MaxDeeds
    BY StaffAssumption DEF Invited, SetsTutorStatus, StaffInv, StaffTypeOK
  <1>3. CASE Invited
    <2> DEFINE row == [tutor EXCEPT !.invited = TRUE]
    <2>1. /\ row \in Tutor /\ row.exists = tutor.exists /\ row.profile = tutor.profile
          /\ row.freed = tutor.freed /\ row.password = tutor.password
          /\ row.force = tutor.force /\ row.active = tutor.active
      BY <1>1 DEF Tutor
    <2>2. /\ tutor' = row /\ tutor.exists /\ ~ tutor.freed
          /\ UNCHANGED <<load, deed, created, late, halted>>
      BY <1>3 DEF Invited
    <2> HIDE DEF row
    <2> QED
      BY <1>2, <2>1, <2>2, InvColumn
  <1>4. CASE \E s \in {"ACTIVE", "SUSPENDED"} : SetsTutorStatus(s)
    <2> PICK s \in {"ACTIVE", "SUSPENDED"} : SetsTutorStatus(s)
      BY <1>4
    <2> DEFINE row == [tutor EXCEPT !.status = s]
    <2>1. /\ row \in Tutor /\ row.exists = tutor.exists /\ row.profile = tutor.profile
          /\ row.freed = tutor.freed /\ row.password = tutor.password
          /\ row.force = tutor.force /\ row.active = tutor.active
          /\ row.invited = tutor.invited
      BY <1>1 DEF Tutor
    <2>2. /\ tutor' = row /\ tutor.exists
          /\ UNCHANGED <<load, deed, created, late, halted>>
      BY DEF SetsTutorStatus
    <2> HIDE DEF row
    <2> QED
      BY <1>2, <2>1, <2>2, InvColumn
  <1> QED
    BY <1>3, <1>4

\* A request begins where its lookup succeeds.
LEMMA InvLooks ==
  ASSUME StaffInv, NEW d \in Deeds,
         \/ LooksForEmail(d) \/ LooksForToken(d) \/ LooksForPassword(d)
         \/ LooksForWork(d) \/ LooksForTutor(d)
  PROVE  StaffInv'
  <1>1. tutor.invited => tutor.exists
    BY DEF StaffInv, AbsentInv
  <1>2. {"create", "accept", "change", "reset", "take", "remove"} \subseteq DeedKinds
    BY DEF DeedKinds
  <1>3. CASE LooksForEmail(d)
    BY <1>2, <1>3, InvBegins DEF LooksForEmail
  <1>4. CASE LooksForToken(d)
    BY <1>1, <1>2, <1>4, InvBegins DEF LooksForToken
  <1>5. CASE LooksForPassword(d)
    BY <1>2, <1>5, InvBegins DEF LooksForPassword
  <1>6. CASE LooksForWork(d)
    BY <1>2, <1>6, InvBegins DEF LooksForWork, MayWork
  <1>7. CASE LooksForTutor(d)
    BY <1>2, <1>7, InvBegins DEF LooksForTutor
  <1> QED
    BY <1>3, <1>4, <1>5, <1>6, <1>7

LEMMA InvNext == StaffInv /\ [StaffNext]_staffVars => StaffInv'
  <1> SUFFICES ASSUME StaffInv, [StaffNext]_staffVars PROVE StaffInv'
    OBVIOUS
  <1>1. CASE UNCHANGED staffVars
    <2>1. UNCHANGED <<tutor, load, deed, created, late, halted, deeds>>
      BY <1>1 DEF staffVars
    <2>2. StaffTypeOK'
      BY <2>1 DEF StaffInv, StaffTypeOK
    <2>3. AbsentInv' /\ RemovalInv' /\ OvertakenInv'
      BY <2>1 DEF StaffInv, AbsentInv, RemovalInv, OvertakenInv
    <2>4. TemporaryIsForced' /\ RemovedIsOut'
      BY <2>1 DEF StaffInv, TemporaryIsForced, RemovedIsOut
    <2> QED
      BY <2>2, <2>3, <2>4 DEF StaffInv
  <1>2. ASSUME NEW d \in Deeds,
               \/ LooksForEmail(d) \/ CreatesTutor(d) \/ LooksForToken(d)
               \/ AcceptsInvite(d) \/ LooksForPassword(d) \/ ChangesPassword(d)
               \/ ResetsPassword(d) \/ LooksForWork(d) \/ LooksForTutor(d)
        PROVE  StaffInv'
    BY <1>2, InvLooks, InvCreates, InvPasswords
  <1>3. ASSUME NEW d \in Deeds, NEW what \in {"bookings", "trial"}, TakesWork(d, what)
        PROVE  StaffInv'
    BY <1>3, InvTakes
  <1>4. ASSUME NEW d \in Deeds,
               \/ UnassignsBookings(d) \/ ClearsTrials(d) \/ DeactivatesProfile(d)
               \/ DeactivatesUser(d) \/ RemovalHalts(d)
        PROVE  StaffInv'
    BY <1>4, InvUnassigns, InvClears, InvDeactivatesProfile, InvDeactivatesUser, InvHalts
  <1>5. CASE Invited \/ \E s \in {"ACTIVE", "SUSPENDED"} : SetsTutorStatus(s)
    BY <1>5, InvSettings
  <1> QED
    BY <1>1, <1>2, <1>3, <1>4, <1>5 DEF StaffNext

\* Whatever requests of admins and of the tutor overlap and wherever a removal
\* stops: a temporary password has to be changed (createTutor and
\* resetTutorPassword set force_password_change with it), an address has one
\* account, and once removeTutor has freed the address the tutor neither logs in
\* nor works and nothing points to the tutor, unless something came late.
THEOREM StaffKept == StaffSpec => []StaffInOrder
  <1>1. StaffInv => StaffInOrder
    BY DEF StaffInv, StaffInOrder, CreatedOnce, AbsentInv
  <1> QED
    BY <1>1, InvInit, InvNext, PTL DEF StaffSpec

\* Every row and every request has its type.
THEOREM StaffTyped == StaffSpec => []StaffTypeOK
  <1>1. StaffInv => StaffTypeOK
    BY DEF StaffInv
  <1> QED
    BY <1>1, InvInit, InvNext, PTL DEF StaffSpec

-----------------------------------------------------------------------------
(* Part 2: classes and their meetings.  Where every meeting belongs, what a *)
(* task in hand may hold, and who moves a class; what is said of the        *)
(* requests for another time follows from who handles them.                 *)

Fresh == {"check", "meet", "undo", "commit"}
Changing == {"update", "recreate", "write"}

\* What a meeting is for: a class that has it or is being moved from it, a date
\* of a creation at work, or a move that has made it and has yet to write it.
OfClass(c, m) ==
    \/ class[c].meeting = m
    \/ \E a \in Admins : /\ task[a].pc \in Changing /\ task[a].class = c
                         /\ task[a].old = m
OfCreation(a, s, m) == task[a].got[s] = m
OfMove(a, m) == task[a].pc = "write" /\ task[a].new = m

\* What is known of a task by its pc alone.
TaskShape(t) ==
    /\ t.pc \notin Fresh => \A s \in Slots : t.got[s] = NoMeeting
    /\ t.todo \subseteq t.slots
    /\ \A s \in Slots : t.got[s] # NoMeeting => s \in t.slots \ t.todo
    /\ t.pc \in Changing => t.slot \in Slots
    /\ t.pc \in {"update", "recreate"} => t.old # NoMeeting /\ t.new = NoMeeting
    /\ t.pc = "write" /\ t.new # NoMeeting => t.old # NoMeeting

ShapesFit == \A a \in Admins : TaskShape(task[a])

\* No number is in use that has not been given out.
Numbered ==
    /\ removing \subseteq 1..issued
    /\ \A c \in Classes : class[c].meeting <= issued
    /\ \A a \in Admins : /\ task[a].old <= issued /\ task[a].new <= issued
                         /\ \A s \in Slots : task[a].got[s] <= issued

\* A class comes from its creation and is there before it is moved.
StatusFits ==
    /\ \A a \in Admins : task[a].pc # "done" =>
          \A s \in Slots : class[<<a, s>>].status = "none"
    /\ \A a \in Admins : task[a].pc \in Changing =>
          /\ class[task[a].class].status # "none"
          /\ task[a].old # NoMeeting => class[task[a].class].meeting # NoMeeting
    /\ \A c \in Classes : class[c].status = "none" => class[c].meeting = NoMeeting

\* No meeting is for two things.
MeetingsApart ==
    \A m \in Meetings :
        /\ \A c, d \in Classes : OfClass(c, m) /\ OfClass(d, m) => c = d
        /\ \A a, b \in Admins, s, u \in Slots :
              OfCreation(a, s, m) /\ OfCreation(b, u, m) => a = b /\ s = u
        /\ \A a, b \in Admins : OfMove(a, m) /\ OfMove(b, m) => a = b
        /\ \A c \in Classes, a \in Admins : ~ (OfClass(c, m) /\ OfMove(a, m))
        /\ \A c \in Classes, a \in Admins, s \in Slots :
              ~ (OfClass(c, m) /\ OfCreation(a, s, m))
        /\ \A a, b \in Admins, s \in Slots : ~ (OfMove(b, m) /\ OfCreation(a, s, m))

\* What a creation has made is at Zoom until it is written or undone.
CreationsFit ==
    \A a \in Admins, s \in Slots :
        task[a].got[s] # NoMeeting
        => zoom[task[a].got[s]] = s /\ task[a].got[s] \notin removing

\* So is what a move has made; the meeting it replaces is gone or going.
MovesFit ==
    \A a \in Admins :
        task[a].pc = "write" /\ task[a].new # NoMeeting
        => /\ zoom[task[a].new] = task[a].slot /\ task[a].new \notin removing
           /\ zoom[task[a].old] = NoSlot \/ task[a].old \in removing \union leftOver

\* Unless two admins have moved it at one time, who moves a class is alone.
OneMover ==
    \A c \in Classes \ raced :
        \A a, b \in Admins :
            /\ task[a].pc \in Changing /\ task[a].class = c
            /\ task[b].pc \in Changing /\ task[b].class = c
            => a = b /\ task[a].old = class[c].meeting

WithMeeting(c) == class[c].status = "scheduled" /\ class[c].meeting # NoMeeting

HasMeeting ==
    \A c \in Classes :
        WithMeeting(c) /\ c \notin torn
        => \/ zoom[class[c].meeting] # NoSlot /\ class[c].meeting \notin removing
           \/ \E a \in Admins : /\ task[a].pc = "write" /\ task[a].class = c
                                /\ task[a].new # NoMeeting
                                /\ task[a].old = class[c].meeting

\* The time at Zoom is that of the class, or of the move that has set it.
InTime ==
    \A c \in Classes :
        WithMeeting(c) /\ c \notin torn /\ c \notin raced
        => /\ (\A a \in Admins : ~ (task[a].pc = "write" /\ task[a].class = c))
              => zoom[class[c].meeting] = class[c].slot
           /\ \A a \in Admins :
                 task[a].pc = "write" /\ task[a].class = c /\ task[a].new = NoMeeting
                 => zoom[class[c].meeting] = task[a].slot

HasPlace(m) ==
    \/ \E c \in Classes : class[c].meeting = m /\ class[c].status # "cancelled"
    \/ \E a \in Admins : OfMove(a, m) \/ \E s \in Slots : OfCreation(a, s, m)
    \/ m \in removing \union leftOver

AllPlaced == \A m \in Meetings : zoom[m] # NoSlot => HasPlace(m)

MeetingsInv ==
    /\ ShapesFit /\ Numbered /\ StatusFits /\ MeetingsApart /\ CreationsFit
    /\ MovesFit /\ OneMover /\ HasMeeting /\ InTime /\ AllPlaced

GroupInv == GroupClassesTypeOK /\ MeetingsInv

-----------------------------------------------------------------------------
(* Types and how a task turns *)

LEMMA GroupNumbers ==
  ASSUME GroupClassesTypeOK
  PROVE  /\ issued \in Nat /\ issued <= MaxMeetings /\ MaxMeetings \in Nat
         /\ mishaps \in Nat /\ MaxMishaps \in Nat /\ MaxTasks \in Nat /\ MaxSlot \in Nat
         /\ 1 \in Admins /\ 1 \in Slots /\ <<1, 1>> \in Classes
         /\ NoSlot \notin Slots /\ NoMeeting \notin Meetings
  <1>1. /\ MaxMeetings \in Nat /\ MaxMishaps \in Nat
        /\ MaxTasks \in Nat \ {0} /\ MaxSlot \in Nat \ {0}
    BY GroupClassesAssumption
  <1>2. issued \in 0..MaxMeetings /\ mishaps \in 0..MaxMishaps
    BY DEF GroupClassesTypeOK
  <1>3. 1 \in Admins /\ 1 \in Slots /\ NoSlot \notin Slots /\ NoMeeting \notin Meetings
    BY <1>1 DEF Admins, Slots, Meetings, NoSlot, NoMeeting
  <1> QED
    BY <1>1, <1>2, <1>3 DEF Classes

LEMMA MeetingNumber ==
  ASSUME GroupClassesTypeOK, NEW m \in Meetings \union {NoMeeting}
  PROVE  m \in Nat /\ (m # NoMeeting => m \in Meetings) /\ (m \in Meetings => m # NoMeeting)
  BY GroupNumbers DEF Meetings, NoMeeting

LEMMA TaskTyped ==
  ASSUME NEW t \in Task
  PROVE  /\ t.pc \in {"idle", "done", "check", "meet", "undo", "commit", "update",
                      "recreate", "write", "mark"}
         /\ t.todo \subseteq Slots /\ t.slots \subseteq Slots
         /\ t.got \in [Slots -> Meetings \union {NoMeeting}]
         /\ \A s \in Slots : t.got[s] \in Meetings \union {NoMeeting}
         /\ t.class \in Classes /\ t.slot \in Slots \union {NoSlot}
         /\ t.old \in Meetings \union {NoMeeting} /\ t.new \in Meetings \union {NoMeeting}
         /\ t.for \subseteq Requests /\ t.zoomed \in BOOLEAN
  BY DEF Task

LEMMA NoTaskTyped ==
  ASSUME GroupClassesTypeOK
  PROVE  /\ NoTask \in Task /\ NoTask.pc = "idle" /\ NoTask.got = GotNothing
         /\ NoTask.old = NoMeeting /\ NoTask.new = NoMeeting /\ NoTask.for = {}
         /\ NoTask.todo = {} /\ NoTask.slots = {}
         /\ \A s \in Slots : GotNothing[s] = NoMeeting
  BY GroupNumbers DEF NoTask, GotNothing, Task

LEMMA OverTyped ==
  ASSUME GroupClassesTypeOK
  PROVE  /\ Over \in Task /\ Over.pc = "done" /\ Over.got = GotNothing
         /\ Over.old = NoMeeting /\ Over.new = NoMeeting /\ Over.for = {}
         /\ TaskShape(Over) /\ \A s \in Slots : Over.got[s] = NoMeeting
  <1>1. PICK t \in Task : t = NoTask
    BY NoTaskTyped
  <1>2. PICK q : q = [t EXCEPT !.pc = "done"]
    OBVIOUS
  <1>3. /\ q \in Task /\ q.pc = "done" /\ q.got = t.got /\ q.old = t.old /\ q.new = t.new
        /\ q.for = t.for /\ q.todo = t.todo /\ q.slots = t.slots
    BY <1>2 DEF Task
  <1>4. q = Over
    BY <1>1, <1>2 DEF Over
  <1>5. /\ q.pc = "done" /\ q.got = GotNothing /\ q.old = NoMeeting /\ q.new = NoMeeting
        /\ q.for = {} /\ q.todo = {} /\ q.slots = {}
        /\ \A s \in Slots : q.got[s] = NoMeeting
    BY <1>1, <1>3, NoTaskTyped
  <1>6. TaskShape(q)
    BY <1>5 DEF TaskShape, Changing, Fresh
  <1> QED
    BY <1>3, <1>4, <1>5, <1>6

\* The task of a turns to q, and no other changes.
TaskTurns(a, q) ==
    /\ q \in Task /\ task' \in [Admins -> Task] /\ task'[a] = q
    /\ \A b \in Admins : b # a => task'[b] = task[b]

LEMMA TurnsTask ==
  ASSUME GroupClassesTypeOK, NEW a \in Admins, NEW q \in Task,
         task' = [task EXCEPT ![a] = q]
  PROVE  TaskTurns(a, q)
  BY DEF GroupClassesTypeOK, TaskTurns

LEMMA TaskOf ==
  ASSUME GroupClassesTypeOK, NEW a \in Admins
  PROVE  task[a] \in Task
  BY DEF GroupClassesTypeOK

LEMMA ClassOf ==
  ASSUME GroupClassesTypeOK, NEW c \in Classes
  PROVE  /\ class[c] \in Class /\ class[c].status \in {"none", "scheduled", "cancelled"}
         /\ class[c].slot \in Slots \union {NoSlot}
         /\ class[c].meeting \in Meetings \union {NoMeeting}
  BY DEF GroupClassesTypeOK, Class

LEMMA Ending ==
  ASSUME GroupClassesTypeOK, NEW a \in Admins, TaskEnds(a)
  PROVE  TaskTurns(a, Over)
  BY TurnsTask, OverTyped DEF TaskEnds

LEMMA GoingTo ==
  ASSUME GroupClassesTypeOK, NEW a \in Admins,
         NEW pc \in {"check", "meet", "undo", "commit", "update", "recreate", "write", "mark"},
         TaskGoesTo(a, pc)
  PROVE  \E q \in Task : /\ TaskTurns(a, q) /\ q.pc = pc
                         /\ q.todo = task[a].todo /\ q.slots = task[a].slots
                         /\ q.got = task[a].got /\ q.class = task[a].class
                         /\ q.slot = task[a].slot /\ q.old = task[a].old
                         /\ q.new = task[a].new /\ q.for = task[a].for
  <1>1. PICK q : q = [task[a] EXCEPT !.pc = pc]
    OBVIOUS
  <1>2. /\ q \in Task /\ q.pc = pc
        /\ q.todo = task[a].todo /\ q.slots = task[a].slots
        /\ q.got = task[a].got /\ q.class = task[a].class
        /\ q.slot = task[a].slot /\ q.old = task[a].old
        /\ q.new = task[a].new /\ q.for = task[a].for
    BY <1>1, TaskOf DEF Task
  <1>3. task' = [task EXCEPT ![a] = q]
    BY <1>1 DEF TaskGoesTo, GroupClassesTypeOK
  <1>4. TaskTurns(a, q)
    BY <1>2, <1>3, TurnsTask
  <1> QED
    BY <1>2, <1>4

-----------------------------------------------------------------------------
(* Nothing of the meetings changes *)

LEMMA MeetingsUntouched ==
  ASSUME MeetingsInv, UNCHANGED <<class, zoom, issued, removing, task, leftOver, torn, raced>>
  PROVE  MeetingsInv'
  BY DEF MeetingsInv, ShapesFit, Numbered, StatusFits, MeetingsApart, CreationsFit, MovesFit,
         OneMover, HasMeeting, InTime, AllPlaced, OfClass, OfCreation, OfMove, HasPlace,
         WithMeeting

\* A meeting stays for one thing where it is for nothing new.
LEMMA ApartStays ==
  ASSUME MeetingsApart,
         \A m \in Meetings :
            /\ \A c \in Classes : OfClass(c, m)' => OfClass(c, m)
            /\ \A a \in Admins, s \in Slots : OfCreation(a, s, m)' => OfCreation(a, s, m)
            /\ \A a \in Admins : OfMove(a, m)' => OfMove(a, m)
  PROVE  MeetingsApart'
  BY DEF MeetingsApart

\* Some class is moved by a, and what a turn to q takes away is left over.
Quiets(a, q) ==
    /\ TaskTurns(a, q) /\ TaskShape(q)
    /\ q.pc # "done" => task[a].pc # "done"
    /\ q.pc # "write" /\ q.old \in {task[a].old, NoMeeting}
    /\ q.new \in {task[a].new, NoMeeting}
    /\ q.pc \in Changing => /\ task[a].pc \in {"update", "recreate"}
                            /\ q.class = task[a].class /\ q.old = task[a].old
    /\ task[a].pc = "write" => /\ task[a].class \in torn'
                               /\ task[a].new # NoMeeting => task[a].new \in leftOver'
    /\ \A s \in Slots :
          \/ q.got[s] = task[a].got[s]
          \/ q.got[s] = NoMeeting /\ task[a].got[s] \in leftOver'

LEMMA QuietTurn ==
  ASSUME GroupInv, NEW a \in Admins, NEW q \in Task, Quiets(a, q),
         UNCHANGED <<class, zoom, issued, removing, raced>>,
         leftOver \subseteq leftOver', torn \subseteq torn'
  PROVE  MeetingsInv'
  <1> USE DEF GroupInv
  <1>1. /\ task'[a] = q /\ \A b \in Admins : b # a => task'[b] = task[b]
        /\ \A b \in Admins : task[b] \in Task
    BY TaskOf DEF Quiets, TaskTurns
  <1>2. \A m \in Meetings :
           /\ \A c \in Classes : OfClass(c, m)' => OfClass(c, m)
           /\ \A b \in Admins, s \in Slots : OfCreation(b, s, m)' => OfCreation(b, s, m)
           /\ \A b \in Admins : OfMove(b, m)' => OfMove(b, m)
    <2> SUFFICES ASSUME NEW m \in Meetings
                 PROVE  /\ \A c \in Classes : OfClass(c, m)' => OfClass(c, m)
                        /\ \A b \in Admins, s \in Slots : OfCreation(b, s, m)' => OfCreation(b, s, m)
                        /\ \A b \in Admins : OfMove(b, m)' => OfMove(b, m)
      OBVIOUS
    <2>1. m # NoMeeting
      BY MeetingNumber
    <2>2. \A c \in Classes : OfClass(c, m)' => OfClass(c, m)
      BY <1>1 DEF Quiets, OfClass, Changing
    <2>3. \A b \in Admins, s \in Slots : OfCreation(b, s, m)' => OfCreation(b, s, m)
      BY <1>1, <2>1 DEF Quiets, OfCreation
    <2>4. \A b \in Admins : OfMove(b, m)' => OfMove(b, m)
      BY <1>1 DEF Quiets, OfMove
    <2> QED
      BY <2>2, <2>3, <2>4
  <1>3. MeetingsApart'
    BY <1>2, ApartStays DEF MeetingsInv
  <1>4. ShapesFit'
    <2> SUFFICES ASSUME NEW b \in Admins PROVE TaskShape(task'[b])
      BY DEF ShapesFit, TaskShape
    <2> QED
      BY <1>1 DEF MeetingsInv, ShapesFit, Quiets
  <1>5. Numbered'
    <2>1. ASSUME NEW b \in Admins
          PROVE  /\ task'[b].old <= issued /\ task'[b].new <= issued
                 /\ \A s \in Slots : task'[b].got[s] <= issued
      <3>1. NoMeeting <= issued
        BY GroupNumbers DEF NoMeeting
      <3>2. \A d \in Admins : /\ task[d].old <= issued /\ task[d].new <= issued
                              /\ \A s \in Slots : task[d].got[s] <= issued
        BY DEF MeetingsInv, Numbered
      <3> QED
        BY <1>1, <3>1, <3>2 DEF Quiets
    <2> QED
      BY <2>1 DEF MeetingsInv, Numbered
  <1>6. StatusFits'
    BY <1>1 DEF MeetingsInv, StatusFits, Quiets, Changing
  <1>7. CreationsFit'
    BY <1>1 DEF MeetingsInv, CreationsFit, Quiets
  <1>8. MovesFit'
    BY <1>1 DEF MeetingsInv, MovesFit, Quiets
  <1>9. OneMover'
    BY <1>1 DEF MeetingsInv, OneMover, Quiets, Changing
  <1>10. HasMeeting'
    <2> SUFFICES ASSUME NEW c \in Classes, WithMeeting(c), c \notin torn'
                 PROVE  \/ zoom[class[c].meeting] # NoSlot /\ class[c].meeting \notin removing
                        \/ \E b \in Admins : /\ task'[b].pc = "write" /\ task'[b].class = c
                                             /\ task'[b].new # NoMeeting
                                             /\ task'[b].old = class[c].meeting
      BY DEF HasMeeting, WithMeeting
    <2>1. \A b \in Admins : task[b].pc = "write" /\ task[b].class = c => b # a
      BY DEF Quiets
    <2> QED
      BY <1>1, <2>1 DEF MeetingsInv, HasMeeting
  <1>11. InTime'
    <2> SUFFICES ASSUME NEW c \in Classes, WithMeeting(c), c \notin torn', c \notin raced
                 PROVE  /\ (\A b \in Admins : ~ (task'[b].pc = "write" /\ task'[b].class = c))
                           => zoom[class[c].meeting] = class[c].slot
                        /\ \A b \in Admins :
                              task'[b].pc = "write" /\ task'[b].class = c
                              /\ task'[b].new = NoMeeting
                              => zoom[class[c].meeting] = task'[b].slot
      BY DEF InTime, WithMeeting
    <2>1. \A b \in Admins : task[b].pc = "write" /\ task[b].class = c => b # a
      BY DEF Quiets
    <2>2. \A b \in Admins : task'[b].pc = "write" => b # a
      BY <1>1 DEF Quiets
    <2> QED
      BY <1>1, <2>1, <2>2 DEF MeetingsInv, InTime
  <1>12. AllPlaced'
    <2> SUFFICES ASSUME NEW m \in Meetings, zoom[m] # NoSlot PROVE HasPlace(m)'
      BY DEF AllPlaced
    <2>1. CASE \E c \in Classes : class[c].meeting = m /\ class[c].status # "cancelled"
      BY <2>1 DEF HasPlace
    <2>2. CASE \E b \in Admins : OfMove(b, m)
      <3>1. PICK b \in Admins : task[b].pc = "write" /\ task[b].new = m
        BY <2>2 DEF OfMove
      <3>2. m # NoMeeting
        BY MeetingNumber
      <3> QED
        BY <1>1, <3>1, <3>2 DEF HasPlace, OfMove, Quiets
    <2>3. CASE \E b \in Admins, s \in Slots : OfCreation(b, s, m)
      <3>1. PICK b \in Admins, s \in Slots : task[b].got[s] = m
        BY <2>3 DEF OfCreation
      <3>2. task'[b].got[s] = m \/ m \in leftOver'
        BY <1>1, <3>1 DEF Quiets
      <3> QED
        BY <3>2 DEF HasPlace, OfCreation
    <2>4. CASE m \in removing \union leftOver
      BY <2>4 DEF HasPlace
    <2> QED
      BY <2>1, <2>2, <2>3, <2>4 DEF MeetingsInv, AllPlaced, HasPlace
  <1> QED
    BY <1>3, <1>4, <1>5, <1>6, <1>7, <1>8, <1>9, <1>10, <1>11, <1>12 DEF MeetingsInv

-----------------------------------------------------------------------------
(* The turns of a task that change nothing of a class or a meeting *)

LEMMA GroupTypesStay ==
  ASSUME GroupClassesTypeOK, class' \in [Classes -> Class],
         zoom' \in [Meetings -> Slots \union {NoSlot}], issued' \in 0..MaxMeetings,
         removing' \subseteq Meetings, request' \in [Requests -> Request],
         task' \in [Admins -> Task], leftOver' \subseteq Meetings, torn' \subseteq Classes,
         raced' \subseteq Classes, disputed' \subseteq Requests, mishaps' \in 0..MaxMishaps
  PROVE  GroupClassesTypeOK'
  BY DEF GroupClassesTypeOK

LEMMA GroupTypes ==
  ASSUME GroupClassesTypeOK
  PROVE  /\ class \in [Classes -> Class] /\ zoom \in [Meetings -> Slots \union {NoSlot}]
         /\ issued \in 0..MaxMeetings /\ removing \subseteq Meetings
         /\ request \in [Requests -> Request] /\ task \in [Admins -> Task]
         /\ leftOver \subseteq Meetings /\ torn \subseteq Classes /\ raced \subseteq Classes
         /\ disputed \subseteq Requests /\ mishaps \in 0..MaxMishaps
  BY DEF GroupClassesTypeOK

LEMMA MishapCounted ==
  ASSUME GroupClassesTypeOK, Mishap \/ UNCHANGED mishaps
  PROVE  mishaps' \in 0..MaxMishaps
  BY GroupNumbers DEF Mishap, GroupClassesTypeOK

LEMMA QuietStep ==
  ASSUME GroupInv, NEW a \in Admins, NEW q \in Task, Quiets(a, q),
         UNCHANGED <<class, zoom, issued, removing, raced>>,
         leftOver \subseteq leftOver', leftOver' \subseteq Meetings,
         torn \subseteq torn', torn' \subseteq Classes,
         request' \in [Requests -> Request], disputed' \subseteq Requests,
         Mishap \/ UNCHANGED mishaps
  PROVE  GroupInv'
  <1>1. MeetingsInv'
    BY QuietTurn
  <1>2. mishaps' \in 0..MaxMishaps
    BY MishapCounted DEF GroupInv
  <1>3. task' \in [Admins -> Task]
    BY DEF Quiets, TaskTurns
  <1>4. GroupClassesTypeOK'
    BY <1>2, <1>3, GroupTypes, GroupTypesStay DEF GroupInv
  <1> QED
    BY <1>1, <1>4 DEF GroupInv

\* A creation, and an answer that declines, begin with nothing in hand.
LEMMA TaskStarts ==
  ASSUME GroupClassesTypeOK, NEW a \in Admins, NEW q \in Task, TaskBegins(a, q),
         TaskShape(q), q.pc \notin {"update", "recreate", "write"},
         q.old = NoMeeting, q.new = NoMeeting, q.got = GotNothing
  PROVE  Quiets(a, q)
  <1>1. task[a] = NoTask /\ TaskTurns(a, q)
    BY TurnsTask DEF TaskBegins
  <1>2. task[a].pc = "idle" /\ task[a].got = GotNothing
    BY <1>1, NoTaskTyped
  <1> QED
    BY <1>1, <1>2 DEF Quiets, Changing

LEMMA GroupCreateBegins ==
  ASSUME GroupInv, NEW a \in Admins, NEW slots \in SUBSET Slots, NEW zoomed \in BOOLEAN,
         CreateBegins(a, slots, zoomed)
  PROVE  GroupInv'
  <1>1. PICK q : q = [NoTask EXCEPT !.pc = IF zoomed THEN "check" ELSE "commit",
                                    !.todo = IF zoomed THEN slots ELSE {},
                                    !.slots = slots, !.zoomed = zoomed]
    OBVIOUS
  <1>2. /\ q \in Task /\ q.pc \in {"check", "commit"} /\ q.todo \subseteq slots
        /\ q.slots = slots /\ q.got = GotNothing /\ q.old = NoMeeting /\ q.new = NoMeeting
    <2>1. /\ NoTask \in Task /\ NoTask.got = GotNothing
          /\ NoTask.old = NoMeeting /\ NoTask.new = NoMeeting
      BY NoTaskTyped DEF GroupInv
    <2>2. PICK t \in Task : t = NoTask
      BY <2>1
    <2> QED
      BY <1>1, <2>1, <2>2 DEF Task
  <1>3. TaskShape(q)
    BY <1>2, NoTaskTyped DEF TaskShape, Changing, Fresh, GroupInv
  <1>4. TaskBegins(a, q) /\ UNCHANGED <<class, zoom, issued, removing, request, history, mishaps>>
    BY <1>1 DEF CreateBegins
  <1>5. Quiets(a, q)
    BY <1>2, <1>3, <1>4, TaskStarts DEF GroupInv
  <1> QED
    BY <1>2, <1>4, <1>5, QuietStep, GroupTypes DEF history, GroupInv

LEMMA GroupDeclines ==
  ASSUME GroupInv, NEW a \in Admins, NEW r \in Requests, Declines(a, r)
  PROVE  GroupInv'
  <1>1. Quiets(a, Over)
    BY TaskStarts, OverTyped DEF Declines, GroupInv
  <1>2. request' \in [Requests -> Request]
    <2>1. PICK n : n = [request[r] EXCEPT !.status = "declined"]
      OBVIOUS
    <2>2. n \in Request
      BY <2>1, GroupTypes DEF Request, GroupInv
    <2>3. request' = [request EXCEPT ![r] = n]
      BY <2>1, GroupTypes DEF Declines, GroupInv
    <2> QED
      BY <2>2, <2>3, GroupTypes DEF GroupInv
  <1>3. disputed' \subseteq Requests
    BY GroupTypes DEF Declines, GroupInv
  <1> QED
    BY <1>1, <1>2, <1>3, OverTyped, QuietStep, GroupTypes DEF Declines, GroupInv

\* The ways in which a creation goes on or is given up.
LEMMA GroupChecks ==
  ASSUME GroupInv, NEW a \in Admins, NEW s \in Slots,
         ChecksOverlap(a, s) \/ MeetingFails(a) \/ UpdateFails(a)
  PROVE  GroupInv'
  <1>1. PICK pc \in {"undo", "meet", "recreate"} :
            /\ TaskGoesTo(a, pc)
            /\ \/ task[a].pc \in {"check", "meet"} /\ pc # "recreate"
               \/ task[a].pc = "update" /\ pc = "recreate"
    BY DEF ChecksOverlap, MeetingFails, UpdateFails
  <1>2. PICK q \in Task :
            /\ TaskTurns(a, q) /\ q.pc = pc
            /\ q.todo = task[a].todo /\ q.slots = task[a].slots
            /\ q.got = task[a].got /\ q.class = task[a].class
            /\ q.slot = task[a].slot /\ q.old = task[a].old
            /\ q.new = task[a].new /\ q.for = task[a].for
    <2>1. \E q : /\ TaskTurns(a, q) /\ q.pc = pc
                 /\ q.todo = task[a].todo /\ q.slots = task[a].slots
                 /\ q.got = task[a].got /\ q.class = task[a].class
                 /\ q.slot = task[a].slot /\ q.old = task[a].old
                 /\ q.new = task[a].new /\ q.for = task[a].for
      BY <1>1, GoingTo DEF GroupInv
    <2> QED
      BY <2>1 DEF TaskTurns
  <1>3. TaskShape(q)
    BY <1>1, <1>2 DEF GroupInv, MeetingsInv, ShapesFit, TaskShape, Fresh, Changing
  <1>4. Quiets(a, q)
    BY <1>1, <1>2, <1>3 DEF Quiets, Changing
  <1>5. /\ UNCHANGED <<class, zoom, issued, removing, request, history>>
        /\ Mishap \/ UNCHANGED mishaps
    BY DEF ChecksOverlap, MeetingFails, UpdateFails
  <1> QED
    BY <1>4, <1>5, QuietStep, GroupTypes DEF history, GroupInv

LEMMA HeldMeetings ==
  ASSUME GroupClassesTypeOK, NEW a \in Admins
  PROVE  /\ Held(task[a]) \subseteq Meetings
         /\ \A s \in Slots : task[a].got[s] # NoMeeting => task[a].got[s] \in Held(task[a])
  BY TaskOf, TaskTyped DEF Held

\* The ways in which a task ends without a write of a class.
LEMMA GroupGivesUp ==
  ASSUME GroupInv, NEW a \in Admins,
         CreationFails(a) \/ RecreationFails(a) \/ MoveFails(a) \/ MarksApproved(a)
         \/ MarkFails(a)
  PROVE  GroupInv'
  <1> USE DEF GroupInv
  <1>1. TaskTurns(a, Over)
    BY Ending DEF CreationFails, RecreationFails, MoveFails, MarksApproved, MarkFails
  <1>2. /\ task[a] \in Task /\ TaskShape(task[a])
        /\ \A s \in Slots : task[a].got[s] \in Meetings \union {NoMeeting}
        /\ task[a].class \in Classes /\ task[a].new \in Meetings \union {NoMeeting}
        /\ task[a].for \subseteq Requests
    BY TaskOf, TaskTyped DEF MeetingsInv, ShapesFit
  <1>3. /\ task[a].pc # "done"
        /\ task[a].pc = "write" => /\ task[a].class \in torn'
                                   /\ task[a].new # NoMeeting => task[a].new \in leftOver'
        /\ \A s \in Slots : task[a].got[s] # NoMeeting => task[a].got[s] \in leftOver'
    <2>1. CASE CreationFails(a)
      BY <2>1, HeldMeetings DEF CreationFails
    <2>2. CASE RecreationFails(a) \/ MarksApproved(a) \/ MarkFails(a)
      BY <1>2, <2>2 DEF RecreationFails, MarksApproved, MarkFails, TaskShape, Fresh
    <2>3. CASE MoveFails(a)
      BY <1>2, <2>3 DEF MoveFails, TaskShape, Fresh
    <2> QED
      BY <2>1, <2>2, <2>3
  <1>4. Quiets(a, Over)
    BY <1>1, <1>3, OverTyped DEF Quiets, Changing
  <1>5. /\ UNCHANGED <<class, zoom, issued, removing, raced>>
        /\ leftOver \subseteq leftOver' /\ leftOver' \subseteq Meetings
        /\ torn \subseteq torn' /\ torn' \subseteq Classes /\ disputed' \subseteq Requests
        /\ Mishap \/ UNCHANGED mishaps
    <2>1. CASE CreationFails(a)
      BY <2>1, HeldMeetings, GroupTypes DEF CreationFails
    <2>2. CASE RecreationFails(a) \/ MarksApproved(a) \/ MarkFails(a)
      BY <1>2, <2>2, GroupTypes DEF RecreationFails, MarksApproved, MarkFails, history
    <2>3. CASE MoveFails(a)
      BY <1>2, <2>3, GroupTypes DEF MoveFails
    <2> QED
      BY <2>1, <2>2, <2>3
  <1>6. request' \in [Requests -> Request]
    <2>1. CASE MarksApproved(a)
      <3>1. \A r \in Requests : [request[r] EXCEPT !.status = "approved"] \in Request
        <4> SUFFICES ASSUME NEW r \in Requests
                     PROVE  [request[r] EXCEPT !.status = "approved"] \in Request
          OBVIOUS
        <4>1. request[r] \in Request
          BY GroupTypes
        <4> QED
          BY <4>1 DEF Request
      <3> QED
        BY <2>1, <3>1, GroupTypes DEF MarksApproved
    <2>2. CASE ~ MarksApproved(a)
      BY <2>2, GroupTypes DEF CreationFails, RecreationFails, MoveFails, MarkFails
    <2> QED
      BY <2>1, <2>2
  <1> QED
    BY <1>4, <1>5, <1>6, OverTyped, QuietStep

LEMMA GroupAsks ==
  ASSUME GroupInv, NEW r \in Requests, NEW c \in Classes, AsksForMove(r, c) \/ WritesRequest(r)
  PROVE  GroupInv'
  <1> USE DEF GroupInv
  <1>1. UNCHANGED <<class, zoom, issued, removing, task, history, mishaps>>
    BY DEF AsksForMove, WritesRequest
  <1>2. request' \in [Requests -> Request]
    <2>1. request[r] \in Request
      BY GroupTypes
    <2>2. CASE AsksForMove(r, c)
      <3>1. PICK n : n = [request[r] EXCEPT !.status = "checked", !.class = c]
        OBVIOUS
      <3>2. n \in Request
        BY <2>1, <3>1 DEF Request
      <3>3. request' = [request EXCEPT ![r] = n]
        BY <2>2, <3>1, GroupTypes DEF AsksForMove
      <3> QED
        BY <3>2, <3>3, GroupTypes
    <2>3. CASE WritesRequest(r)
      <3>1. PICK n : n = [request[r] EXCEPT !.status = "pending"]
        OBVIOUS
      <3>2. n \in Request
        BY <2>1, <3>1 DEF Request
      <3>3. request' = [request EXCEPT ![r] = n]
        BY <2>3, <3>1, GroupTypes DEF WritesRequest
      <3> QED
        BY <3>2, <3>3, GroupTypes
    <2> QED
      BY <2>2, <2>3
  <1>3. MeetingsInv'
    BY <1>1, MeetingsUntouched DEF history
  <1>4. GroupClassesTypeOK'
    BY <1>1, <1>2, GroupTypes, GroupTypesStay DEF history
  <1> QED
    BY <1>3, <1>4

-----------------------------------------------------------------------------
(* Deletions at Zoom *)

\* The deletions nobody waits for.
LEMMA GroupDeletes ==
  ASSUME GroupInv, NEW n \in Meetings, DeletesMeeting(n) \/ DeletionFails(n)
  PROVE  GroupInv'
  <1> USE DEF GroupInv
  <1>1. /\ n \in removing /\ removing' = removing \ {n}
        /\ UNCHANGED <<class, issued, request, task, torn, raced, disputed>>
        /\ leftOver \subseteq leftOver' /\ leftOver' \subseteq Meetings
        /\ Mishap \/ UNCHANGED mishaps
    BY GroupTypes DEF DeletesMeeting, DeletionFails, history
  <1>2. /\ zoom' \in [Meetings -> Slots \union {NoSlot}]
        /\ \A m \in Meetings : m # n => zoom'[m] = zoom[m]
        /\ zoom'[n] = NoSlot \/ (zoom'[n] = zoom[n] /\ n \in leftOver')
    BY GroupTypes DEF DeletesMeeting, DeletionFails, Deleted
  <1>3. MeetingsApart'
    <2>1. \A m \in Meetings :
             /\ \A c \in Classes : OfClass(c, m)' => OfClass(c, m)
             /\ \A a \in Admins, s \in Slots : OfCreation(a, s, m)' => OfCreation(a, s, m)
             /\ \A a \in Admins : OfMove(a, m)' => OfMove(a, m)
      BY <1>1 DEF OfClass, OfCreation, OfMove
    <2> QED
      BY <2>1, ApartStays DEF MeetingsInv
  <1>4. ShapesFit' /\ StatusFits' /\ OneMover'
    BY <1>1 DEF MeetingsInv, ShapesFit, TaskShape, StatusFits, OneMover
  <1>5. Numbered'
    BY <1>1 DEF MeetingsInv, Numbered
  <1>6. CreationsFit'
    <2>1. \A a \in Admins, s \in Slots : task[a].got[s] \in Meetings \union {NoMeeting}
      BY TaskOf, TaskTyped
    <2> QED
      BY <1>1, <1>2, <2>1 DEF MeetingsInv, CreationsFit
  <1>7. MovesFit'
    <2> SUFFICES ASSUME NEW a \in Admins, task[a].pc = "write", task[a].new # NoMeeting
                 PROVE  /\ zoom'[task[a].new] = task[a].slot /\ task[a].new \notin removing'
                        /\ \/ zoom'[task[a].old] = NoSlot
                           \/ task[a].old \in removing' \union leftOver'
      BY <1>1 DEF MovesFit
    <2>1. /\ zoom[task[a].new] = task[a].slot /\ task[a].new \notin removing
          /\ zoom[task[a].old] = NoSlot \/ task[a].old \in removing \union leftOver
          /\ task[a].old # NoMeeting
      BY DEF MeetingsInv, MovesFit, ShapesFit, TaskShape
    <2>2. task[a].new \in Meetings /\ task[a].old \in Meetings
      BY <2>1, TaskOf, TaskTyped
    <2>3. task[a].new # n
      BY <1>1, <2>1
    <2>4. CASE task[a].old = n
      BY <1>1, <1>2, <2>1, <2>2, <2>3, <2>4
    <2>5. CASE task[a].old # n
      BY <1>1, <1>2, <2>1, <2>2, <2>3, <2>5
    <2> QED
      BY <2>4, <2>5
  <1>8. ASSUME NEW c \in Classes, WithMeeting(c), c \notin torn
        PROVE  \/ /\ zoom'[class[c].meeting] # NoSlot /\ class[c].meeting \notin removing'
                  /\ zoom'[class[c].meeting] = zoom[class[c].meeting]
               \/ \E a \in Admins : /\ task[a].pc = "write" /\ task[a].class = c
                                    /\ task[a].new # NoMeeting
                                    /\ task[a].old = class[c].meeting
    <2>1. class[c].meeting \in Meetings
      BY <1>8, ClassOf DEF WithMeeting
    <2> QED
      BY <1>1, <1>2, <1>8, <2>1 DEF MeetingsInv, HasMeeting
  <1>9. HasMeeting'
    BY <1>1, <1>8 DEF HasMeeting, WithMeeting
  <1>10. InTime'
    <2> SUFFICES ASSUME NEW c \in Classes, WithMeeting(c), c \notin torn, c \notin raced
                 PROVE  /\ (\A b \in Admins : ~ (task[b].pc = "write" /\ task[b].class = c))
                           => zoom'[class[c].meeting] = class[c].slot
                        /\ \A b \in Admins :
                              task[b].pc = "write" /\ task[b].class = c
                              /\ task[b].new = NoMeeting
                              => zoom'[class[c].meeting] = task[b].slot
      BY <1>1 DEF InTime, WithMeeting
    <2>1. CASE zoom'[class[c].meeting] = zoom[class[c].meeting]
      BY <2>1 DEF MeetingsInv, InTime
    <2>2. CASE \E a \in Admins : /\ task[a].pc = "write" /\ task[a].class = c
                                 /\ task[a].new # NoMeeting
      BY <2>2 DEF MeetingsInv, OneMover, Changing
    <2> QED
      BY <1>8, <2>1, <2>2
  <1>11. AllPlaced'
    <2> SUFFICES ASSUME NEW m \in Meetings, zoom'[m] # NoSlot PROVE HasPlace(m)'
      BY DEF AllPlaced
    <2>1. HasPlace(m) /\ (m = n => m \in leftOver')
      BY <1>2 DEF MeetingsInv, AllPlaced
    <2>2. m \in removing \union leftOver => m \in removing' \union leftOver'
      BY <1>1, <2>1
    <2> QED
      BY <1>1, <2>1, <2>2 DEF HasPlace, OfMove, OfCreation
  <1>12. GroupClassesTypeOK'
    <2>1. mishaps' \in 0..MaxMishaps
      BY <1>1, MishapCounted
    <2> QED
      BY <1>1, <1>2, <2>1, GroupTypes, GroupTypesStay
  <1> QED
    BY <1>3, <1>4, <1>5, <1>6, <1>7, <1>9, <1>10, <1>11, <1>12 DEF MeetingsInv

\* A creation that fails takes back its meetings one by one.
LEMMA GroupUndoes ==
  ASSUME GroupInv, NEW a \in Admins, Undoes(a)
  PROVE  GroupInv'
  <1> USE DEF GroupInv
  <1>1. /\ task[a].pc = "undo" /\ task[a] \in Task /\ TaskShape(task[a])
        /\ UNCHANGED <<class, issued, removing, request, torn, raced, disputed>>
    BY TaskOf DEF Undoes, MeetingsInv, ShapesFit
  <1>2. CASE Held(task[a]) = {} /\ TaskEnds(a) /\ UNCHANGED <<zoom, leftOver, mishaps>>
    <2>1. TaskTurns(a, Over)
      BY <1>2, Ending
    <2>2. \A s \in Slots : task[a].got[s] = NoMeeting
      BY <1>2, HeldMeetings
    <2>3. Quiets(a, Over)
      BY <1>1, <2>1, <2>2, OverTyped DEF Quiets, Changing
    <2> QED
      BY <1>1, <1>2, <2>3, QuietStep, OverTyped, GroupTypes
  <1>3. ASSUME NEW s \in Slots, task[a].got[s] # NoMeeting,
               task' = [task EXCEPT ![a].got = [task[a].got EXCEPT ![s] = NoMeeting]],
               \/ Deleted(task[a].got[s]) /\ UNCHANGED <<leftOver, mishaps>>
               \/ Mishap /\ leftOver' = leftOver \union {task[a].got[s]} /\ UNCHANGED zoom
        PROVE  GroupInv'
    <2>1. PICK n \in Meetings : n = task[a].got[s]
      BY <1>1, <1>3, TaskTyped
    <2>2. PICK q : q = [task[a] EXCEPT !.got = [task[a].got EXCEPT ![s] = NoMeeting]]
      OBVIOUS
    <2>3. /\ q \in Task /\ q.pc = "undo" /\ q.todo = task[a].todo /\ q.slots = task[a].slots
          /\ q.old = task[a].old /\ q.new = task[a].new /\ q.class = task[a].class
          /\ q.got[s] = NoMeeting /\ \A u \in Slots : u # s => q.got[u] = task[a].got[u]
      <3>1. PICK g : g = [task[a].got EXCEPT ![s] = NoMeeting]
        OBVIOUS
      <3>2. /\ g \in [Slots -> Meetings \union {NoMeeting}] /\ g[s] = NoMeeting
            /\ \A u \in Slots : u # s => g[u] = task[a].got[u]
        BY <1>1, <3>1, TaskTyped
      <3> QED
        BY <1>1, <2>2, <3>1, <3>2 DEF Task
    <2>4. TaskTurns(a, q)
      BY <1>3, <2>2, <2>3, TurnsTask, GroupTypes
    <2>5. TaskShape(q)
      BY <1>1, <2>3 DEF TaskShape, Fresh, Changing
    <2>6. zoom[n] = s /\ n \notin removing /\ OfCreation(a, s, n)
      BY <1>3, <2>1 DEF MeetingsInv, CreationsFit, OfCreation
    <2>7. CASE Mishap /\ leftOver' = leftOver \union {n} /\ UNCHANGED zoom
      <3>1. Quiets(a, q)
        BY <1>1, <2>1, <2>3, <2>4, <2>5, <2>7 DEF Quiets, Changing
      <3> QED
        BY <1>1, <2>3, <2>7, <3>1, QuietStep, GroupTypes
    <2>8. CASE Deleted(n) /\ UNCHANGED <<leftOver, mishaps>>
      <3>1. /\ zoom' \in [Meetings -> Slots \union {NoSlot}] /\ zoom'[n] = NoSlot
            /\ \A m \in Meetings : m # n => zoom'[m] = zoom[m]
        BY <2>8, GroupTypes DEF Deleted
      <3>2. /\ task'[a] = q /\ \A b \in Admins : b # a => task'[b] = task[b]
            /\ \A b \in Admins : task'[b] \in Task
        BY <2>3, <2>4 DEF TaskTurns
      <3>3. \A m \in Meetings :
               /\ \A c \in Classes : OfClass(c, m)' => OfClass(c, m)
               /\ \A b \in Admins, u \in Slots :
                     OfCreation(b, u, m)' <=> OfCreation(b, u, m) /\ m # n
               /\ \A b \in Admins : OfMove(b, m)' <=> OfMove(b, m)
        <4> SUFFICES ASSUME NEW m \in Meetings
                     PROVE  /\ \A c \in Classes : OfClass(c, m)' => OfClass(c, m)
                            /\ \A b \in Admins, u \in Slots :
                                  OfCreation(b, u, m)' <=> OfCreation(b, u, m) /\ m # n
                            /\ \A b \in Admins : OfMove(b, m)' <=> OfMove(b, m)
          OBVIOUS
        <4>1. m # NoMeeting
          BY MeetingNumber
        <4>2. \A c \in Classes : OfClass(c, m)' => OfClass(c, m)
          BY <1>1, <2>3, <3>2 DEF OfClass, Changing
        <4>3. \A b \in Admins : OfMove(b, m)' <=> OfMove(b, m)
          BY <1>1, <2>3, <3>2 DEF OfMove
        <4>4. \A b \in Admins, u \in Slots : OfCreation(b, u, n) => b = a /\ u = s
          BY <2>6 DEF MeetingsInv, MeetingsApart
        <4>5. ASSUME NEW b \in Admins, NEW u \in Slots
              PROVE  OfCreation(b, u, m)' <=> OfCreation(b, u, m) /\ m # n
          <5>1. CASE b = a /\ u = s
            BY <2>1, <2>3, <3>2, <4>1, <5>1 DEF OfCreation
          <5>2. CASE ~ (b = a /\ u = s)
            <6>1. task'[b].got[u] = task[b].got[u]
              BY <2>3, <3>2, <5>2
            <6> QED
              BY <4>4, <5>2, <6>1 DEF OfCreation
          <5> QED
            BY <5>1, <5>2
        <4> QED
          BY <4>2, <4>3, <4>5
      <3>4. MeetingsApart'
        BY <3>3, ApartStays DEF MeetingsInv
      <3>5. /\ \A c \in Classes : class[c].meeting # n
            /\ \A b \in Admins : ~ OfMove(b, n)
        BY <2>6 DEF MeetingsInv, MeetingsApart, OfClass
      <3>6. ShapesFit'
        BY <2>5, <3>2 DEF MeetingsInv, ShapesFit, TaskShape
      <3>7. Numbered'
        <4>1. ASSUME NEW b \in Admins
              PROVE  /\ task'[b].old <= issued /\ task'[b].new <= issued
                     /\ \A u \in Slots : task'[b].got[u] <= issued
          <5>1. NoMeeting <= issued
            BY GroupNumbers DEF NoMeeting
          <5>2. \A d \in Admins : /\ task[d].old <= issued /\ task[d].new <= issued
                                  /\ \A u \in Slots : task[d].got[u] <= issued
            BY DEF MeetingsInv, Numbered
          <5> QED
            BY <2>3, <3>2, <5>1, <5>2
        <4> QED
          BY <1>1, <4>1 DEF MeetingsInv, Numbered
      <3>8. StatusFits'
        BY <1>1, <2>3, <3>2 DEF MeetingsInv, StatusFits, Changing
      <3>9. CreationsFit'
        <4> SUFFICES ASSUME NEW b \in Admins, NEW u \in Slots, task'[b].got[u] # NoMeeting
                     PROVE  zoom'[task'[b].got[u]] = u /\ task'[b].got[u] \notin removing
          BY <1>1 DEF CreationsFit
        <4>1. PICK m \in Meetings : m = task'[b].got[u]
          BY <3>2, TaskTyped
        <4>2. OfCreation(b, u, m) /\ m # n
          BY <3>3, <4>1 DEF OfCreation
        <4>3. zoom[m] = u /\ m \notin removing
          BY <4>1, <4>2 DEF OfCreation, MeetingsInv, CreationsFit
        <4> QED
          BY <3>1, <4>1, <4>2, <4>3
      <3>10. MovesFit'
        <4> SUFFICES ASSUME NEW b \in Admins, task'[b].pc = "write", task'[b].new # NoMeeting
                     PROVE  /\ zoom'[task'[b].new] = task'[b].slot
                            /\ task'[b].new \notin removing
                            /\ \/ zoom'[task'[b].old] = NoSlot
                               \/ task'[b].old \in removing \union leftOver
          BY <1>1, <2>8 DEF MovesFit
        <4>1. b # a /\ task'[b] = task[b]
          BY <2>3, <3>2
        <4>2. task[b].new \in Meetings /\ task[b].old \in Meetings
          BY <4>1, TaskOf, TaskTyped DEF MeetingsInv, ShapesFit, TaskShape
        <4>3. task[b].new # n
          BY <3>5, <4>1 DEF OfMove
        <4>4. /\ zoom[task[b].new] = task[b].slot /\ task[b].new \notin removing
              /\ zoom[task[b].old] = NoSlot \/ task[b].old \in removing \union leftOver
          BY <4>1 DEF MeetingsInv, MovesFit
        <4> QED
          BY <3>1, <4>1, <4>2, <4>3, <4>4
      <3>11. OneMover'
        BY <1>1, <2>3, <3>2 DEF MeetingsInv, OneMover, Changing
      <3>12. \A c \in Classes : WithMeeting(c) => zoom'[class[c].meeting] = zoom[class[c].meeting]
        BY <3>1, <3>5, ClassOf DEF WithMeeting
      <3>13. \A b \in Admins : task[b].pc = "write" \/ task'[b].pc = "write" => task'[b] = task[b]
        BY <1>1, <2>3, <3>2
      <3>14. HasMeeting'
        BY <1>1, <3>12, <3>13 DEF MeetingsInv, HasMeeting, WithMeeting
      <3>15. InTime'
        BY <1>1, <3>12, <3>13 DEF MeetingsInv, InTime, WithMeeting
      <3>16. AllPlaced'
        <4> SUFFICES ASSUME NEW m \in Meetings, zoom'[m] # NoSlot PROVE HasPlace(m)'
          BY DEF AllPlaced
        <4>1. m # n /\ zoom[m] # NoSlot
          BY <3>1
        <4>2. HasPlace(m)
          BY <4>1 DEF MeetingsInv, AllPlaced
        <4> QED
          BY <1>1, <2>8, <3>3, <4>1, <4>2 DEF HasPlace
      <3>17. GroupClassesTypeOK'
        <4>1. task' \in [Admins -> Task]
          BY <2>4 DEF TaskTurns
        <4> QED
          BY <1>1, <2>8, <3>1, <4>1, GroupTypes, GroupTypesStay
      <3> QED
        BY <3>4, <3>6, <3>7, <3>8, <3>9, <3>10, <3>11, <3>14, <3>15, <3>16, <3>17
        DEF MeetingsInv
    <2> QED
      BY <1>3, <2>1, <2>7, <2>8
  <1> QED
    BY <1>2, <1>3 DEF Undoes

-----------------------------------------------------------------------------
(* Meetings that are made *)

LEMMA Unused ==
  ASSUME GroupInv, NEW n \in Meetings, n = issued + 1
  PROVE  /\ \A c \in Classes : ~ OfClass(c, n) /\ class[c].meeting # n
         /\ \A a \in Admins, s \in Slots : ~ OfCreation(a, s, n)
         /\ \A a \in Admins : ~ OfMove(a, n) /\ task[a].old # n
         /\ n \notin removing /\ n \in Nat /\ issued \in Nat /\ n # NoMeeting
  <1>1. issued \in Nat /\ n \in Nat /\ n # NoMeeting
    BY GroupNumbers, MeetingNumber DEF GroupInv
  <1>2. \A c \in Classes : class[c].meeting <= issued
    BY DEF GroupInv, MeetingsInv, Numbered
  <1>3. \A a \in Admins : /\ task[a].old <= issued /\ task[a].new <= issued
                          /\ \A s \in Slots : task[a].got[s] <= issued
    BY DEF GroupInv, MeetingsInv, Numbered
  <1>4. \A x : x <= issued => x # n
    BY <1>1
  <1>5. n \notin removing
    BY <1>1 DEF GroupInv, MeetingsInv, Numbered
  <1> QED
    BY <1>1, <1>2, <1>3, <1>4, <1>5 DEF OfClass, OfCreation, OfMove

LEMMA MakesNew ==
  ASSUME GroupInv, NEW s \in Slots, MeetingMade(s)
  PROVE  \E n \in Meetings :
            /\ n = issued + 1 /\ issued' = n /\ issued' \in 0..MaxMeetings
            /\ zoom' \in [Meetings -> Slots \union {NoSlot}] /\ zoom'[n] = s
            /\ zoom' = [zoom EXCEPT ![n] = s]
            /\ \A m \in Meetings : m # n => zoom'[m] = zoom[m]
            /\ \A x \in Int : x <= issued => x <= issued'
            /\ removing \subseteq 1..issued'
  <1>1. PICK n \in Meetings : n = issued + 1 /\ issued \in Nat /\ n \in 0..MaxMeetings
    BY GroupNumbers DEF MeetingMade, Meetings, GroupInv
  <1>2. zoom' = [zoom EXCEPT ![n] = s] /\ issued' = n
    BY <1>1 DEF MeetingMade
  <1>3. /\ zoom' \in [Meetings -> Slots \union {NoSlot}] /\ zoom'[n] = s
        /\ \A m \in Meetings : m # n => zoom'[m] = zoom[m]
    BY <1>2, GroupTypes DEF GroupInv
  <1>4. removing \subseteq 1..issued'
    BY <1>1, <1>2 DEF GroupInv, MeetingsInv, Numbered
  <1>5. \A i \in Int : i <= issued => i <= issued'
    BY <1>1, <1>2
  <1> QED
    BY <1>1, <1>2, <1>3, <1>4, <1>5

LEMMA GroupMakes ==
  ASSUME GroupInv, NEW a \in Admins, NEW s \in Slots, MakesMeeting(a, s)
  PROVE  GroupInv'
  <1> USE DEF GroupInv
  <1>1. /\ task[a].pc = "meet" /\ s \in task[a].todo /\ MeetingMade(s)
        /\ task[a] \in Task /\ TaskShape(task[a])
        /\ UNCHANGED <<class, removing, request, leftOver, torn, raced, disputed, mishaps>>
    BY TaskOf DEF MakesMeeting, Next1, history, MeetingsInv, ShapesFit
  <1>2. PICK n \in Meetings :
            /\ n = issued + 1 /\ issued' = n /\ issued' \in 0..MaxMeetings
            /\ zoom' \in [Meetings -> Slots \union {NoSlot}] /\ zoom'[n] = s
            /\ \A m \in Meetings : m # n => zoom'[m] = zoom[m]
            /\ \A x \in Int : x <= issued => x <= issued'
            /\ removing \subseteq 1..issued'
    BY <1>1, MakesNew
  <1>3. PICK q : q = Got(task[a], s, n)
    OBVIOUS
  <1>4. /\ q \in Task /\ q.pc \in {"commit", "check"} /\ q.todo = task[a].todo \ {s}
        /\ q.slots = task[a].slots /\ q.old = task[a].old /\ q.new = task[a].new
        /\ q.got[s] = n /\ \A u \in Slots : u # s => q.got[u] = task[a].got[u]
    <2>1. PICK g : g = [task[a].got EXCEPT ![s] = n]
      OBVIOUS
    <2>2. /\ g \in [Slots -> Meetings \union {NoMeeting}] /\ g[s] = n
          /\ \A u \in Slots : u # s => g[u] = task[a].got[u]
      BY <1>1, <2>1, TaskTyped
    <2>3. PICK pc \in {"commit", "check"} : pc = IF task[a].todo = {s} THEN "commit" ELSE "check"
      OBVIOUS
    <2>4. q = [task[a] EXCEPT !.pc = pc, !.todo = task[a].todo \ {s}, !.got = g]
      BY <1>3, <2>1, <2>3 DEF Got
    <2> QED
      BY <1>1, <2>2, <2>4 DEF Task
  <1>5. /\ TaskTurns(a, q) /\ task'[a] = q /\ \A b \in Admins : b # a => task'[b] = task[b]
    BY <1>2, <1>3, <1>4, TurnsTask DEF MakesMeeting, TaskTurns
  <1>6. /\ \A c \in Classes : ~ OfClass(c, n) /\ class[c].meeting # n
        /\ \A b \in Admins, u \in Slots : ~ OfCreation(b, u, n)
        /\ \A b \in Admins : ~ OfMove(b, n) /\ task[b].old # n
        /\ n \notin removing /\ n \in Nat /\ n # NoMeeting
    BY <1>2, Unused
  <1>7. \A m \in Meetings :
           /\ \A c \in Classes : OfClass(c, m)' <=> OfClass(c, m)
           /\ \A b \in Admins, u \in Slots :
                 OfCreation(b, u, m)' <=> OfCreation(b, u, m) \/ (b = a /\ u = s /\ m = n)
           /\ \A b \in Admins : OfMove(b, m)' <=> OfMove(b, m)
    <2> SUFFICES ASSUME NEW m \in Meetings
                 PROVE  /\ \A c \in Classes : OfClass(c, m)' <=> OfClass(c, m)
                        /\ \A b \in Admins, u \in Slots :
                              OfCreation(b, u, m)'
                              <=> OfCreation(b, u, m) \/ (b = a /\ u = s /\ m = n)
                        /\ \A b \in Admins : OfMove(b, m)' <=> OfMove(b, m)
      OBVIOUS
    <2>1. \A b \in Admins : task[b].pc \in Changing \/ task'[b].pc \in Changing => b # a
      BY <1>1, <1>4, <1>5 DEF Changing
    <2>2. \A c \in Classes : OfClass(c, m)' <=> OfClass(c, m)
      BY <1>1, <1>5, <2>1 DEF OfClass
    <2>3. \A b \in Admins : OfMove(b, m)' <=> OfMove(b, m)
      BY <1>5, <2>1 DEF OfMove, Changing
    <2>4. task[a].got[s] = NoMeeting /\ m # NoMeeting
      BY <1>1, MeetingNumber DEF TaskShape
    <2>5. ASSUME NEW b \in Admins, NEW u \in Slots
          PROVE  OfCreation(b, u, m)' <=> OfCreation(b, u, m) \/ (b = a /\ u = s /\ m = n)
      <3>1. CASE b = a /\ u = s
        BY <1>4, <1>5, <2>4, <3>1 DEF OfCreation
      <3>2. CASE ~ (b = a /\ u = s)
        <4>1. task'[b].got[u] = task[b].got[u]
          BY <1>4, <1>5, <3>2
        <4> QED
          BY <3>2, <4>1 DEF OfCreation
      <3> QED
        BY <3>1, <3>2
    <2> QED
      BY <2>2, <2>3, <2>5
  <1>8. MeetingsApart'
    BY <1>6, <1>7 DEF MeetingsInv, MeetingsApart
  <1>9. ShapesFit'
    <2>1. TaskShape(q)
      BY <1>1, <1>4 DEF TaskShape, Fresh, Changing
    <2> QED
      BY <1>5, <2>1 DEF MeetingsInv, ShapesFit, TaskShape
  <1>10. Numbered'
    <2>1. issued' <= issued' /\ issued' \in Nat
      BY <1>2, <1>6
    <2>2. ASSUME NEW b \in Admins
          PROVE  /\ task'[b].old <= issued' /\ task'[b].new <= issued'
                 /\ \A u \in Slots : task'[b].got[u] <= issued'
      <3>1. /\ task[b].old \in Int /\ task[b].new \in Int
            /\ \A u \in Slots : task[b].got[u] \in Int
        BY TaskOf, TaskTyped, MeetingNumber
      <3>2. /\ task[b].old <= issued' /\ task[b].new <= issued'
            /\ \A u \in Slots : task[b].got[u] <= issued'
        BY <1>2, <3>1 DEF MeetingsInv, Numbered
      <3> QED
        BY <1>2, <1>4, <1>5, <2>1, <3>2
    <2>3. \A c \in Classes : class[c].meeting <= issued'
      <3> SUFFICES ASSUME NEW c \in Classes PROVE class[c].meeting <= issued'
        OBVIOUS
      <3>1. class[c].meeting \in Meetings \union {NoMeeting}
        BY ClassOf
      <3>2. class[c].meeting \in Int
        BY <3>1, MeetingNumber
      <3>3. class[c].meeting <= issued
        BY DEF MeetingsInv, Numbered
      <3> QED
        BY <1>2, <3>2, <3>3
    <2> QED
      BY <1>1, <1>2, <2>2, <2>3 DEF Numbered
  <1>11. StatusFits'
    BY <1>1, <1>4, <1>5 DEF MeetingsInv, StatusFits, Changing
  <1>12. CreationsFit'
    <2> SUFFICES ASSUME NEW b \in Admins, NEW u \in Slots, task'[b].got[u] # NoMeeting
                 PROVE  zoom'[task'[b].got[u]] = u /\ task'[b].got[u] \notin removing
      BY <1>1 DEF CreationsFit
    <2>1. task'[b] \in Task
      BY <1>5 DEF TaskTurns
    <2>2. PICK m \in Meetings : m = task'[b].got[u]
      BY <2>1, TaskTyped
    <2>3. CASE b = a /\ u = s /\ m = n
      BY <1>2, <1>6, <2>2, <2>3
    <2>4. CASE OfCreation(b, u, m)
      <3>1. zoom[m] = u /\ m \notin removing
        BY <2>2, <2>4, MeetingNumber DEF OfCreation, MeetingsInv, CreationsFit
      <3> QED
        BY <1>2, <1>6, <2>2, <2>4, <3>1
    <2> QED
      BY <1>7, <2>2, <2>3, <2>4 DEF OfCreation
  <1>13. \A b \in Admins : task[b].pc \in Changing \/ task'[b].pc \in Changing
                           => task'[b] = task[b]
    BY <1>1, <1>4, <1>5 DEF Changing
  <1>14. MovesFit'
    <2> SUFFICES ASSUME NEW b \in Admins, task'[b].pc = "write", task'[b].new # NoMeeting
                 PROVE  /\ zoom'[task'[b].new] = task'[b].slot
                        /\ task'[b].new \notin removing
                        /\ \/ zoom'[task'[b].old] = NoSlot
                           \/ task'[b].old \in removing \union leftOver
      BY <1>1 DEF MovesFit
    <2>1. task'[b] = task[b]
      BY <1>13 DEF Changing
    <2>2. task[b].new \in Meetings /\ task[b].old \in Meetings
      BY <2>1, TaskOf, TaskTyped DEF MeetingsInv, ShapesFit, TaskShape
    <2>3. task[b].new # n /\ task[b].old # n
      BY <1>6, <2>1 DEF OfMove
    <2>4. /\ zoom[task[b].new] = task[b].slot /\ task[b].new \notin removing
          /\ zoom[task[b].old] = NoSlot \/ task[b].old \in removing \union leftOver
      BY <2>1 DEF MeetingsInv, MovesFit
    <2> QED
      BY <1>2, <2>1, <2>2, <2>3, <2>4
  <1>15. OneMover'
    BY <1>1, <1>13 DEF MeetingsInv, OneMover
  <1>16. \A c \in Classes : WithMeeting(c) => zoom'[class[c].meeting] = zoom[class[c].meeting]
    BY <1>2, <1>6, ClassOf DEF WithMeeting
  <1>17. HasMeeting'
    BY <1>1, <1>13, <1>16 DEF MeetingsInv, HasMeeting, WithMeeting, Changing
  <1>18. InTime'
    BY <1>1, <1>13, <1>16 DEF MeetingsInv, InTime, WithMeeting, Changing
  <1>19. AllPlaced'
    <2> SUFFICES ASSUME NEW m \in Meetings, zoom'[m] # NoSlot PROVE HasPlace(m)'
      BY DEF AllPlaced
    <2>1. CASE m = n
      BY <1>7, <2>1 DEF HasPlace
    <2>2. CASE m # n
      <3>1. HasPlace(m)
        BY <1>2, <2>2 DEF MeetingsInv, AllPlaced
      <3> QED
        BY <1>1, <1>7, <3>1 DEF HasPlace
    <2> QED
      BY <2>1, <2>2
  <1>20. GroupClassesTypeOK'
    <2>1. task' \in [Admins -> Task]
      BY <1>5 DEF TaskTurns
    <2> QED
      BY <1>1, <1>2, <2>1, GroupTypes, GroupTypesStay
  <1> QED
    BY <1>8, <1>9, <1>10, <1>11, <1>12, <1>14, <1>15, <1>17, <1>18, <1>19, <1>20
    DEF MeetingsInv

LEMMA GroupRecreates ==
  ASSUME GroupInv, NEW a \in Admins, RecreatesMeeting(a)
  PROVE  GroupInv'
  <1> USE DEF GroupInv
  <1>1. /\ task[a].pc = "recreate" /\ MeetingMade(task[a].slot)
        /\ task[a] \in Task /\ TaskShape(task[a])
        /\ task[a].slot \in Slots /\ task[a].old \in Meetings /\ task[a].new = NoMeeting
        /\ task[a].class \in Classes
        /\ removing' = removing \union {task[a].old}
        /\ UNCHANGED <<class, request, leftOver, torn, raced, disputed, mishaps>>
    BY TaskOf, TaskTyped
    DEF RecreatesMeeting, history, MeetingsInv, ShapesFit, TaskShape, Changing
  <1>2. PICK n \in Meetings :
            /\ n = issued + 1 /\ issued' = n /\ issued' \in 0..MaxMeetings
            /\ zoom' \in [Meetings -> Slots \union {NoSlot}] /\ zoom'[n] = task[a].slot
            /\ \A m \in Meetings : m # n => zoom'[m] = zoom[m]
            /\ \A x \in Int : x <= issued => x <= issued'
            /\ removing \subseteq 1..issued'
    BY <1>1, MakesNew
  <1>3. PICK q : q = [task[a] EXCEPT !.pc = "write", !.new = n]
    OBVIOUS
  <1>4. /\ q \in Task /\ q.pc = "write" /\ q.todo = task[a].todo
        /\ q.slots = task[a].slots /\ q.old = task[a].old /\ q.new = n
        /\ q.got = task[a].got /\ q.class = task[a].class /\ q.slot = task[a].slot
    BY <1>1, <1>3 DEF Task
  <1>5. /\ TaskTurns(a, q) /\ task'[a] = q /\ \A b \in Admins : b # a => task'[b] = task[b]
    BY <1>2, <1>3, <1>4, TurnsTask, GroupTypes DEF RecreatesMeeting, TaskTurns
  <1>6. /\ \A c \in Classes : ~ OfClass(c, n) /\ class[c].meeting # n
        /\ \A b \in Admins, u \in Slots : ~ OfCreation(b, u, n)
        /\ \A b \in Admins : ~ OfMove(b, n) /\ task[b].old # n
        /\ n \notin removing /\ n \in Nat /\ n # NoMeeting
    BY <1>2, Unused
  <1>7. \A m \in Meetings :
           /\ \A c \in Classes : OfClass(c, m)' <=> OfClass(c, m)
           /\ \A b \in Admins, u \in Slots : OfCreation(b, u, m)' <=> OfCreation(b, u, m)
           /\ \A b \in Admins : OfMove(b, m)' <=> OfMove(b, m) \/ (b = a /\ m = n)
    <2> SUFFICES ASSUME NEW m \in Meetings
                 PROVE  /\ \A c \in Classes : OfClass(c, m)' <=> OfClass(c, m)
                        /\ \A b \in Admins, u \in Slots :
                              OfCreation(b, u, m)' <=> OfCreation(b, u, m)
                        /\ \A b \in Admins :
                              OfMove(b, m)' <=> OfMove(b, m) \/ (b = a /\ m = n)
      OBVIOUS
    <2>1. \A b \in Admins : /\ task'[b].pc \in Changing <=> task[b].pc \in Changing
                            /\ task'[b].old = task[b].old /\ task'[b].class = task[b].class
                            /\ task'[b].got = task[b].got
      BY <1>1, <1>4, <1>5 DEF Changing
    <2>2. \A c \in Classes : OfClass(c, m)' <=> OfClass(c, m)
      BY <1>1, <2>1 DEF OfClass
    <2>3. \A b \in Admins, u \in Slots : OfCreation(b, u, m)' <=> OfCreation(b, u, m)
      BY <2>1 DEF OfCreation
    <2>4. \A b \in Admins : OfMove(b, m)' <=> OfMove(b, m) \/ (b = a /\ m = n)
      BY <1>1, <1>4, <1>5 DEF OfMove
    <2> QED
      BY <2>2, <2>3, <2>4
  <1>8. MeetingsApart'
    BY <1>6, <1>7 DEF MeetingsInv, MeetingsApart
  <1>9. ShapesFit'
    <2>1. TaskShape(q)
      BY <1>1, <1>4, <1>6, MeetingNumber DEF TaskShape, Fresh, Changing
    <2> QED
      BY <1>5, <2>1 DEF MeetingsInv, ShapesFit, TaskShape
  <1>10. Numbered'
    <2>1. issued' <= issued' /\ issued' \in Nat
      BY <1>2, <1>6
    <2>2. ASSUME NEW b \in Admins
          PROVE  /\ task'[b].old <= issued' /\ task'[b].new <= issued'
                 /\ \A u \in Slots : task'[b].got[u] <= issued'
      <3>1. /\ task[b].old \in Int /\ task[b].new \in Int
            /\ \A u \in Slots : task[b].got[u] \in Int
        BY TaskOf, TaskTyped, MeetingNumber
      <3>2. /\ task[b].old <= issued' /\ task[b].new <= issued'
            /\ \A u \in Slots : task[b].got[u] <= issued'
        BY <1>2, <3>1 DEF MeetingsInv, Numbered
      <3> QED
        BY <1>2, <1>4, <1>5, <2>1, <3>2
    <2>3. \A c \in Classes : class[c].meeting <= issued'
      <3> SUFFICES ASSUME NEW c \in Classes PROVE class[c].meeting <= issued'
        OBVIOUS
      <3>1. class[c].meeting \in Meetings \union {NoMeeting}
        BY ClassOf
      <3>2. class[c].meeting \in Int
        BY <3>1, MeetingNumber
      <3>3. class[c].meeting <= issued
        BY DEF MeetingsInv, Numbered
      <3> QED
        BY <1>2, <3>2, <3>3
    <2>4. task[a].old \in 1..issued'
      <3>1. task[a].old <= issued' /\ task[a].old \in Meetings
        BY <1>1, <1>4, <1>5, <2>2
      <3> QED
        BY <2>1, <3>1 DEF Meetings
    <2>5. removing' \subseteq 1..issued'
      BY <1>1, <1>2, <2>4
    <2>6. \A c \in Classes : class'[c].meeting <= issued'
      BY <1>1, <2>3
    <2> QED
      BY <2>2, <2>5, <2>6 DEF Numbered
  <1>11. StatusFits'
    BY <1>1, <1>4, <1>5 DEF MeetingsInv, StatusFits, Changing
  <1>12. \A c \in Classes : class[c].meeting = task[a].old => c = task[a].class
    BY <1>1 DEF MeetingsInv, MeetingsApart, OfClass, Changing
  <1>13. CreationsFit'
    <2> SUFFICES ASSUME NEW b \in Admins, NEW u \in Slots, task'[b].got[u] # NoMeeting
                 PROVE  zoom'[task'[b].got[u]] = u /\ task'[b].got[u] \notin removing'
      BY DEF CreationsFit
    <2>1. PICK m \in Meetings : m = task[b].got[u] /\ m = task'[b].got[u]
      BY <1>4, <1>5, TaskOf, TaskTyped
    <2>2. zoom[m] = u /\ m \notin removing
      <3>1. task[b].got[u] # NoMeeting
        BY <2>1
      <3>2. zoom[task[b].got[u]] = u /\ task[b].got[u] \notin removing
        BY <3>1 DEF MeetingsInv, CreationsFit
      <3> QED
        BY <2>1, <3>2
    <2>3. m # n /\ m # task[a].old
      <3>1. OfCreation(b, u, m)
        BY <2>1 DEF OfCreation
      <3>2. OfClass(task[a].class, task[a].old)
        BY <1>1 DEF OfClass, Changing
      <3>3. ~ OfClass(task[a].class, m)
        BY <1>1, <3>1 DEF MeetingsInv, MeetingsApart
      <3> QED
        BY <1>6, <3>1, <3>2, <3>3
    <2> QED
      BY <1>1, <1>2, <2>1, <2>2, <2>3
  <1>14. MovesFit'
    <2> SUFFICES ASSUME NEW b \in Admins, task'[b].pc = "write", task'[b].new # NoMeeting
                 PROVE  /\ zoom'[task'[b].new] = task'[b].slot
                        /\ task'[b].new \notin removing'
                        /\ \/ zoom'[task'[b].old] = NoSlot
                           \/ task'[b].old \in removing' \union leftOver
      BY <1>1 DEF MovesFit
    <2>1. CASE b = a
      <3>1. n # task[a].old
        BY <1>6
      <3> QED
        BY <1>1, <1>2, <1>4, <1>5, <1>6, <2>1, <3>1
    <2>2. CASE b # a
      <3>1. task'[b] = task[b]
        BY <1>5, <2>2
      <3>2. task[b].new \in Meetings /\ task[b].old \in Meetings
        BY <3>1, TaskOf, TaskTyped DEF MeetingsInv, ShapesFit, TaskShape
      <3>3. task[b].new # n /\ task[b].old # n
        BY <1>6, <3>1 DEF OfMove
      <3>4. task[b].new # task[a].old
        BY <1>1, <3>1, <3>2 DEF OfMove, OfClass, MeetingsInv, MeetingsApart, Changing
      <3>5. /\ zoom[task[b].new] = task[b].slot /\ task[b].new \notin removing
            /\ zoom[task[b].old] = NoSlot \/ task[b].old \in removing \union leftOver
        BY <3>1 DEF MeetingsInv, MovesFit
      <3> QED
        BY <1>1, <1>2, <3>1, <3>2, <3>3, <3>4, <3>5
    <2> QED
      BY <2>1, <2>2
  <1>15. OneMover'
    <2>1. \A b \in Admins : /\ task'[b].pc \in Changing <=> task[b].pc \in Changing
                            /\ task'[b].old = task[b].old /\ task'[b].class = task[b].class
      BY <1>1, <1>4, <1>5 DEF Changing
    <2> QED
      BY <1>1, <2>1 DEF MeetingsInv, OneMover
  <1>16. \A c \in Classes : WithMeeting(c) => zoom'[class[c].meeting] = zoom[class[c].meeting]
    BY <1>2, <1>6, ClassOf DEF WithMeeting
  <1>17. HasMeeting'
    <2> SUFFICES ASSUME NEW c \in Classes, WithMeeting(c), c \notin torn
                 PROVE  \/ zoom'[class[c].meeting] # NoSlot /\ class[c].meeting \notin removing'
                        \/ \E b \in Admins : /\ task'[b].pc = "write" /\ task'[b].class = c
                                             /\ task'[b].new # NoMeeting
                                             /\ task'[b].old = class[c].meeting
      BY <1>1 DEF HasMeeting, WithMeeting
    <2>1. CASE class[c].meeting = task[a].old
      BY <1>4, <1>5, <1>6, <1>12, <2>1
    <2>2. CASE class[c].meeting # task[a].old
      <3>1. \A b \in Admins : task[b].pc = "write" => task'[b] = task[b]
        BY <1>1, <1>5
      <3> QED
        BY <1>1, <1>16, <2>2, <3>1 DEF MeetingsInv, HasMeeting
    <2> QED
      BY <2>1, <2>2
  <1>18. InTime'
    <2>1. \A b \in Admins : /\ task[b].pc = "write" => task'[b] = task[b]
                            /\ task'[b].pc = "write" /\ task'[b].new = NoMeeting
                               => task'[b] = task[b]
      BY <1>1, <1>4, <1>5, <1>6
    <2> QED
      BY <1>1, <1>16, <2>1 DEF MeetingsInv, InTime, WithMeeting
  <1>19. AllPlaced'
    <2> SUFFICES ASSUME NEW m \in Meetings, zoom'[m] # NoSlot PROVE HasPlace(m)'
      BY DEF AllPlaced
    <2>1. CASE m = n
      BY <1>7, <2>1 DEF HasPlace
    <2>2. CASE m # n
      <3>1. HasPlace(m)
        BY <1>2, <2>2 DEF MeetingsInv, AllPlaced
      <3> QED
        BY <1>1, <1>7, <3>1 DEF HasPlace
    <2> QED
      BY <2>1, <2>2
  <1>20. GroupClassesTypeOK'
    <2>1. task' \in [Admins -> Task]
      BY <1>5 DEF TaskTurns
    <2> QED
      BY <1>1, <1>2, <2>1, GroupTypes, GroupTypesStay
  <1> QED
    BY <1>8, <1>9, <1>10, <1>11, <1>13, <1>14, <1>15, <1>17, <1>18, <1>19, <1>20
    DEF MeetingsInv

-----------------------------------------------------------------------------
(* The moves of a class *)

LEMMA MoveStarts ==
  ASSUME GroupInv, NEW a \in Admins, NEW c \in Classes, NEW s \in Slots,
         NEW by \in SUBSET Requests, class[c].status # "none",
         TaskBegins(a, MoveOf(c, s, by)),
         raced' = IF Moving(c) = {} THEN raced ELSE raced \union {c},
         UNCHANGED <<class, zoom, issued, removing, leftOver, torn>>
  PROVE  MeetingsInv' /\ task' \in [Admins -> Task] /\ raced' \subseteq Classes
  <1> USE DEF GroupInv
  <1>1. PICK q : q = MoveOf(c, s, by)
    OBVIOUS
  <1>2. /\ q \in Task /\ q.pc \in {"write", "update"} /\ q.class = c /\ q.slot = s
        /\ q.pc = "write" <=> class[c].meeting = NoMeeting
        /\ q.old = class[c].meeting /\ q.new = NoMeeting
        /\ q.todo = {} /\ \A u \in Slots : q.got[u] = NoMeeting
    <2>1. PICK pc \in {"write", "update"} :
              /\ pc = IF class[c].meeting = NoMeeting THEN "write" ELSE "update"
              /\ pc = "write" <=> class[c].meeting = NoMeeting
      OBVIOUS
    <2>2. PICK t \in Task : t = NoTask
      BY NoTaskTyped
    <2>3. q = [t EXCEPT !.pc = pc, !.class = c, !.slot = s, !.old = class[c].meeting, !.for = by]
      BY <1>1, <2>1, <2>2 DEF MoveOf
    <2>4. /\ t.got = GotNothing /\ t.new = NoMeeting /\ t.todo = {}
          /\ \A u \in Slots : GotNothing[u] = NoMeeting
      BY <2>2, NoTaskTyped
    <2>5. /\ q \in Task /\ q.pc = pc /\ q.class = c /\ q.slot = s /\ q.old = class[c].meeting
          /\ q.new = t.new /\ q.todo = t.todo /\ q.got = t.got
      BY <2>3, ClassOf DEF Task
    <2> QED
      BY <2>1, <2>4, <2>5
  <1>3. /\ TaskTurns(a, q) /\ task'[a] = q /\ \A b \in Admins : b # a => task'[b] = task[b]
    BY <1>1, <1>2, TurnsTask DEF TaskBegins, TaskTurns
  <1>4. /\ task[a].pc = "idle" /\ \A u \in Slots : task[a].got[u] = NoMeeting
    BY NoTaskTyped DEF TaskBegins
  <1>5. class[c].meeting \in Meetings \union {NoMeeting}
    BY ClassOf
  <1>6. \A m \in Meetings :
           /\ \A d \in Classes : OfClass(d, m)' <=> OfClass(d, m)
           /\ \A b \in Admins, u \in Slots : OfCreation(b, u, m)' <=> OfCreation(b, u, m)
           /\ \A b \in Admins : OfMove(b, m)' <=> OfMove(b, m)
    <2> SUFFICES ASSUME NEW m \in Meetings
                 PROVE  /\ \A d \in Classes : OfClass(d, m)' <=> OfClass(d, m)
                        /\ \A b \in Admins, u \in Slots : OfCreation(b, u, m)' <=> OfCreation(b, u, m)
                        /\ \A b \in Admins : OfMove(b, m)' <=> OfMove(b, m)
      OBVIOUS
    <2>1. m # NoMeeting
      BY MeetingNumber
    <2>2. \A d \in Classes : OfClass(d, m)' <=> OfClass(d, m)
      BY <1>2, <1>3, <1>4 DEF OfClass, Changing
    <2>3. \A b \in Admins, u \in Slots : OfCreation(b, u, m)' <=> OfCreation(b, u, m)
      BY <1>2, <1>3, <1>4 DEF OfCreation
    <2>4. \A b \in Admins : OfMove(b, m)' <=> OfMove(b, m)
      BY <1>2, <1>3, <1>4, <2>1 DEF OfMove
    <2> QED
      BY <2>2, <2>3, <2>4
  <1>7. MeetingsApart'
    BY <1>6, ApartStays DEF MeetingsInv
  <1>8. ShapesFit'
    <2>1. TaskShape(q)
      BY <1>2 DEF TaskShape, Fresh, Changing
    <2> QED
      BY <1>3, <2>1 DEF MeetingsInv, ShapesFit, TaskShape
  <1>9. Numbered'
    <2>1. NoMeeting <= issued
      BY GroupNumbers DEF NoMeeting
    <2>2. ASSUME NEW b \in Admins
          PROVE  /\ task'[b].old <= issued /\ task'[b].new <= issued
                 /\ \A u \in Slots : task'[b].got[u] <= issued
      BY <1>2, <1>3, <2>1 DEF MeetingsInv, Numbered
    <2> QED
      BY <2>2 DEF MeetingsInv, Numbered
  <1>10. StatusFits'
    BY <1>2, <1>3, <1>4 DEF MeetingsInv, StatusFits, Changing
  <1>11. CreationsFit'
    BY <1>2, <1>3 DEF MeetingsInv, CreationsFit
  <1>12. MovesFit'
    BY <1>2, <1>3 DEF MeetingsInv, MovesFit
  <1>13. OneMover'
    <2> SUFFICES ASSUME NEW d \in Classes, d \notin raced',
                        NEW b \in Admins, NEW e \in Admins,
                        task'[b].pc \in Changing, task'[b].class = d,
                        task'[e].pc \in Changing, task'[e].class = d
                 PROVE  b = e /\ task'[b].old = class[d].meeting
      BY DEF OneMover
    <2>1. d \notin raced
      OBVIOUS
    <2>2. CASE d = c
      <3>1. \A f \in Admins : ~ (task[f].pc \in Changing /\ task[f].class = c)
        BY <2>2 DEF Moving, Changing
      <3>2. b = a /\ e = a
        BY <1>3, <2>2, <3>1
      <3> QED
        BY <1>2, <1>3, <2>2, <3>2
    <2>3. CASE d # c
      <3>1. b # a /\ e # a
        BY <1>2, <1>3, <2>3
      <3> QED
        BY <1>3, <2>1, <3>1 DEF MeetingsInv, OneMover
    <2> QED
      BY <2>2, <2>3
  <1>14. HasMeeting'
    BY <1>3, <1>4 DEF MeetingsInv, HasMeeting, WithMeeting
  <1>15. InTime'
    <2> SUFFICES ASSUME NEW d \in Classes, WithMeeting(d), d \notin torn, d \notin raced'
                 PROVE  /\ (\A b \in Admins : ~ (task'[b].pc = "write" /\ task'[b].class = d))
                           => zoom[class[d].meeting] = class[d].slot
                        /\ \A b \in Admins :
                              task'[b].pc = "write" /\ task'[b].class = d
                              /\ task'[b].new = NoMeeting
                              => zoom[class[d].meeting] = task'[b].slot
      BY DEF InTime, WithMeeting
    <2>1. d \notin raced
      OBVIOUS
    <2>2. \A b \in Admins : /\ task[b].pc = "write" => b # a
                            /\ task'[b].pc = "write" /\ task'[b].class = d => b # a
      BY <1>2, <1>3, <1>4 DEF WithMeeting
    <2> QED
      BY <1>3, <2>1, <2>2 DEF MeetingsInv, InTime
  <1>16. AllPlaced'
    BY <1>6 DEF MeetingsInv, AllPlaced, HasPlace
  <1>17. task' \in [Admins -> Task]
    BY <1>3 DEF TaskTurns
  <1>18. raced' \subseteq Classes
    BY GroupTypes
  <1> QED
    BY <1>7, <1>8, <1>9, <1>10, <1>11, <1>12, <1>13, <1>14, <1>15, <1>16, <1>17, <1>18
    DEF MeetingsInv

LEMMA GroupMoveBegins ==
  ASSUME GroupInv, NEW a \in Admins, NEW c \in Classes, NEW s \in Slots, MoveBegins(a, c, s)
  PROVE  GroupInv'
  <1>1. MeetingsInv' /\ task' \in [Admins -> Task] /\ raced' \subseteq Classes
    BY MoveStarts DEF MoveBegins
  <1>2. GroupClassesTypeOK'
    BY <1>1, GroupTypes, GroupTypesStay DEF MoveBegins, GroupInv
  <1> QED
    BY <1>1, <1>2 DEF GroupInv

LEMMA GroupApproves ==
  ASSUME GroupInv, NEW a \in Admins, NEW r \in Requests, NEW s \in Slots, Approves(a, r, s),
         class[request[r].class].status # "none"
  PROVE  GroupInv'
  <1>1. request[r].class \in Classes
    BY GroupTypes DEF Request, GroupInv
  <1>2. {r} \in SUBSET Requests
    OBVIOUS
  <1>3. MeetingsInv' /\ task' \in [Admins -> Task] /\ raced' \subseteq Classes
    BY <1>1, <1>2, MoveStarts DEF Approves
  <1>4. GroupClassesTypeOK'
    BY <1>3, GroupTypes, GroupTypesStay DEF Approves, GroupInv
  <1> QED
    BY <1>3, <1>4 DEF GroupInv

LEMMA GroupUpdates ==
  ASSUME GroupInv, NEW a \in Admins, UpdatesMeeting(a)
  PROVE  GroupInv'
  <1> USE DEF GroupInv
  <1>1. /\ task[a].pc = "update" /\ task[a] \in Task /\ TaskShape(task[a])
        /\ task[a].slot \in Slots /\ task[a].old \in Meetings /\ task[a].new = NoMeeting
        /\ task[a].class \in Classes /\ TaskGoesTo(a, "write")
        /\ UNCHANGED <<class, issued, removing, request, leftOver, torn, raced, disputed, mishaps>>
    BY TaskOf, TaskTyped
    DEF UpdatesMeeting, history, MeetingsInv, ShapesFit, TaskShape, Changing
  <1>2. PICK n \in Meetings : n = task[a].old /\ OfClass(task[a].class, n)
    BY <1>1 DEF OfClass, Changing
  <1>3. /\ zoom' \in [Meetings -> Slots \union {NoSlot}] /\ zoom'[n] = task[a].slot
        /\ \A m \in Meetings : m # n => zoom'[m] = zoom[m]
        /\ zoom[n] # NoSlot /\ zoom'[n] # NoSlot
    BY <1>1, <1>2, GroupTypes, GroupNumbers DEF UpdatesMeeting
  <1>4. PICK q : /\ TaskTurns(a, q) /\ q.pc = "write"
                 /\ q.todo = task[a].todo /\ q.slots = task[a].slots
                 /\ q.got = task[a].got /\ q.class = task[a].class
                 /\ q.slot = task[a].slot /\ q.old = task[a].old
                 /\ q.new = NoMeeting
    BY <1>1, GoingTo
  <1>5. task'[a] = q /\ \A b \in Admins : b # a => task'[b] = task[b]
    BY <1>4 DEF TaskTurns
  <1>6. \A b \in Admins : /\ task'[b].pc \in Changing <=> task[b].pc \in Changing
                          /\ task'[b].old = task[b].old /\ task'[b].class = task[b].class
                          /\ task'[b].got = task[b].got /\ task'[b].new = task[b].new
                          /\ task'[b].slot = task[b].slot
    BY <1>1, <1>4, <1>5 DEF Changing
  <1>7. \A b \in Admins : task[b].pc = "write" \/ (task'[b].pc = "write" /\ b # a)
                          => task'[b] = task[b]
    BY <1>1, <1>5
  <1>8. \A m \in Meetings :
           /\ \A c \in Classes : OfClass(c, m)' <=> OfClass(c, m)
           /\ \A b \in Admins, u \in Slots : OfCreation(b, u, m)' <=> OfCreation(b, u, m)
           /\ \A b \in Admins : OfMove(b, m)' <=> OfMove(b, m)
    <2> SUFFICES ASSUME NEW m \in Meetings
                 PROVE  /\ \A c \in Classes : OfClass(c, m)' <=> OfClass(c, m)
                        /\ \A b \in Admins, u \in Slots : OfCreation(b, u, m)' <=> OfCreation(b, u, m)
                        /\ \A b \in Admins : OfMove(b, m)' <=> OfMove(b, m)
      OBVIOUS
    <2>1. m # NoMeeting
      BY MeetingNumber
    <2>2. \A c \in Classes : OfClass(c, m)' <=> OfClass(c, m)
      BY <1>1, <1>6 DEF OfClass
    <2>3. \A b \in Admins, u \in Slots : OfCreation(b, u, m)' <=> OfCreation(b, u, m)
      BY <1>6 DEF OfCreation
    <2>4. \A b \in Admins : OfMove(b, m)' <=> OfMove(b, m)
      BY <1>1, <1>4, <1>5, <2>1 DEF OfMove
    <2> QED
      BY <2>2, <2>3, <2>4
  <1>9. MeetingsApart'
    BY <1>8, ApartStays DEF MeetingsInv
  <1>10. ShapesFit'
    <2>1. TaskShape(q)
      BY <1>1, <1>4 DEF TaskShape, Fresh, Changing
    <2> QED
      BY <1>5, <2>1 DEF MeetingsInv, ShapesFit, TaskShape
  <1>11. Numbered' /\ StatusFits' /\ OneMover'
    <2>1. Numbered'
      BY <1>1, <1>6 DEF MeetingsInv, Numbered
    <2>2. StatusFits'
      BY <1>1, <1>4, <1>5, <1>6 DEF MeetingsInv, StatusFits
    <2>3. OneMover'
      BY <1>1, <1>6 DEF MeetingsInv, OneMover
    <2> QED
      BY <2>1, <2>2, <2>3
  <1>12. CreationsFit'
    <2> SUFFICES ASSUME NEW b \in Admins, NEW u \in Slots, task[b].got[u] # NoMeeting
                 PROVE  zoom'[task[b].got[u]] = u /\ task[b].got[u] \notin removing
      BY <1>1, <1>6 DEF CreationsFit
    <2>1. PICK m \in Meetings : m = task[b].got[u] /\ OfCreation(b, u, m)
      BY TaskOf, TaskTyped DEF OfCreation
    <2>2. zoom[m] = u /\ m \notin removing
      BY <2>1 DEF MeetingsInv, CreationsFit
    <2>3. m # n
      BY <1>1, <1>2, <2>1 DEF MeetingsInv, MeetingsApart
    <2> QED
      BY <1>3, <2>1, <2>2, <2>3
  <1>13. MovesFit'
    <2> SUFFICES ASSUME NEW b \in Admins, task'[b].pc = "write", task'[b].new # NoMeeting
                 PROVE  /\ zoom'[task[b].new] = task[b].slot /\ task[b].new \notin removing
                        /\ \/ zoom'[task[b].old] = NoSlot
                           \/ task[b].old \in removing \union leftOver
      BY <1>1, <1>6 DEF MovesFit
    <2>1. b # a /\ task[b].pc = "write" /\ task[b].new # NoMeeting
      BY <1>4, <1>5
    <2>2. task[b].new \in Meetings /\ task[b].old \in Meetings
      BY <2>1, TaskOf, TaskTyped DEF MeetingsInv, ShapesFit, TaskShape
    <2>3. /\ zoom[task[b].new] = task[b].slot /\ task[b].new \notin removing
          /\ zoom[task[b].old] = NoSlot \/ task[b].old \in removing \union leftOver
      BY <2>1 DEF MeetingsInv, MovesFit
    <2>4. task[b].new # n
      BY <1>1, <1>2, <2>1 DEF MeetingsInv, MeetingsApart, OfMove
    <2> QED
      BY <1>3, <2>2, <2>3, <2>4
  <1>14. \A c \in Classes : c # task[a].class => class[c].meeting # n
    BY <1>1, <1>2 DEF MeetingsInv, MeetingsApart, OfClass
  <1>15. HasMeeting'
    <2> SUFFICES ASSUME NEW c \in Classes, WithMeeting(c), c \notin torn
                 PROVE  \/ zoom'[class[c].meeting] # NoSlot /\ class[c].meeting \notin removing
                        \/ \E b \in Admins : /\ task'[b].pc = "write" /\ task'[b].class = c
                                             /\ task'[b].new # NoMeeting
                                             /\ task'[b].old = class[c].meeting
      BY <1>1 DEF HasMeeting, WithMeeting
    <2>1. class[c].meeting \in Meetings
      BY ClassOf DEF WithMeeting
    <2>2. zoom[class[c].meeting] # NoSlot => zoom'[class[c].meeting] # NoSlot
      BY <1>3, <2>1
    <2> QED
      BY <1>7, <2>2 DEF MeetingsInv, HasMeeting
  <1>16. InTime'
    <2> SUFFICES ASSUME NEW c \in Classes, WithMeeting(c), c \notin torn, c \notin raced
                 PROVE  /\ (\A b \in Admins : ~ (task'[b].pc = "write" /\ task'[b].class = c))
                           => zoom'[class[c].meeting] = class[c].slot
                        /\ \A b \in Admins :
                              task'[b].pc = "write" /\ task'[b].class = c
                              /\ task'[b].new = NoMeeting
                              => zoom'[class[c].meeting] = task'[b].slot
      BY <1>1 DEF InTime, WithMeeting
    <2>1. CASE c = task[a].class
      <3>1. class[c].meeting = n
        BY <1>1, <1>2, <2>1 DEF MeetingsInv, OneMover, Changing
      <3>2. task'[a].pc = "write" /\ task'[a].class = c
        BY <1>4, <1>5, <2>1
      <3>3. \A b \in Admins : task'[b].pc = "write" /\ task'[b].class = c => b = a
        <4> SUFFICES ASSUME NEW b \in Admins, task'[b].pc = "write", task'[b].class = c
                     PROVE  b = a
          OBVIOUS
        <4>1. task[b].pc \in Changing /\ task[b].class = c
          BY <1>6 DEF Changing
        <4> QED
          BY <1>1, <2>1, <4>1 DEF MeetingsInv, OneMover, Changing
      <3> QED
        BY <1>3, <1>4, <1>5, <3>1, <3>2, <3>3
    <2>2. CASE c # task[a].class
      <3>1. zoom'[class[c].meeting] = zoom[class[c].meeting]
        BY <1>3, <1>14, <2>2, ClassOf DEF WithMeeting
      <3>2. \A b \in Admins : task'[b].class = c \/ task[b].class = c => task'[b] = task[b]
        BY <1>4, <1>5, <2>2
      <3> QED
        BY <3>1, <3>2 DEF MeetingsInv, InTime
    <2> QED
      BY <2>1, <2>2
  <1>17. AllPlaced'
    <2> SUFFICES ASSUME NEW m \in Meetings, zoom'[m] # NoSlot PROVE HasPlace(m)'
      BY DEF AllPlaced
    <2>1. HasPlace(m)
      BY <1>3 DEF MeetingsInv, AllPlaced
    <2> QED
      BY <1>1, <1>8, <2>1 DEF HasPlace
  <1>18. GroupClassesTypeOK'
    <2>1. task' \in [Admins -> Task]
      BY <1>4 DEF TaskTurns
    <2> QED
      BY <1>1, <1>3, <2>1, GroupTypes, GroupTypesStay
  <1> QED
    BY <1>9, <1>10, <1>11, <1>12, <1>13, <1>15, <1>16, <1>17, <1>18 DEF MeetingsInv

-----------------------------------------------------------------------------
(* The writes of a class *)

LEMMA GroupMoves ==
  ASSUME GroupInv, NEW a \in Admins, MovesClass(a)
  PROVE  GroupInv'
  <1> USE DEF GroupInv
  <1>1. /\ task[a].pc = "write" /\ task[a] \in Task /\ TaskShape(task[a])
        /\ task[a].slot \in Slots /\ task[a].class \in Classes
        /\ task[a].new \in Meetings \union {NoMeeting}
        /\ task[a].old \in Meetings \union {NoMeeting}
        /\ UNCHANGED <<zoom, issued, removing, raced, disputed, mishaps>>
    BY TaskOf, TaskTyped DEF MovesClass, MeetingsInv, ShapesFit, TaskShape, Changing
  <1>2. PICK c \in Classes : c = task[a].class
    BY <1>1
  <1>3. PICK n \in Meetings \union {NoMeeting} : n = task[a].new
    BY <1>1
  <1>4. PICK v \in Class : /\ class' = [class EXCEPT ![c] = v]
                           /\ v.status = class[c].status /\ v.slot = task[a].slot
                           /\ v.meeting = IF n = NoMeeting THEN class[c].meeting ELSE n
    <2>1. PICK v : v = Moved(c, task[a])
      OBVIOUS
    <2>2. PICK k \in Meetings \union {NoMeeting} :
              /\ k = IF n = NoMeeting THEN class[c].meeting ELSE n
      BY ClassOf
    <2>3. v = [class[c] EXCEPT !.slot = task[a].slot, !.meeting = k]
      BY <1>3, <2>1, <2>2 DEF Moved
    <2>4. /\ v \in Class /\ v.status = class[c].status /\ v.slot = task[a].slot
          /\ v.meeting = k
      BY <1>1, <2>3, ClassOf DEF Class
    <2> QED
      BY <1>2, <2>1, <2>2, <2>4 DEF MovesClass
  <1>5. /\ class' \in [Classes -> Class] /\ class'[c] = v
        /\ \A d \in Classes : d # c => class'[d] = class[d]
    BY <1>4, GroupTypes
  <1>6. /\ leftOver' = leftOver \union LeftByMove(c, task[a])
        /\ torn' = IF n = NoMeeting THEN torn ELSE torn \ {c}
    BY <1>2, <1>3 DEF MovesClass
  <1>7. PICK q : /\ TaskTurns(a, q) /\ q.pc \in {"done", "mark"} /\ TaskShape(q)
                 /\ \A s \in Slots : q.got[s] = NoMeeting
                 /\ q.old \in {task[a].old, NoMeeting} /\ q.new \in {n, NoMeeting}
    <2>1. CASE TaskEnds(a)
      BY <2>1, Ending, OverTyped
    <2>2. CASE TaskGoesTo(a, "mark")
      <3>1. PICK q : /\ TaskTurns(a, q) /\ q.pc = "mark"
                     /\ q.todo = task[a].todo /\ q.slots = task[a].slots
                     /\ q.got = task[a].got /\ q.old = task[a].old /\ q.new = task[a].new
        BY <2>2, GoingTo
      <3>2. TaskShape(q) /\ \A s \in Slots : q.got[s] = NoMeeting
        BY <1>1, <3>1 DEF TaskShape, Fresh, Changing
      <3> QED
        BY <1>3, <3>1, <3>2
    <2> QED
      BY <2>1, <2>2 DEF MovesClass
  <1>8. task'[a] = q /\ \A b \in Admins : b # a => task'[b] = task[b]
    BY <1>7 DEF TaskTurns
  <1>9. \A b \in Admins : task'[b].pc \in Changing => b # a /\ task'[b] = task[b]
    BY <1>7, <1>8 DEF Changing
  <1>10. \A s \in Slots : task[a].got[s] = NoMeeting
    BY <1>1 DEF TaskShape, Fresh
  <1>11. /\ class[c].status # "none"
         /\ n # NoMeeting => /\ zoom[n] = task[a].slot /\ n \notin removing
                             /\ \/ zoom[task[a].old] = NoSlot
                                \/ task[a].old \in removing \union leftOver
                             /\ task[a].old # NoMeeting /\ class[c].meeting # NoMeeting
    BY <1>1, <1>2, <1>3 DEF MeetingsInv, StatusFits, MovesFit, Changing, TaskShape
  <1>12. \A m \in Meetings :
            /\ \A d \in Classes : OfClass(d, m)' => OfClass(d, m) \/ (d = c /\ OfMove(a, m))
            /\ \A b \in Admins, u \in Slots : OfCreation(b, u, m)' <=> OfCreation(b, u, m)
            /\ \A b \in Admins : OfMove(b, m)' <=> OfMove(b, m) /\ b # a
    <2> SUFFICES ASSUME NEW m \in Meetings
                 PROVE  /\ \A d \in Classes :
                              OfClass(d, m)' => OfClass(d, m) \/ (d = c /\ OfMove(a, m))
                        /\ \A b \in Admins, u \in Slots :
                              OfCreation(b, u, m)' <=> OfCreation(b, u, m)
                        /\ \A b \in Admins : OfMove(b, m)' <=> OfMove(b, m) /\ b # a
      OBVIOUS
    <2>1. m # NoMeeting
      BY MeetingNumber
    <2>2. ASSUME NEW d \in Classes, OfClass(d, m)'
          PROVE  OfClass(d, m) \/ (d = c /\ OfMove(a, m))
      <3>1. CASE class'[d].meeting = m
        <4>1. class[d].meeting = m \/ (d = c /\ n = m)
          BY <1>4, <1>5, <3>1
        <4> QED
          BY <1>1, <1>3, <4>1 DEF OfClass, OfMove
      <3>2. CASE \E b \in Admins : /\ task'[b].pc \in Changing /\ task'[b].class = d
                                   /\ task'[b].old = m
        BY <1>9, <3>2 DEF OfClass
      <3> QED
        BY <2>2, <3>1, <3>2 DEF OfClass
    <2>3. \A b \in Admins, u \in Slots : OfCreation(b, u, m)' <=> OfCreation(b, u, m)
      BY <1>7, <1>8, <1>10 DEF OfCreation
    <2>4. \A b \in Admins : OfMove(b, m)' <=> OfMove(b, m) /\ b # a
      BY <1>7, <1>8 DEF OfMove
    <2> QED
      BY <2>2, <2>3, <2>4
  <1>13. MeetingsApart'
    BY <1>12 DEF MeetingsInv, MeetingsApart
  <1>14. ShapesFit'
    BY <1>7, <1>8 DEF MeetingsInv, ShapesFit, TaskShape
  <1>15. Numbered'
    <2>1. NoMeeting <= issued /\ task[a].old <= issued /\ n <= issued
      BY <1>3, GroupNumbers DEF NoMeeting, MeetingsInv, Numbered
    <2>2. ASSUME NEW b \in Admins
          PROVE  /\ task'[b].old <= issued /\ task'[b].new <= issued
                 /\ \A u \in Slots : task'[b].got[u] <= issued
      <3>1. CASE b = a
        BY <1>7, <1>8, <2>1, <3>1
      <3>2. CASE b # a
        BY <1>8, <3>2 DEF MeetingsInv, Numbered
      <3> QED
        BY <3>1, <3>2
    <2>3. ASSUME NEW d \in Classes PROVE class'[d].meeting <= issued
      <3>1. class[d].meeting <= issued
        BY DEF MeetingsInv, Numbered
      <3> QED
        BY <1>4, <1>5, <2>1, <3>1
    <2> QED
      BY <1>1, <2>2, <2>3 DEF MeetingsInv, Numbered
  <1>16. StatusFits'
    <2>1. \A d \in Classes : /\ class'[d].status = class[d].status
                             /\ class[d].meeting # NoMeeting => class'[d].meeting # NoMeeting
      BY <1>4, <1>5
    <2>2. \A b \in Admins, s \in Slots : <<b, s>> \in Classes
      BY DEF Classes
    <2>3. \A b \in Admins : task'[b].pc # "done" =>
             \A s \in Slots : class'[<<b, s>>].status = "none"
      BY <1>1, <1>8, <2>1, <2>2 DEF MeetingsInv, StatusFits
    <2>4. \A b \in Admins : task'[b].pc \in Changing =>
             /\ class'[task'[b].class].status # "none"
             /\ task'[b].old # NoMeeting => class'[task'[b].class].meeting # NoMeeting
      BY <1>9, <2>1, TaskOf, TaskTyped DEF MeetingsInv, StatusFits
    <2>5. \A d \in Classes : class'[d].status = "none" => class'[d].meeting = NoMeeting
      BY <1>5, <1>11, <2>1 DEF MeetingsInv, StatusFits
    <2> QED
      BY <2>3, <2>4, <2>5 DEF StatusFits
  <1>17. CreationsFit'
    BY <1>1, <1>7, <1>8 DEF MeetingsInv, CreationsFit
  <1>18. leftOver \subseteq leftOver'
    BY <1>6
  <1>19. MovesFit'
    BY <1>1, <1>9, <1>18 DEF MeetingsInv, MovesFit, Changing
  <1>20. \A b \in Admins : task[b].pc \in Changing /\ task[b].class = c /\ c \notin raced => b = a
    BY <1>1, <1>2 DEF MeetingsInv, OneMover, Changing
  <1>21. OneMover'
    <2> SUFFICES ASSUME NEW d \in Classes, d \notin raced,
                        NEW b \in Admins, NEW e \in Admins,
                        task'[b].pc \in Changing, task'[b].class = d,
                        task'[e].pc \in Changing, task'[e].class = d
                 PROVE  b = e /\ task'[b].old = class'[d].meeting
      BY <1>1 DEF OneMover
    <2>1. d # c
      BY <1>9, <1>20
    <2> QED
      BY <1>5, <1>9, <2>1 DEF MeetingsInv, OneMover
  <1>22. HasMeeting'
    <2> SUFFICES ASSUME NEW d \in Classes, WithMeeting(d)', d \notin torn'
                 PROVE  \/ zoom[class'[d].meeting] # NoSlot /\ class'[d].meeting \notin removing
                        \/ \E b \in Admins : /\ task'[b].pc = "write" /\ task'[b].class = d
                                             /\ task'[b].new # NoMeeting
                                             /\ task'[b].old = class'[d].meeting
      BY <1>1 DEF HasMeeting
    <2>1. CASE d = c /\ n # NoMeeting
      <3>1. zoom[n] # NoSlot
        BY <1>1, <1>11, <2>1, GroupNumbers
      <3> QED
        BY <1>4, <1>5, <1>11, <2>1, <3>1
    <2>2. CASE ~ (d = c /\ n # NoMeeting)
      <3>1. class'[d].meeting = class[d].meeting /\ WithMeeting(d) /\ d \notin torn
        BY <1>4, <1>5, <1>6, <2>2 DEF WithMeeting
      <3>2. \A b \in Admins : task[b].pc = "write" /\ task[b].class = d
                              /\ task[b].new # NoMeeting => b # a
        BY <1>2, <1>3, <2>2
      <3> QED
        BY <1>8, <3>1, <3>2 DEF MeetingsInv, HasMeeting
    <2> QED
      BY <2>1, <2>2
  <1>23. InTime'
    <2> SUFFICES ASSUME NEW d \in Classes, WithMeeting(d)', d \notin torn', d \notin raced
                 PROVE  /\ (\A b \in Admins : ~ (task'[b].pc = "write" /\ task'[b].class = d))
                           => zoom[class'[d].meeting] = class'[d].slot
                        /\ \A b \in Admins :
                              task'[b].pc = "write" /\ task'[b].class = d
                              /\ task'[b].new = NoMeeting
                              => zoom[class'[d].meeting] = task'[b].slot
      BY <1>1 DEF InTime
    <2>1. CASE d = c
      <3>1. \A b \in Admins : ~ (task'[b].pc = "write" /\ task'[b].class = d)
        BY <1>9, <1>20, <2>1 DEF Changing
      <3>2. CASE n # NoMeeting
        BY <1>4, <1>5, <1>11, <2>1, <3>1, <3>2
      <3>3. CASE n = NoMeeting
        <4>1. class'[d].meeting = class[c].meeting /\ WithMeeting(c) /\ c \notin torn
          BY <1>4, <1>5, <1>6, <2>1, <3>3 DEF WithMeeting
        <4>2. zoom[class[c].meeting] = task[a].slot
          BY <1>1, <1>2, <1>3, <2>1, <3>3, <4>1 DEF MeetingsInv, InTime
        <4> QED
          BY <1>4, <1>5, <2>1, <3>1, <4>1, <4>2
      <3> QED
        BY <3>2, <3>3
    <2>2. CASE d # c
      <3>1. class'[d] = class[d] /\ WithMeeting(d) /\ d \notin torn
        BY <1>5, <1>6, <2>2 DEF WithMeeting
      <3>2. \A b \in Admins : /\ task[b].class = d => task'[b] = task[b]
                              /\ task'[b].pc = "write" => task'[b] = task[b]
        BY <1>2, <1>8, <1>9, <2>2 DEF Changing
      <3> QED
        BY <3>1, <3>2 DEF MeetingsInv, InTime
    <2> QED
      BY <2>1, <2>2
  <1>24. AllPlaced'
    <2> SUFFICES ASSUME NEW m \in Meetings, zoom[m] # NoSlot PROVE HasPlace(m)'
      BY <1>1 DEF AllPlaced
    <2>1. HasPlace(m) /\ m # NoMeeting
      BY MeetingNumber DEF MeetingsInv, AllPlaced
    <2>2. CASE \E d \in Classes : class[d].meeting = m /\ class[d].status # "cancelled"
      <3>1. PICK d \in Classes : class[d].meeting = m /\ class[d].status # "cancelled"
        BY <2>2
      <3>2. CASE class'[d].meeting = m
        BY <1>4, <1>5, <3>1, <3>2 DEF HasPlace
      <3>3. CASE class'[d].meeting # m
        <4>1. d = c /\ n # NoMeeting
          BY <1>4, <1>5, <3>1, <3>3
        <4>2. m # task[a].old => m \in leftOver'
          BY <1>3, <1>6, <3>1, <4>1 DEF LeftByMove
        <4>3. m = task[a].old => m \in removing \union leftOver
          BY <1>11, <4>1
        <4> QED
          BY <1>1, <1>18, <4>2, <4>3 DEF HasPlace
      <3> QED
        BY <3>2, <3>3
    <2>3. CASE \E b \in Admins : OfMove(b, m)
      <3>1. PICK b \in Admins : OfMove(b, m)
        BY <2>3
      <3>2. CASE b # a
        BY <1>12, <3>1, <3>2 DEF HasPlace
      <3>3. CASE b = a
        <4>1. n = m
          BY <1>3, <3>1, <3>3 DEF OfMove
        <4>2. class'[c].meeting = m /\ class'[c].status = class[c].status
          BY <1>4, <1>5, <2>1, <4>1
        <4>3. class[c].status = "cancelled" => m \in leftOver'
          BY <1>3, <1>6, <2>1, <4>1 DEF LeftByMove
        <4> QED
          BY <4>2, <4>3 DEF HasPlace
      <3> QED
        BY <3>2, <3>3
    <2>4. CASE \E b \in Admins, u \in Slots : OfCreation(b, u, m)
      BY <1>12, <2>4 DEF HasPlace
    <2>5. CASE m \in removing \union leftOver
      BY <1>1, <1>18, <2>5 DEF HasPlace
    <2> QED
      BY <2>1, <2>2, <2>3, <2>4, <2>5 DEF HasPlace
  <1>25. GroupClassesTypeOK'
    <2>1. task' \in [Admins -> Task]
      BY <1>7 DEF TaskTurns
    <2>2. leftOver' \subseteq Meetings
      <3>1. LeftByMove(c, task[a]) \subseteq Meetings
        BY <1>3, <1>11, ClassOf, MeetingNumber DEF LeftByMove
      <3> QED
        BY <1>6, <3>1, GroupTypes
    <2>3. torn' \subseteq Classes
      BY <1>6, GroupTypes
    <2>4. request' \in [Requests -> Request]
      <3>1. \A r \in Requests : [request[r] EXCEPT !.moved = request[r].moved + 1] \in Request
        <4> SUFFICES ASSUME NEW r \in Requests
                     PROVE  [request[r] EXCEPT !.moved = request[r].moved + 1] \in Request
          OBVIOUS
        <4>1. request[r] \in Request
          BY GroupTypes
        <4> QED
          BY <4>1 DEF Request
      <3> QED
        BY <3>1, GroupTypes DEF MovesClass
    <2> QED
      BY <1>1, <1>5, <2>1, <2>2, <2>3, <2>4, GroupTypes, GroupTypesStay
  <1> QED
    BY <1>13, <1>14, <1>15, <1>16, <1>17, <1>19, <1>21, <1>22, <1>23, <1>24, <1>25
    DEF MeetingsInv

LEMMA GroupCreates ==
  ASSUME GroupInv, NEW a \in Admins, CreatesClasses(a)
  PROVE  GroupInv'
  <1> USE DEF GroupInv
  <1>1. /\ task[a].pc = "commit" /\ task[a] \in Task /\ TaskShape(task[a])
        /\ TaskTurns(a, Over)
        /\ UNCHANGED <<zoom, issued, removing, request, leftOver, torn, raced, disputed, mishaps>>
    BY TaskOf, Ending DEF CreatesClasses, history, MeetingsInv, ShapesFit
  <1>2. task'[a] = Over /\ \A b \in Admins : b # a => task'[b] = task[b]
    BY <1>1 DEF TaskTurns
  <1>3. PICK new : new = {c \in Classes : c[1] = a /\ c[2] \in task[a].slots}
    OBVIOUS
  <1>4. \A c \in Classes : c = <<c[1], c[2]>> /\ c[1] \in Admins /\ c[2] \in Slots
    BY DEF Classes
  <1>5. /\ class' \in [Classes -> Class]
        /\ \A c \in new : /\ c \in Classes /\ c[1] = a /\ c[2] \in Slots
                          /\ class'[c].status = "scheduled" /\ class'[c].slot = c[2]
                          /\ class'[c].meeting = task[a].got[c[2]]
        /\ \A c \in Classes \ new : class'[c] = class[c]
    <2>1. \A c \in Classes : [status |-> "scheduled", slot |-> c[2],
                              meeting |-> task[a].got[c[2]]] \in Class
      BY <1>1, <1>4, TaskTyped DEF Class
    <2>2. class' = [c \in Classes |->
                      IF c \in new THEN [status |-> "scheduled", slot |-> c[2],
                                         meeting |-> task[a].got[c[2]]]
                      ELSE class[c]]
      BY <1>3 DEF CreatesClasses
    <2>3. \A c \in new : c \in Classes /\ c[1] = a /\ c[2] \in Slots
      BY <1>3, <1>4
    <2> QED
      BY <2>1, <2>2, <2>3, GroupTypes
  <1>6. \A c \in new : class[c].status = "none" /\ class[c].meeting = NoMeeting
    <2> SUFFICES ASSUME NEW c \in new
                 PROVE  class[c].status = "none" /\ class[c].meeting = NoMeeting
      OBVIOUS
    <2>1. c = <<a, c[2]>> /\ c[2] \in Slots /\ c \in Classes
      BY <1>4, <1>5
    <2> QED
      BY <1>1, <2>1 DEF MeetingsInv, StatusFits
  <1>7. \A b \in Admins : /\ task[b].pc \in Changing => task[b].class \in Classes \ new
                          /\ task[b].pc \in Changing \/ task'[b].pc \in Changing
                             => b # a /\ task'[b] = task[b]
    <2>1. \A b \in Admins : task[b].pc \in Changing => task[b].class \in Classes \ new
      BY <1>6, TaskOf, TaskTyped DEF MeetingsInv, StatusFits
    <2>2. Over.pc \notin Changing /\ task[a].pc \notin Changing
      BY <1>1, OverTyped DEF Changing
    <2> QED
      BY <1>2, <2>1, <2>2
  <1>8. \A m \in Meetings :
           /\ \A d \in Classes : OfClass(d, m)' =>
                 \/ d \notin new /\ OfClass(d, m)
                 \/ d \in new /\ OfCreation(a, d[2], m)
           /\ \A b \in Admins, u \in Slots : OfCreation(b, u, m)' <=> OfCreation(b, u, m) /\ b # a
           /\ \A b \in Admins : OfMove(b, m)' <=> OfMove(b, m)
    <2> SUFFICES ASSUME NEW m \in Meetings
                 PROVE  /\ \A d \in Classes : OfClass(d, m)' =>
                              \/ d \notin new /\ OfClass(d, m)
                              \/ d \in new /\ OfCreation(a, d[2], m)
                        /\ \A b \in Admins, u \in Slots :
                              OfCreation(b, u, m)' <=> OfCreation(b, u, m) /\ b # a
                        /\ \A b \in Admins : OfMove(b, m)' <=> OfMove(b, m)
      OBVIOUS
    <2>1. m # NoMeeting
      BY MeetingNumber
    <2>2. ASSUME NEW d \in Classes, OfClass(d, m)'
          PROVE  \/ d \notin new /\ OfClass(d, m)
                 \/ d \in new /\ OfCreation(a, d[2], m)
      <3>1. CASE \E b \in Admins : /\ task'[b].pc \in Changing /\ task'[b].class = d
                                   /\ task'[b].old = m
        BY <1>7, <3>1 DEF OfClass
      <3>2. CASE class'[d].meeting = m
        BY <1>5, <3>2 DEF OfClass, OfCreation
      <3> QED
        BY <2>2, <3>1, <3>2 DEF OfClass
    <2>3. \A b \in Admins, u \in Slots : OfCreation(b, u, m)' <=> OfCreation(b, u, m) /\ b # a
      BY <1>2, <2>1, OverTyped DEF OfCreation
    <2>4. \A b \in Admins : OfMove(b, m)' <=> OfMove(b, m)
      BY <1>1, <1>2, OverTyped DEF OfMove
    <2> QED
      BY <2>2, <2>3, <2>4
  <1>9. MeetingsApart'
    <2> SUFFICES ASSUME NEW m \in Meetings
                 PROVE  /\ \A c, d \in Classes : OfClass(c, m)' /\ OfClass(d, m)' => c = d
                        /\ \A b, e \in Admins, s, u \in Slots :
                              OfCreation(b, s, m)' /\ OfCreation(e, u, m)' => b = e /\ s = u
                        /\ \A b, e \in Admins : OfMove(b, m)' /\ OfMove(e, m)' => b = e
                        /\ \A c \in Classes, b \in Admins : ~ (OfClass(c, m)' /\ OfMove(b, m)')
                        /\ \A c \in Classes, b \in Admins, s \in Slots :
                              ~ (OfClass(c, m)' /\ OfCreation(b, s, m)')
                        /\ \A b, e \in Admins, s \in Slots :
                              ~ (OfMove(e, m)' /\ OfCreation(b, s, m)')
      BY DEF MeetingsApart
    <2>1. ASSUME NEW c \in Classes, NEW d \in Classes, OfClass(c, m)', OfClass(d, m)'
          PROVE  c = d
      <3>1. CASE c \in new /\ d \in new
        <4>1. c[2] = d[2]
          BY <1>5, <1>8, <2>1, <3>1 DEF MeetingsInv, MeetingsApart
        <4> QED
          BY <1>4, <1>5, <3>1, <4>1
      <3>2. CASE c \notin new /\ d \notin new
        BY <1>8, <2>1, <3>2 DEF MeetingsInv, MeetingsApart
      <3>3. CASE (c \in new) # (d \in new)
        BY <1>5, <1>8, <2>1, <3>3 DEF MeetingsInv, MeetingsApart
      <3> QED
        BY <3>1, <3>2, <3>3
    <2>2. \A b, e \in Admins, s, u \in Slots :
             OfCreation(b, s, m)' /\ OfCreation(e, u, m)' => b = e /\ s = u
      BY <1>8 DEF MeetingsInv, MeetingsApart
    <2>3. \A b, e \in Admins : OfMove(b, m)' /\ OfMove(e, m)' => b = e
      BY <1>8 DEF MeetingsInv, MeetingsApart
    <2>4. \A c \in Classes, b \in Admins : ~ (OfClass(c, m)' /\ OfMove(b, m)')
      BY <1>5, <1>8 DEF MeetingsInv, MeetingsApart
    <2>5. \A c \in Classes, b \in Admins, s \in Slots : ~ (OfClass(c, m)' /\ OfCreation(b, s, m)')
      BY <1>5, <1>8 DEF MeetingsInv, MeetingsApart
    <2>6. \A b, e \in Admins, s \in Slots : ~ (OfMove(e, m)' /\ OfCreation(b, s, m)')
      BY <1>8 DEF MeetingsInv, MeetingsApart
    <2> QED
      BY <2>1, <2>2, <2>3, <2>4, <2>5, <2>6
  <1>10. ShapesFit'
    BY <1>2, OverTyped DEF MeetingsInv, ShapesFit, TaskShape
  <1>11. Numbered'
    <2>1. NoMeeting <= issued /\ \A s \in Slots : task[a].got[s] <= issued
      BY GroupNumbers DEF NoMeeting, MeetingsInv, Numbered
    <2>2. ASSUME NEW b \in Admins
          PROVE  /\ task'[b].old <= issued /\ task'[b].new <= issued
                 /\ \A u \in Slots : task'[b].got[u] <= issued
      BY <1>2, <2>1, OverTyped DEF MeetingsInv, Numbered
    <2>3. \A d \in Classes : class'[d].meeting <= issued
      BY <1>5, <2>1 DEF MeetingsInv, Numbered
    <2> QED
      BY <1>1, <2>2, <2>3 DEF MeetingsInv, Numbered
  <1>12. StatusFits'
    <2>1. \A b \in Admins : task'[b].pc # "done" =>
             \A s \in Slots : class'[<<b, s>>].status = "none"
      <3> SUFFICES ASSUME NEW b \in Admins, task'[b].pc # "done", NEW s \in Slots
                   PROVE  class'[<<b, s>>].status = "none"
        OBVIOUS
      <3>1. b # a /\ task[b].pc # "done"
        BY <1>2, OverTyped
      <3>2. <<b, s>> \in Classes \ new
        BY <1>5, <3>1 DEF Classes
      <3> QED
        BY <1>5, <3>1, <3>2 DEF MeetingsInv, StatusFits
    <2>2. \A b \in Admins : task'[b].pc \in Changing =>
             /\ class'[task'[b].class].status # "none"
             /\ task'[b].old # NoMeeting => class'[task'[b].class].meeting # NoMeeting
      BY <1>5, <1>7 DEF MeetingsInv, StatusFits
    <2>3. \A d \in Classes : class'[d].status = "none" => class'[d].meeting = NoMeeting
      BY <1>5 DEF MeetingsInv, StatusFits
    <2> QED
      BY <2>1, <2>2, <2>3 DEF StatusFits
  <1>13. CreationsFit'
    BY <1>1, <1>2, OverTyped DEF MeetingsInv, CreationsFit
  <1>14. MovesFit'
    BY <1>1, <1>7 DEF MeetingsInv, MovesFit, Changing
  <1>15. OneMover'
    BY <1>1, <1>5, <1>7 DEF MeetingsInv, OneMover
  <1>16. \A c \in new : WithMeeting(c)' =>
            /\ zoom[class'[c].meeting] = c[2] /\ c[2] # NoSlot
            /\ class'[c].meeting \notin removing
    BY <1>5, GroupNumbers DEF WithMeeting, MeetingsInv, CreationsFit
  <1>17. \A c \in Classes \ new : WithMeeting(c)' <=> WithMeeting(c)
    BY <1>5 DEF WithMeeting
  <1>18. HasMeeting'
    <2> SUFFICES ASSUME NEW d \in Classes, WithMeeting(d)', d \notin torn
                 PROVE  \/ zoom[class'[d].meeting] # NoSlot /\ class'[d].meeting \notin removing
                        \/ \E b \in Admins : /\ task'[b].pc = "write" /\ task'[b].class = d
                                             /\ task'[b].new # NoMeeting
                                             /\ task'[b].old = class'[d].meeting
      BY <1>1 DEF HasMeeting
    <2>1. CASE d \in new
      BY <1>16, <2>1
    <2>2. CASE d \notin new
      BY <1>5, <1>7, <1>17, <2>2 DEF MeetingsInv, HasMeeting, Changing
    <2> QED
      BY <2>1, <2>2
  <1>19. InTime'
    <2> SUFFICES ASSUME NEW d \in Classes, WithMeeting(d)', d \notin torn, d \notin raced
                 PROVE  /\ (\A b \in Admins : ~ (task'[b].pc = "write" /\ task'[b].class = d))
                           => zoom[class'[d].meeting] = class'[d].slot
                        /\ \A b \in Admins :
                              task'[b].pc = "write" /\ task'[b].class = d
                              /\ task'[b].new = NoMeeting
                              => zoom[class'[d].meeting] = task'[b].slot
      BY <1>1 DEF InTime
    <2>1. CASE d \in new
      BY <1>5, <1>7, <1>16, <2>1 DEF Changing
    <2>2. CASE d \notin new
      BY <1>5, <1>7, <1>17, <2>2 DEF MeetingsInv, InTime, Changing
    <2> QED
      BY <2>1, <2>2
  <1>20. AllPlaced'
    <2> SUFFICES ASSUME NEW m \in Meetings, zoom[m] # NoSlot PROVE HasPlace(m)'
      BY <1>1 DEF AllPlaced
    <2>1. HasPlace(m) /\ m # NoMeeting
      BY MeetingNumber DEF MeetingsInv, AllPlaced
    <2>2. CASE \E d \in Classes : class[d].meeting = m /\ class[d].status # "cancelled"
      BY <1>5, <1>6, <2>1, <2>2 DEF HasPlace
    <2>3. CASE \E b \in Admins : OfMove(b, m)
      BY <1>8, <2>3 DEF HasPlace
    <2>4. CASE \E b \in Admins, u \in Slots : OfCreation(b, u, m)
      <3>1. PICK b \in Admins, u \in Slots : OfCreation(b, u, m)
        BY <2>4
      <3>2. CASE b # a
        BY <1>8, <3>1, <3>2 DEF HasPlace
      <3>3. CASE b = a
        <4>1. task[a].got[u] = m /\ u \in task[a].slots
          BY <1>1, <2>1, <3>1, <3>3 DEF OfCreation, TaskShape
        <4>2. <<a, u>> \in new
          BY <1>3, <4>1 DEF Classes
        <4>3. class'[<<a, u>>].meeting = m /\ class'[<<a, u>>].status = "scheduled"
          BY <1>5, <4>1, <4>2
        <4> QED
          BY <1>5, <4>2, <4>3 DEF HasPlace
      <3> QED
        BY <3>2, <3>3
    <2>5. CASE m \in removing \union leftOver
      BY <1>1, <2>5 DEF HasPlace
    <2> QED
      BY <2>1, <2>2, <2>3, <2>4, <2>5 DEF HasPlace
  <1>21. GroupClassesTypeOK'
    <2>1. task' \in [Admins -> Task]
      BY <1>1 DEF TaskTurns
    <2> QED
      BY <1>1, <1>5, <2>1, GroupTypes, GroupTypesStay
  <1> QED
    BY <1>9, <1>10, <1>11, <1>12, <1>13, <1>14, <1>15, <1>18, <1>19, <1>20, <1>21
    DEF MeetingsInv

LEMMA GroupCancels ==
  ASSUME GroupInv, NEW c \in Classes, CancelsClass(c)
  PROVE  GroupInv'
  <1> USE DEF GroupInv
  <1>1. /\ class[c].status = "scheduled"
        /\ class[c] \in Class /\ class[c].meeting \in Meetings \union {NoMeeting}
        /\ removing' = removing \union ({class[c].meeting} \ {NoMeeting})
        /\ UNCHANGED <<zoom, issued, request, task, leftOver, torn, raced, disputed, mishaps>>
    BY ClassOf DEF CancelsClass, history
  <1>2. PICK v \in Class : /\ class' = [class EXCEPT ![c] = v] /\ v.status = "cancelled"
                           /\ v.slot = class[c].slot /\ v.meeting = class[c].meeting
    <2>1. PICK v : v = [class[c] EXCEPT !.status = "cancelled"]
      OBVIOUS
    <2>2. /\ v \in Class /\ v.status = "cancelled"
          /\ v.slot = class[c].slot /\ v.meeting = class[c].meeting
      BY <1>1, <2>1 DEF Class
    <2>3. class' = [class EXCEPT ![c] = v]
      BY <2>1, GroupTypes DEF CancelsClass
    <2> QED
      BY <2>2, <2>3
  <1>3. /\ class' \in [Classes -> Class] /\ class'[c] = v
        /\ \A d \in Classes : d # c => class'[d] = class[d]
    BY <1>2, GroupTypes
  <1>4. \A d \in Classes : /\ class'[d].meeting = class[d].meeting
                           /\ class'[d].slot = class[d].slot
                           /\ class'[d].status = "none" <=> class[d].status = "none"
                           /\ class'[d].status = "scheduled" => d # c /\ class'[d] = class[d]
    BY <1>1, <1>2, <1>3
  <1>5. \A m \in Meetings :
           /\ \A d \in Classes : OfClass(d, m)' <=> OfClass(d, m)
           /\ \A b \in Admins, u \in Slots : OfCreation(b, u, m)' <=> OfCreation(b, u, m)
           /\ \A b \in Admins : OfMove(b, m)' <=> OfMove(b, m)
    BY <1>1, <1>4 DEF OfClass, OfCreation, OfMove
  <1>6. MeetingsApart'
    BY <1>5, ApartStays DEF MeetingsInv
  <1>7. ShapesFit'
    BY <1>1 DEF MeetingsInv, ShapesFit, TaskShape
  <1>8. Numbered'
    <2>1. class[c].meeting # NoMeeting => class[c].meeting \in 1..issued
      <3>1. class[c].meeting <= issued
        BY DEF MeetingsInv, Numbered
      <3>2. class[c].meeting # NoMeeting => class[c].meeting \in Meetings
        BY <1>1
      <3> QED
        BY <3>1, <3>2, GroupNumbers DEF Meetings
    <2> QED
      BY <1>1, <1>4, <2>1 DEF MeetingsInv, Numbered
  <1>9. StatusFits'
    <2>1. \A b \in Admins, s \in Slots : <<b, s>> \in Classes
      BY DEF Classes
    <2> QED
      BY <1>1, <1>4, <2>1, TaskOf, TaskTyped DEF MeetingsInv, StatusFits
  <1>10. CreationsFit'
    <2> SUFFICES ASSUME NEW b \in Admins, NEW u \in Slots, task[b].got[u] # NoMeeting
                 PROVE  zoom[task[b].got[u]] = u /\ task[b].got[u] \notin removing'
      BY <1>1 DEF CreationsFit
    <2>1. PICK m \in Meetings : m = task[b].got[u] /\ OfCreation(b, u, m)
      BY TaskOf, TaskTyped DEF OfCreation
    <2>2. zoom[m] = u /\ m \notin removing
      BY <2>1 DEF MeetingsInv, CreationsFit
    <2>3. m # class[c].meeting
      BY <2>1 DEF MeetingsInv, MeetingsApart, OfClass
    <2> QED
      BY <1>1, <2>1, <2>2, <2>3
  <1>11. MovesFit'
    <2> SUFFICES ASSUME NEW b \in Admins, task[b].pc = "write", task[b].new # NoMeeting
                 PROVE  /\ zoom[task[b].new] = task[b].slot /\ task[b].new \notin removing'
                        /\ \/ zoom[task[b].old] = NoSlot
                           \/ task[b].old \in removing' \union leftOver
      BY <1>1 DEF MovesFit
    <2>1. PICK m \in Meetings : m = task[b].new /\ OfMove(b, m)
      BY TaskOf, TaskTyped DEF OfMove
    <2>2. m # class[c].meeting
      BY <2>1 DEF MeetingsInv, MeetingsApart, OfClass
    <2> QED
      BY <1>1, <2>1, <2>2 DEF MeetingsInv, MovesFit
  <1>12. OneMover'
    BY <1>1, <1>4 DEF MeetingsInv, OneMover
  <1>13. HasMeeting'
    <2> SUFFICES ASSUME NEW d \in Classes, WithMeeting(d)', d \notin torn
                 PROVE  \/ zoom[class[d].meeting] # NoSlot /\ class[d].meeting \notin removing'
                        \/ \E b \in Admins : /\ task[b].pc = "write" /\ task[b].class = d
                                             /\ task[b].new # NoMeeting
                                             /\ task[b].old = class[d].meeting
      BY <1>1, <1>4 DEF HasMeeting
    <2>1. d # c /\ WithMeeting(d)
      BY <1>4 DEF WithMeeting
    <2>2. class[d].meeting # class[c].meeting
      BY <1>1, <2>1, ClassOf DEF WithMeeting, MeetingsInv, MeetingsApart, OfClass
    <2> QED
      BY <1>1, <2>1, <2>2 DEF MeetingsInv, HasMeeting
  <1>14. InTime'
    BY <1>1, <1>4 DEF MeetingsInv, InTime, WithMeeting
  <1>15. AllPlaced'
    <2> SUFFICES ASSUME NEW m \in Meetings, zoom[m] # NoSlot PROVE HasPlace(m)'
      BY <1>1 DEF AllPlaced
    <2>1. HasPlace(m) /\ m # NoMeeting
      BY MeetingNumber DEF MeetingsInv, AllPlaced
    <2>2. CASE \E d \in Classes : class[d].meeting = m /\ class[d].status # "cancelled"
      <3>1. PICK d \in Classes : class[d].meeting = m /\ class[d].status # "cancelled"
        BY <2>2
      <3>2. CASE d = c
        BY <1>1, <2>1, <3>1, <3>2 DEF HasPlace
      <3>3. CASE d # c
        BY <1>3, <3>1, <3>3 DEF HasPlace
      <3> QED
        BY <3>2, <3>3
    <2>3. CASE \E b \in Admins : OfMove(b, m) \/ \E u \in Slots : OfCreation(b, u, m)
      BY <1>5, <2>3 DEF HasPlace
    <2>4. CASE m \in removing \union leftOver
      BY <1>1, <2>4 DEF HasPlace
    <2> QED
      BY <2>1, <2>2, <2>3, <2>4 DEF HasPlace
  <1>16. GroupClassesTypeOK'
    <2>1. removing' \subseteq Meetings
      BY <1>1, GroupTypes
    <2> QED
      BY <1>1, <1>3, <2>1, GroupTypes, GroupTypesStay
  <1> QED
    BY <1>6, <1>7, <1>8, <1>9, <1>10, <1>11, <1>12, <1>13, <1>14, <1>15, <1>16
    DEF MeetingsInv

\* A restart drops every task and leaves what was in hand behind.
LEMMA GroupStops ==
  ASSUME GroupInv, ServerStops
  PROVE  GroupInv'
  <1> USE DEF GroupInv
  <1>1. /\ UNCHANGED <<class, zoom, issued, raced>> /\ Mishap /\ removing' = {}
        /\ removing \subseteq leftOver' /\ leftOver \subseteq leftOver' /\ torn \subseteq torn'
    BY DEF ServerStops
  <1>2. \A a \in Admins : /\ task[a] \in Task /\ TaskShape(task[a])
                          /\ Held(task[a]) \union ({task[a].new} \ {NoMeeting}) \subseteq leftOver'
                          /\ task[a].for \subseteq disputed'
    BY TaskOf DEF ServerStops, MeetingsInv, ShapesFit
  <1>3. /\ task' \in [Admins -> Task]
        /\ \A a \in Admins : task'[a] = IF task[a] = NoTask THEN NoTask ELSE Over
    BY NoTaskTyped, OverTyped DEF ServerStops
  <1>4. \A a \in Admins : /\ task'[a].pc \in {"idle", "done"} /\ task'[a].old = NoMeeting
                          /\ task'[a].new = NoMeeting /\ task'[a].for = {}
                          /\ TaskShape(task'[a])
                          /\ \A s \in Slots : task'[a].got[s] = NoMeeting
                          /\ task'[a].pc # "done" => task[a].pc # "done"
    <2>1. TaskShape(NoTask)
      BY NoTaskTyped DEF TaskShape, Fresh, Changing
    <2> QED
      BY <1>3, <2>1, NoTaskTyped, OverTyped
  <1>5. \A m \in Meetings :
           /\ m # NoMeeting
           /\ \A d \in Classes : OfClass(d, m)' => OfClass(d, m)
           /\ \A b \in Admins, u \in Slots : ~ OfCreation(b, u, m)'
           /\ \A b \in Admins : ~ OfMove(b, m)'
    <2>1. \A m \in Meetings : m # NoMeeting
      BY MeetingNumber
    <2> QED
      BY <1>1, <1>4, <2>1 DEF OfClass, OfCreation, OfMove, Changing
  <1>6. MeetingsApart'
    BY <1>5, ApartStays DEF MeetingsInv
  <1>7. ShapesFit'
    BY <1>4 DEF ShapesFit, TaskShape
  <1>8. Numbered'
    <2>1. NoMeeting <= issued
      BY GroupNumbers DEF NoMeeting
    <2> QED
      BY <1>1, <1>4, <2>1 DEF MeetingsInv, Numbered
  <1>9. StatusFits'
    BY <1>1, <1>4 DEF MeetingsInv, StatusFits, Changing
  <1>10. CreationsFit' /\ MovesFit' /\ OneMover'
    BY <1>4 DEF CreationsFit, MovesFit, OneMover, Changing
  <1>11. \A c \in Classes : c \notin torn' => \A a \in Admins : ~ (task[a].pc = "write" /\ task[a].class = c)
    <2>1. \A c \in Classes : (\E a \in Moving(c) : task[a].pc = "write") => c \in torn'
      BY DEF ServerStops
    <2> QED
      BY <2>1 DEF Moving
  <1>12. HasMeeting'
    BY <1>1, <1>11 DEF MeetingsInv, HasMeeting, WithMeeting
  <1>13. InTime'
    <2> SUFFICES ASSUME NEW d \in Classes, WithMeeting(d), d \notin torn', d \notin raced
                 PROVE  zoom[class[d].meeting] = class[d].slot
      BY <1>1, <1>4 DEF InTime, WithMeeting
    <2> QED
      BY <1>1, <1>11 DEF MeetingsInv, InTime
  <1>14. AllPlaced'
    <2> SUFFICES ASSUME NEW m \in Meetings, zoom[m] # NoSlot PROVE HasPlace(m)'
      BY <1>1 DEF AllPlaced
    <2>1. HasPlace(m) /\ m # NoMeeting
      BY <1>5 DEF MeetingsInv, AllPlaced
    <2>2. CASE \E d \in Classes : class[d].meeting = m /\ class[d].status # "cancelled"
      BY <1>1, <2>2 DEF HasPlace
    <2>3. CASE \E b \in Admins : OfMove(b, m)
      BY <1>2, <2>1, <2>3 DEF HasPlace, OfMove
    <2>4. CASE \E b \in Admins, u \in Slots : OfCreation(b, u, m)
      <3>1. PICK b \in Admins, u \in Slots : task[b].got[u] = m
        BY <2>4 DEF OfCreation
      <3>2. m \in Held(task[b])
        BY <2>1, <3>1 DEF Held
      <3> QED
        BY <1>2, <3>2 DEF HasPlace
    <2>5. CASE m \in removing \union leftOver
      BY <1>1, <2>5 DEF HasPlace
    <2> QED
      BY <2>1, <2>2, <2>3, <2>4, <2>5 DEF HasPlace
  <1>15. GroupClassesTypeOK'
    <2>1. mishaps' \in 0..MaxMishaps
      BY <1>1, MishapCounted
    <2>2. leftOver' \subseteq Meetings
      <3>1. \A a \in Admins : Held(task[a]) \union ({task[a].new} \ {NoMeeting}) \subseteq Meetings
        BY HeldMeetings, TaskOf, TaskTyped
      <3>2. leftOver' = leftOver \union removing \union
                   UNION {Held(task[a]) \union ({task[a].new} \ {NoMeeting}) : a \in Admins}
        BY DEF ServerStops
      <3> QED
        BY <3>1, <3>2, GroupTypes
    <2>3. torn' \subseteq Classes
      BY GroupTypes DEF ServerStops
    <2>4. disputed' \subseteq Requests
      <3>1. \A a \in Admins : task[a].for \subseteq Requests
        BY TaskOf, TaskTyped
      <3> QED
        BY <3>1, GroupTypes DEF ServerStops
    <2>5. request' \in [Requests -> Request]
      <3>1. \A r \in Requests : /\ request[r] \in Request
                                /\ [request[r] EXCEPT !.status = "none"] \in Request
        <4> SUFFICES ASSUME NEW r \in Requests
                     PROVE  /\ request[r] \in Request
                            /\ [request[r] EXCEPT !.status = "none"] \in Request
          OBVIOUS
        <4>1. request[r] \in Request
          BY GroupTypes
        <4> QED
          BY <4>1 DEF Request
      <3> QED
        BY <3>1 DEF ServerStops
    <2>6. removing' \subseteq Meetings
      BY <1>1
    <2> QED
      BY <1>1, <1>3, <2>1, <2>2, <2>3, <2>4, <2>5, <2>6, GroupTypes, GroupTypesStay
  <1> QED
    BY <1>6, <1>7, <1>8, <1>9, <1>10, <1>12, <1>13, <1>14, <1>15 DEF MeetingsInv

-----------------------------------------------------------------------------
(* The requests for another time *)

\* A request is for a class that was there; who handles it has it pending; it
\* has moved its class once when that is written and not before.
RequestsReal ==
    \A r \in Requests : request[r].status # "none" => class[request[r].class].status # "none"

ForFits == \A a \in Admins : task[a].for # {} => task[a].pc \in Changing \union {"mark"}

RequestsFit ==
    \A r \in Requests \ disputed :
        /\ \A a, b \in Admins : r \in task[a].for /\ r \in task[b].for => a = b
        /\ \A a \in Admins : r \in task[a].for =>
              /\ request[r].status = "pending"
              /\ task[a].pc = "mark" => request[r].moved = 1
              /\ task[a].pc # "mark" => request[r].moved = 0
        /\ (\A a \in Admins : r \notin task[a].for) =>
              /\ request[r].status = "approved" => request[r].moved = 1
              /\ request[r].status # "approved" => request[r].moved = 0

\* Who handles a request has read it, even if another has answered it since.
ForReal ==
    \A a \in Admins, r \in Requests :
        r \in task[a].for => request[r].status \notin {"none", "checked"}

RequestsInv == RequestsReal /\ ForFits /\ ForReal /\ RequestsFit

\* No class vanishes.
ClassesStay == \A c \in Classes : class[c].status # "none" => class'[c].status # "none"

LEMMA RequestsUntouched ==
  ASSUME GroupClassesTypeOK, RequestsInv, UNCHANGED <<request, task, disputed>>, ClassesStay
  PROVE  RequestsInv'
  <1>1. \A r \in Requests : request[r].class \in Classes
    BY GroupTypes DEF Request
  <1> QED
    BY <1>1 DEF RequestsInv, RequestsReal, ForFits, ForReal, RequestsFit, ClassesStay

LEMMA RequestsStay ==
  ASSUME GroupClassesTypeOK, RequestsInv, ClassesStay,
         NEW a \in Admins, NEW q, TaskTurns(a, q),
         request' = request, disputed \subseteq disputed',
         \/ q.for = {} /\ (task[a].pc = "mark" => task[a].for \subseteq disputed')
         \/ q.for = task[a].for /\ q.pc \in Changing /\ task[a].pc \in Changing
  PROVE  RequestsInv'
  <1>1. \A r \in Requests : request[r].class \in Classes
    BY GroupTypes DEF Request
  <1>2. task'[a] = q /\ \A b \in Admins : b # a => task'[b] = task[b]
    BY DEF TaskTurns
  <1>3. RequestsReal'
    BY <1>1 DEF RequestsInv, RequestsReal, ClassesStay
  <1>4. ForFits'
    BY <1>2 DEF RequestsInv, ForFits
  <1>5. RequestsFit'
    <2> SUFFICES ASSUME NEW r \in Requests, r \notin disputed'
                 PROVE  /\ \A d, b \in Admins : r \in task'[d].for /\ r \in task'[b].for => d = b
                        /\ \A d \in Admins : r \in task'[d].for =>
                              /\ request[r].status = "pending"
                              /\ task'[d].pc = "mark" => request[r].moved = 1
                              /\ task'[d].pc # "mark" => request[r].moved = 0
                        /\ (\A d \in Admins : r \notin task'[d].for) =>
                              /\ request[r].status = "approved" => request[r].moved = 1
                              /\ request[r].status # "approved" => request[r].moved = 0
      BY DEF RequestsFit
    <2>1. r \in Requests \ disputed
      OBVIOUS
    <2>2. \A d \in Admins : r \in task'[d].for =>
             r \in task[d].for /\ (task'[d].pc = "mark" <=> task[d].pc = "mark")
      BY <1>2 DEF Changing
    <2>3. CASE r \in task[a].for /\ q.for = {}
      <3>1. task[a].pc # "mark" /\ request[r].status = "pending" /\ request[r].moved = 0
        BY <2>1, <2>3 DEF RequestsInv, RequestsFit
      <3> QED
        BY <2>1, <2>2, <3>1 DEF RequestsInv, RequestsFit
    <2>4. CASE r \notin task[a].for \/ q.for # {}
      <3>1. \A d \in Admins : r \in task'[d].for <=> r \in task[d].for
        BY <1>2, <2>4
      <3> QED
        BY <2>1, <2>2, <3>1 DEF RequestsInv, RequestsFit
    <2> QED
      BY <2>3, <2>4
  <1>6. ForReal'
    BY <1>2 DEF RequestsInv, ForReal
  <1> QED
    BY <1>3, <1>4, <1>5, <1>6 DEF RequestsInv

\* The steps of creations, of moves short of the write, and of the meetings.
LEMMA RequestsUnmoved ==
  ASSUME GroupInv, RequestsInv, NEW a \in Admins,
         \/ \E s \in Slots : ChecksOverlap(a, s)
         \/ MeetingFails(a) \/ UpdatesMeeting(a) \/ UpdateFails(a)
  PROVE  RequestsInv'
  <1> USE DEF GroupInv
  <1>1. PICK pc \in {"undo", "meet", "write", "recreate"} :
            /\ TaskGoesTo(a, pc)
            /\ \/ task[a].pc \in Changing /\ pc \in Changing
               \/ task[a].pc \notin Changing \union {"mark"}
    BY DEF ChecksOverlap, MeetingFails, UpdatesMeeting, UpdateFails, Changing
  <1>2. PICK q : TaskTurns(a, q) /\ q.pc = pc /\ q.for = task[a].for
    BY <1>1, GoingTo
  <1>3. UNCHANGED <<class, request, disputed>> /\ ClassesStay
    BY DEF ChecksOverlap, MeetingFails, UpdatesMeeting, UpdateFails, history, ClassesStay
  <1>4. task[a].pc \notin Changing \union {"mark"} => q.for = {} /\ task[a].pc # "mark"
    BY <1>2 DEF RequestsInv, ForFits
  <1> QED
    BY <1>1, <1>2, <1>3, <1>4, RequestsStay

LEMMA RequestsMade ==
  ASSUME GroupInv, RequestsInv, NEW a \in Admins,
         \/ \E s \in Slots : MakesMeeting(a, s)
         \/ Undoes(a) \/ RecreatesMeeting(a)
  PROVE  RequestsInv'
  <1> USE DEF GroupInv
  <1>1. UNCHANGED <<class, request, disputed>> /\ ClassesStay /\ task[a] \in Task
    BY TaskOf DEF MakesMeeting, Undoes, RecreatesMeeting, history, ClassesStay
  <1>2. task' \in [Admins -> Task]
    <2>1. GroupClassesTypeOK'
      BY GroupMakes, GroupUndoes, GroupRecreates
    <2> QED
      BY <2>1, GroupTypes DEF GroupClassesTypeOK
  <1>3. PICK q : task' = [task EXCEPT ![a] = q] /\ q = task'[a]
    BY GroupTypes DEF MakesMeeting, Undoes, RecreatesMeeting, TaskEnds
  <1>4. q \in Task /\ TaskTurns(a, q)
    BY <1>2, <1>3, TurnsTask
  <1>5. \/ q.for = {} /\ task[a].pc # "mark"
        \/ q.for = task[a].for /\ q.pc \in Changing /\ task[a].pc \in Changing
    <2>1. CASE \E s \in Slots : MakesMeeting(a, s)
      <3>1. PICK s \in Slots : MakesMeeting(a, s)
        BY <2>1
      <3>2. q = Got(task[a], s, issued + 1) /\ task[a].pc = "meet"
        BY <1>3, <3>1, GroupTypes DEF MakesMeeting
      <3>3. q.for = task[a].for
        BY <1>1, <3>2 DEF Got, Task
      <3> QED
        BY <3>2, <3>3 DEF RequestsInv, ForFits, Changing
    <2>2. CASE Undoes(a)
      <3>1. task[a].pc = "undo" /\ task[a].for = {}
        BY <2>2 DEF Undoes, RequestsInv, ForFits, Changing
      <3>2. q.for = {}
        <4>1. CASE TaskEnds(a)
          BY <1>3, <4>1, OverTyped, GroupTypes DEF TaskEnds
        <4>2. CASE \E s \in Slots :
                      task' = [task EXCEPT ![a].got = [task[a].got EXCEPT ![s] = NoMeeting]]
          BY <1>1, <1>3, <3>1, <4>2, GroupTypes DEF Task
        <4> QED
          BY <2>2, <4>1, <4>2 DEF Undoes
      <3> QED
        BY <3>1, <3>2
    <2>3. CASE RecreatesMeeting(a)
      <3>1. q = [task[a] EXCEPT !.pc = "write", !.new = issued + 1] /\ task[a].pc = "recreate"
        BY <1>3, <2>3, GroupTypes DEF RecreatesMeeting
      <3> QED
        BY <1>1, <3>1 DEF Task, Changing
    <2> QED
      BY <2>1, <2>2, <2>3
  <1> QED
    BY <1>1, <1>4, <1>5, RequestsStay

LEMMA MoveHandles ==
  ASSUME GroupClassesTypeOK, NEW c, NEW s, NEW by
  PROVE  MoveOf(c, s, by).for = by /\ MoveOf(c, s, by).pc \in {"write", "update"}
  <1>1. PICK t \in Task : t = NoTask
    BY NoTaskTyped
  <1>2. PICK pc \in {"write", "update"} :
            pc = IF class[c].meeting = NoMeeting THEN "write" ELSE "update"
    OBVIOUS
  <1>3. PICK q : q = [t EXCEPT !.pc = pc, !.class = c, !.slot = s, !.old = class[c].meeting,
                               !.for = by]
    OBVIOUS
  <1>4. q.for = by /\ q.pc = pc
    BY <1>3 DEF Task
  <1>5. q = MoveOf(c, s, by)
    BY <1>1, <1>2, <1>3 DEF MoveOf
  <1> QED
    BY <1>4, <1>5

LEMMA RequestsBegun ==
  ASSUME GroupInv, RequestsInv, NEW a \in Admins,
         \/ \E slots \in SUBSET Slots, zoomed \in BOOLEAN : CreateBegins(a, slots, zoomed)
         \/ \E c \in Classes, s \in Slots : MoveBegins(a, c, s)
  PROVE  RequestsInv'
  <1> USE DEF GroupInv
  <1>1. /\ UNCHANGED <<class, request, disputed>> /\ ClassesStay
        /\ task[a] = NoTask /\ NoTask \in Task /\ NoTask.for = {} /\ NoTask.pc = "idle"
    BY NoTaskTyped DEF CreateBegins, MoveBegins, TaskBegins, history, ClassesStay
  <1>2. PICK q : task' = [task EXCEPT ![a] = q] /\ q.for = {}
    <2>1. CASE \E slots \in SUBSET Slots, zoomed \in BOOLEAN : CreateBegins(a, slots, zoomed)
      <3>1. PICK slots \in SUBSET Slots, zoomed \in BOOLEAN : CreateBegins(a, slots, zoomed)
        BY <2>1
      <3>2. PICK pc, todo : /\ pc = IF zoomed THEN "check" ELSE "commit"
                            /\ todo = IF zoomed THEN slots ELSE {}
        OBVIOUS
      <3>3. PICK t \in Task : t = NoTask
        BY <1>1
      <3>4. PICK q : q = [t EXCEPT !.pc = pc, !.todo = todo, !.slots = slots,
                                   !.zoomed = zoomed]
        OBVIOUS
      <3>5. q.for = t.for
        BY <3>4 DEF Task
      <3>6. task' = [task EXCEPT ![a] = q]
        BY <3>1, <3>2, <3>3, <3>4 DEF CreateBegins, TaskBegins
      <3> QED
        BY <1>1, <3>3, <3>5, <3>6
    <2>2. CASE \E c \in Classes, s \in Slots : MoveBegins(a, c, s)
      <3>1. PICK c \in Classes, s \in Slots : MoveBegins(a, c, s)
        BY <2>2
      <3>2. PICK q : q = MoveOf(c, s, {})
        OBVIOUS
      <3>3. q.for = {}
        BY <3>2, MoveHandles
      <3>4. task' = [task EXCEPT ![a] = q]
        BY <3>1, <3>2 DEF MoveBegins, TaskBegins
      <3> QED
        BY <3>3, <3>4
    <2> QED
      BY <2>1, <2>2
  <1>3. task' \in [Admins -> Task]
    <2>1. GroupClassesTypeOK'
      BY GroupCreateBegins, GroupMoveBegins
    <2> QED
      BY <2>1 DEF GroupClassesTypeOK
  <1>4. TaskTurns(a, q)
    <2>1. task'[a] = q /\ \A b \in Admins : b # a => task'[b] = task[b]
      BY <1>2, GroupTypes
    <2> QED
      BY <1>3, <2>1 DEF TaskTurns
  <1> QED
    BY <1>1, <1>2, <1>4, RequestsStay

LEMMA RequestsDropped ==
  ASSUME GroupInv, RequestsInv, NEW a \in Admins,
         CreatesClasses(a) \/ CreationFails(a) \/ RecreationFails(a) \/ MoveFails(a)
         \/ MarkFails(a)
  PROVE  RequestsInv'
  <1> USE DEF GroupInv
  <1>1. TaskTurns(a, Over) /\ Over.for = {}
    BY Ending, OverTyped
    DEF CreatesClasses, CreationFails, RecreationFails, MoveFails, MarkFails
  <1>2. /\ request' = request /\ disputed \subseteq disputed'
        /\ task[a].pc = "mark" => task[a].for \subseteq disputed'
    BY DEF CreatesClasses, CreationFails, RecreationFails, MoveFails, MarkFails, history
  <1>3. ClassesStay
    <2>1. CASE CreatesClasses(a)
      <3>1. \A c \in Classes : class'[c] = class[c] \/ class'[c].status = "scheduled"
        BY <2>1 DEF CreatesClasses
      <3> QED
        BY <3>1 DEF ClassesStay
    <2>2. CASE ~ CreatesClasses(a)
      BY <2>2 DEF CreationFails, RecreationFails, MoveFails, MarkFails, history, ClassesStay
    <2> QED
      BY <2>1, <2>2
  <1> QED
    BY <1>1, <1>2, <1>3, RequestsStay

LEMMA RequestsElsewhere ==
  ASSUME GroupInv, RequestsInv,
         \/ \E c \in Classes : CancelsClass(c)
         \/ \E m \in Meetings : DeletesMeeting(m) \/ DeletionFails(m)
  PROVE  RequestsInv'
  <1> USE DEF GroupInv
  <1>1. UNCHANGED <<request, task, disputed>>
    BY DEF CancelsClass, DeletesMeeting, DeletionFails, history
  <1>2. ClassesStay
    <2>1. CASE \E c \in Classes : CancelsClass(c)
      <3>1. PICK c \in Classes : CancelsClass(c)
        BY <2>1
      <3>2. PICK v : v = [class[c] EXCEPT !.status = "cancelled"]
        OBVIOUS
      <3>3. v.status = "cancelled"
        BY <3>2, ClassOf DEF Class
      <3>4. class' = [class EXCEPT ![c] = v]
        BY <3>1, <3>2 DEF CancelsClass
      <3> QED
        BY <3>3, <3>4, GroupTypes DEF ClassesStay
    <2>2. CASE \E m \in Meetings : DeletesMeeting(m) \/ DeletionFails(m)
      BY <2>2 DEF DeletesMeeting, DeletionFails, ClassesStay
    <2> QED
      BY <2>1, <2>2
  <1> QED
    BY <1>1, <1>2, RequestsUntouched

\* A request changes; r is it, and n what it becomes.
LEMMA RequestTyped ==
  ASSUME GroupClassesTypeOK, NEW r \in Requests
  PROVE  /\ request[r] \in Request /\ request[r].class \in Classes /\ request[r].moved \in Nat
         /\ request[r].status \in {"none", "checked", "pending", "approved", "declined"}
  BY GroupTypes DEF Request

LEMMA RequestsAsked ==
  ASSUME GroupInv, RequestsInv, NEW r \in Requests,
         (\E c \in Classes : AsksForMove(r, c)) \/ WritesRequest(r)
  PROVE  RequestsInv'
  <1> USE DEF GroupInv
  <1>1. UNCHANGED <<class, task, disputed>> /\ request[r].status \in {"none", "checked"}
    BY DEF AsksForMove, WritesRequest, history
  <1>2. PICK n : /\ request' = [request EXCEPT ![r] = n] /\ n.status \in {"checked", "pending"}
                 /\ n.moved = request[r].moved /\ class[n.class].status # "none"
    <2>1. CASE \E c \in Classes : AsksForMove(r, c)
      <3>1. PICK c \in Classes : AsksForMove(r, c)
        BY <2>1
      <3>2. PICK n : n = [request[r] EXCEPT !.status = "checked", !.class = c]
        OBVIOUS
      <3>3. n.status = "checked" /\ n.moved = request[r].moved /\ n.class = c
        BY <3>2, RequestTyped DEF Request
      <3>4. request' = [request EXCEPT ![r] = n] /\ class[c].status # "none"
        BY <3>1, <3>2, GroupTypes DEF AsksForMove
      <3> QED
        BY <3>3, <3>4
    <2>2. CASE WritesRequest(r)
      <3>1. PICK n : n = [request[r] EXCEPT !.status = "pending"]
        OBVIOUS
      <3>2. n.status = "pending" /\ n.moved = request[r].moved /\ n.class = request[r].class
        BY <3>1, RequestTyped DEF Request
      <3>3. request' = [request EXCEPT ![r] = n] /\ request[r].status = "checked"
        BY <2>2, <3>1, GroupTypes DEF WritesRequest
      <3> QED
        BY <3>2, <3>3 DEF RequestsInv, RequestsReal
    <2> QED
      BY <2>1, <2>2
  <1>3. request'[r] = n /\ \A p \in Requests : p # r => request'[p] = request[p]
    BY <1>2, GroupTypes
  <1>4. RequestsReal'
    BY <1>1, <1>2, <1>3 DEF RequestsInv, RequestsReal
  <1>5. RequestsFit'
    <2>1. r \notin disputed => /\ \A a \in Admins : r \notin task[a].for
                               /\ request[r].moved = 0
      BY <1>1 DEF RequestsInv, RequestsFit
    <2>2. n.status # "approved"
      BY <1>2
    <2> QED
      BY <1>1, <1>2, <1>3, <2>1, <2>2 DEF RequestsInv, RequestsFit
  <1>6. ForFits'
    BY <1>1 DEF RequestsInv, ForFits
  <1>7. ForReal'
    BY <1>1, <1>3 DEF RequestsInv, ForReal
  <1> QED
    BY <1>4, <1>5, <1>6, <1>7 DEF RequestsInv

LEMMA RequestsApproved ==
  ASSUME GroupInv, RequestsInv, NEW a \in Admins, NEW r \in Requests, NEW s \in Slots,
         Approves(a, r, s), task' \in [Admins -> Task]
  PROVE  RequestsInv'
  <1> USE DEF GroupInv
  <1>1. /\ UNCHANGED <<class, request>> /\ request[r].status = "pending" /\ task[a] = NoTask
        /\ NoTask.for = {} /\ NoTask.pc = "idle" /\ NoTask \in Task
        /\ disputed' = IF Handling(r) = {} THEN disputed ELSE disputed \union {r}
    BY NoTaskTyped DEF Approves, IsPending, TaskBegins
  <1>2. PICK q : task' = [task EXCEPT ![a] = q] /\ q.for = {r} /\ q.pc \in {"write", "update"}
    <2>1. PICK q : q = MoveOf(request[r].class, s, {r})
      OBVIOUS
    <2>2. q.for = {r} /\ q.pc \in {"write", "update"}
      BY <2>1, MoveHandles
    <2>3. task' = [task EXCEPT ![a] = q]
      BY <2>1 DEF Approves, TaskBegins
    <2> QED
      BY <2>2, <2>3
  <1>3. task'[a] = q /\ \A b \in Admins : b # a => task'[b] = task[b]
    BY <1>2, GroupTypes
  <1>4. RequestsReal' /\ ForFits'
    BY <1>1, <1>2, <1>3 DEF RequestsInv, RequestsReal, ForFits, Changing
  <1>5. RequestsFit'
    <2> SUFFICES ASSUME NEW p \in Requests, p \notin disputed'
                 PROVE  /\ \A d, b \in Admins : p \in task'[d].for /\ p \in task'[b].for => d = b
                        /\ \A d \in Admins : p \in task'[d].for =>
                              /\ request[p].status = "pending"
                              /\ task'[d].pc = "mark" => request[p].moved = 1
                              /\ task'[d].pc # "mark" => request[p].moved = 0
                        /\ (\A d \in Admins : p \notin task'[d].for) =>
                              /\ request[p].status = "approved" => request[p].moved = 1
                              /\ request[p].status # "approved" => request[p].moved = 0
      BY <1>1 DEF RequestsFit
    <2>1. p \in Requests \ disputed
      BY <1>1
    <2>2. CASE p = r
      <3>1. \A d \in Admins : r \notin task[d].for
        BY <1>1, <2>2 DEF Handling
      <3>2. request[r].moved = 0
        BY <1>1, <2>1, <2>2, <3>1 DEF RequestsInv, RequestsFit
      <3> QED
        BY <1>1, <1>2, <1>3, <2>2, <3>1, <3>2
    <2>3. CASE p # r
      <3>1. \A d \in Admins : p \in task'[d].for => d # a /\ task'[d] = task[d]
        BY <1>2, <1>3, <2>3
      <3>2. \A d \in Admins : p \in task[d].for => task'[d] = task[d]
        BY <1>1, <1>3
      <3> QED
        BY <2>1, <3>1, <3>2 DEF RequestsInv, RequestsFit
    <2> QED
      BY <2>2, <2>3
  <1>6. ForReal'
    BY <1>1, <1>2, <1>3 DEF RequestsInv, ForReal
  <1> QED
    BY <1>4, <1>5, <1>6 DEF RequestsInv

LEMMA RequestsDeclined ==
  ASSUME GroupInv, RequestsInv, NEW a \in Admins, NEW r \in Requests, Declines(a, r)
  PROVE  RequestsInv'
  <1> USE DEF GroupInv
  <1>1. /\ UNCHANGED class /\ request[r].status = "pending" /\ task[a] = NoTask
        /\ NoTask.for = {} /\ Over.for = {} /\ task' = [task EXCEPT ![a] = Over]
        /\ disputed' = IF Handling(r) = {} THEN disputed ELSE disputed \union {r}
    BY NoTaskTyped, OverTyped DEF Declines, IsPending, TaskBegins
  <1>2. \A b \in Admins : task'[b].for = task[b].for /\ (task[b].for # {} => task'[b] = task[b])
    BY <1>1, GroupTypes
  <1>3. PICK n : /\ request' = [request EXCEPT ![r] = n] /\ n.status = "declined"
                 /\ n.moved = request[r].moved /\ n.class = request[r].class
    <2>1. PICK n : n = [request[r] EXCEPT !.status = "declined"]
      OBVIOUS
    <2>2. n.status = "declined" /\ n.moved = request[r].moved /\ n.class = request[r].class
      BY <2>1, RequestTyped DEF Request
    <2> QED
      BY <2>1, <2>2, GroupTypes DEF Declines
  <1>4. request'[r] = n /\ \A p \in Requests : p # r => request'[p] = request[p]
    BY <1>3, GroupTypes
  <1>5. RequestsReal' /\ ForFits'
    BY <1>1, <1>2, <1>3, <1>4 DEF RequestsInv, RequestsReal, ForFits
  <1>6. RequestsFit'
    <2>1. r \notin disputed' => /\ \A d \in Admins : r \notin task[d].for
                                /\ request[r].moved = 0
      BY <1>1 DEF Handling, RequestsInv, RequestsFit
    <2>2. disputed \subseteq disputed'
      BY <1>1
    <2>3. \A p \in Requests \ disputed' : p # r =>
             /\ p \in Requests \ disputed /\ request'[p] = request[p]
      BY <1>4, <2>2
    <2> QED
      BY <1>2, <1>3, <1>4, <2>1, <2>3 DEF RequestsInv, RequestsFit
  <1>7. ForReal'
    BY <1>2, <1>3, <1>4 DEF RequestsInv, ForReal
  <1> QED
    BY <1>5, <1>6, <1>7 DEF RequestsInv

LEMMA RequestsMoved ==
  ASSUME GroupInv, RequestsInv, NEW a \in Admins, MovesClass(a)
  PROVE  RequestsInv'
  <1> USE DEF GroupInv
  <1>1. /\ task[a].pc = "write" /\ disputed' = disputed
        /\ task[a] \in Task /\ task[a].class \in Classes
    BY TaskOf, TaskTyped DEF MovesClass
  <1>2. PICK q : /\ TaskTurns(a, q) /\ q.for = task[a].for
                 /\ q.for # {} => q.pc = "mark"
    <2>1. CASE task[a].for = {} /\ TaskEnds(a)
      BY <2>1, Ending, OverTyped
    <2>2. CASE TaskGoesTo(a, "mark")
      BY <2>2, GoingTo
    <2> QED
      BY <2>1, <2>2 DEF MovesClass
  <1>3. task'[a] = q /\ \A b \in Admins : b # a => task'[b] = task[b]
    BY <1>2 DEF TaskTurns
  <1>4. \A r \in Requests :
           /\ r \in task[a].for => /\ request'[r].status = request[r].status
                                   /\ request'[r].class = request[r].class
                                   /\ request'[r].moved = request[r].moved + 1
           /\ r \notin task[a].for => request'[r] = request[r]
    <2>1. \A r \in Requests : request'[r] =
             IF r \in task[a].for THEN [request[r] EXCEPT !.moved = request[r].moved + 1]
             ELSE request[r]
      BY DEF MovesClass
    <2> SUFFICES ASSUME NEW r \in Requests
                 PROVE  /\ r \in task[a].for => /\ request'[r].status = request[r].status
                                                /\ request'[r].class = request[r].class
                                                /\ request'[r].moved = request[r].moved + 1
                        /\ r \notin task[a].for => request'[r] = request[r]
      OBVIOUS
    <2>2. request[r] \in Request
      BY RequestTyped
    <2> QED
      BY <2>1, <2>2 DEF Request
  <1>5. \A c \in Classes : class'[c].status = class[c].status
    <2>1. PICK v : v = Moved(task[a].class, task[a])
      OBVIOUS
    <2>2. v.status = class[task[a].class].status
      BY <1>1, <2>1, ClassOf DEF Moved, Class
    <2>3. class' = [class EXCEPT ![task[a].class] = v]
      BY <2>1 DEF MovesClass
    <2> QED
      BY <1>1, <2>2, <2>3, GroupTypes
  <1>6. RequestsReal'
    <2>1. \A r \in Requests : /\ request'[r].status = request[r].status
                              /\ request'[r].class = request[r].class
                              /\ request[r].class \in Classes
      BY <1>4, RequestTyped
    <2> QED
      BY <1>5, <2>1 DEF RequestsInv, RequestsReal
  <1>7. ForFits'
    BY <1>2, <1>3 DEF RequestsInv, ForFits
  <1>8. RequestsFit'
    <2> SUFFICES ASSUME NEW r \in Requests, r \notin disputed
                 PROVE  /\ \A d, b \in Admins : r \in task'[d].for /\ r \in task'[b].for => d = b
                        /\ \A d \in Admins : r \in task'[d].for =>
                              /\ request'[r].status = "pending"
                              /\ task'[d].pc = "mark" => request'[r].moved = 1
                              /\ task'[d].pc # "mark" => request'[r].moved = 0
                        /\ (\A d \in Admins : r \notin task'[d].for) =>
                              /\ request'[r].status = "approved" => request'[r].moved = 1
                              /\ request'[r].status # "approved" => request'[r].moved = 0
      BY <1>1 DEF RequestsFit
    <2>1. \A d \in Admins : task'[d].for = task[d].for
      BY <1>2, <1>3
    <2>2. CASE r \in task[a].for
      <3>1. request[r].status = "pending" /\ request[r].moved = 0
        BY <1>1, <2>2 DEF RequestsInv, RequestsFit
      <3>2. request'[r].status = "pending" /\ request'[r].moved = 1
        BY <1>4, <2>2, <3>1
      <3>3. \A d \in Admins : r \in task'[d].for => d = a /\ task'[d].pc = "mark"
        BY <1>2, <1>3, <2>1, <2>2 DEF RequestsInv, RequestsFit
      <3> QED
        BY <2>1, <2>2, <3>2, <3>3
    <2>3. CASE r \notin task[a].for
      <3>1. request'[r] = request[r]
        BY <1>4, <2>3
      <3>2. \A d \in Admins : r \in task'[d].for => d # a /\ task'[d] = task[d]
        BY <1>3, <2>1, <2>3
      <3> QED
        BY <2>1, <3>1, <3>2 DEF RequestsInv, RequestsFit
    <2> QED
      BY <2>2, <2>3
  <1>9. ForReal'
    BY <1>2, <1>3, <1>4 DEF RequestsInv, ForReal
  <1> QED
    BY <1>6, <1>7, <1>8, <1>9 DEF RequestsInv

LEMMA RequestsMarked ==
  ASSUME GroupInv, RequestsInv, NEW a \in Admins, MarksApproved(a)
  PROVE  RequestsInv'
  <1> USE DEF GroupInv
  <1>1. /\ task[a].pc = "mark" /\ UNCHANGED <<class, disputed>> /\ TaskTurns(a, Over)
        /\ Over.for = {}
    BY Ending, OverTyped DEF MarksApproved, history
  <1>2. task'[a] = Over /\ \A b \in Admins : b # a => task'[b] = task[b]
    BY <1>1 DEF TaskTurns
  <1>3. \A r \in Requests :
           /\ r \in task[a].for => /\ request'[r].status = "approved"
                                   /\ request'[r].class = request[r].class
                                   /\ request'[r].moved = request[r].moved
           /\ r \notin task[a].for => request'[r] = request[r]
    <2>1. \A r \in Requests : request'[r] =
             IF r \in task[a].for THEN [request[r] EXCEPT !.status = "approved"]
             ELSE request[r]
      BY DEF MarksApproved
    <2> SUFFICES ASSUME NEW r \in Requests
                 PROVE  /\ r \in task[a].for => /\ request'[r].status = "approved"
                                                /\ request'[r].class = request[r].class
                                                /\ request'[r].moved = request[r].moved
                        /\ r \notin task[a].for => request'[r] = request[r]
      OBVIOUS
    <2>2. request[r] \in Request
      BY RequestTyped
    <2> QED
      BY <2>1, <2>2 DEF Request
  <1>4. ForFits'
    BY <1>1, <1>2 DEF RequestsInv, ForFits
  <1>5. RequestsFit'
    <2> SUFFICES ASSUME NEW r \in Requests, r \notin disputed
                 PROVE  /\ \A d, b \in Admins : r \in task'[d].for /\ r \in task'[b].for => d = b
                        /\ \A d \in Admins : r \in task'[d].for =>
                              /\ request'[r].status = "pending"
                              /\ task'[d].pc = "mark" => request'[r].moved = 1
                              /\ task'[d].pc # "mark" => request'[r].moved = 0
                        /\ (\A d \in Admins : r \notin task'[d].for) =>
                              /\ request'[r].status = "approved" => request'[r].moved = 1
                              /\ request'[r].status # "approved" => request'[r].moved = 0
      BY <1>1 DEF RequestsFit
    <2>1. CASE r \in task[a].for
      <3>1. request[r].moved = 1 /\ \A d \in Admins : r \in task[d].for => d = a
        BY <1>1, <2>1 DEF RequestsInv, RequestsFit
      <3>2. request'[r].status = "approved" /\ request'[r].moved = 1
        BY <1>3, <2>1, <3>1
      <3>3. \A d \in Admins : r \notin task'[d].for
        BY <1>1, <1>2, <3>1
      <3> QED
        BY <3>2, <3>3
    <2>2. CASE r \notin task[a].for
      <3>1. request'[r] = request[r]
        BY <1>3, <2>2
      <3>2. \A d \in Admins : /\ r \in task'[d].for <=> r \in task[d].for
                              /\ r \in task[d].for => task'[d] = task[d]
        BY <1>1, <1>2, <2>2
      <3> QED
        BY <3>1, <3>2 DEF RequestsInv, RequestsFit
    <2> QED
      BY <2>1, <2>2
  <1>6. RequestsReal'
    <2>1. \A r \in Requests : r \in task[a].for => request[r].status # "none"
      BY DEF RequestsInv, ForReal
    <2> QED
      BY <1>1, <1>3, <2>1 DEF RequestsInv, RequestsReal
  <1>7. ForReal'
    BY <1>1, <1>2, <1>3 DEF RequestsInv, ForReal
  <1> QED
    BY <1>4, <1>5, <1>6, <1>7 DEF RequestsInv

LEMMA RequestsStopped ==
  ASSUME GroupInv, RequestsInv, ServerStops
  PROVE  RequestsInv'
  <1> USE DEF GroupInv
  <1>1. UNCHANGED class /\ disputed \subseteq disputed'
        /\ \A a \in Admins : task[a].for \subseteq disputed'
    BY DEF ServerStops
  <1>2. \A a \in Admins : task'[a].for = {}
    BY NoTaskTyped, OverTyped DEF ServerStops
  <1>3. \A r \in Requests :
           \/ request'[r] = request[r]
           \/ /\ request[r].status = "checked" /\ request'[r].status = "none"
              /\ request'[r].moved = request[r].moved
    <2>1. \A r \in Requests : request'[r] =
             IF request[r].status = "checked" THEN [request[r] EXCEPT !.status = "none"]
             ELSE request[r]
      BY DEF ServerStops
    <2> SUFFICES ASSUME NEW r \in Requests
                 PROVE  \/ request'[r] = request[r]
                        \/ /\ request[r].status = "checked" /\ request'[r].status = "none"
                           /\ request'[r].moved = request[r].moved
      OBVIOUS
    <2>2. request[r] \in Request
      BY RequestTyped
    <2> QED
      BY <2>1, <2>2 DEF Request
  <1>4. RequestsReal' /\ ForFits'
    BY <1>1, <1>2, <1>3 DEF RequestsInv, RequestsReal, ForFits
  <1>5. RequestsFit'
    <2> SUFFICES ASSUME NEW r \in Requests, r \notin disputed'
                 PROVE  /\ request'[r].status = "approved" => request'[r].moved = 1
                        /\ request'[r].status # "approved" => request'[r].moved = 0
      BY <1>2 DEF RequestsFit
    <2>1. r \in Requests \ disputed /\ \A a \in Admins : r \notin task[a].for
      BY <1>1
    <2> QED
      BY <1>3, <2>1 DEF RequestsInv, RequestsFit
  <1>6. ForReal'
    BY <1>2 DEF ForReal
  <1> QED
    BY <1>4, <1>5, <1>6 DEF RequestsInv

-----------------------------------------------------------------------------
(* The behaviours of classes and meetings *)

LEMMA GroupBegin == GroupClassesInit => GroupInv /\ RequestsInv
  <1> SUFFICES ASSUME GroupClassesInit PROVE GroupInv /\ RequestsInv
    OBVIOUS
  <1>1. GroupClassesTypeOK
    <2>1. /\ MaxMeetings \in Nat /\ MaxMishaps \in Nat
          /\ MaxTasks \in Nat \ {0} /\ MaxSlot \in Nat \ {0}
      BY GroupClassesAssumption
    <2>2. 1 \in Admins /\ 1 \in Slots /\ <<1, 1>> \in Classes
      BY <2>1 DEF Admins, Slots, Classes
    <2>3. GotNothing \in [Slots -> Meetings \union {NoMeeting}]
      BY DEF GotNothing
    <2>4. NoTask \in Task
      BY <2>2, <2>3 DEF NoTask, Task
    <2>5. class \in [Classes -> Class] /\ request \in [Requests -> Request]
      BY <2>2 DEF GroupClassesInit, Class, Request
    <2>6. issued \in 0..MaxMeetings /\ mishaps \in 0..MaxMishaps
      BY <2>1 DEF GroupClassesInit
    <2> QED
      BY <2>4, <2>5, <2>6 DEF GroupClassesInit, GroupClassesTypeOK
  <1>2. \A a \in Admins : /\ task[a] = NoTask /\ task[a].pc = "idle" /\ task[a].for = {}
                          /\ task[a].old = NoMeeting /\ task[a].new = NoMeeting
                          /\ task[a].todo = {} /\ task[a].slots = {}
                          /\ \A s \in Slots : task[a].got[s] = NoMeeting
    BY <1>1, NoTaskTyped DEF GroupClassesInit
  <1>3. \A c \in Classes : class[c].status = "none" /\ class[c].meeting = NoMeeting
    BY DEF GroupClassesInit
  <1>4. \A m \in Meetings : m # NoMeeting /\ zoom[m] = NoSlot
    BY <1>1, MeetingNumber DEF GroupClassesInit
  <1>5. removing = {} /\ issued = 0
    BY DEF GroupClassesInit
  <1>6. ShapesFit
    BY <1>2 DEF ShapesFit, TaskShape, Changing
  <1>7. Numbered
    BY <1>2, <1>3, <1>5 DEF Numbered, NoMeeting
  <1>8. StatusFits
    <2>1. \A a \in Admins, s \in Slots : <<a, s>> \in Classes
      BY DEF Classes
    <2> QED
      BY <1>2, <1>3, <2>1 DEF StatusFits, Changing
  <1>9. MeetingsApart
    BY <1>2, <1>3, <1>4 DEF MeetingsApart, OfClass, OfCreation, OfMove
  <1>10. CreationsFit /\ MovesFit /\ OneMover
    BY <1>2 DEF CreationsFit, MovesFit, OneMover, Changing
  <1>11. HasMeeting /\ InTime /\ AllPlaced
    BY <1>3, <1>4 DEF HasMeeting, InTime, AllPlaced, WithMeeting
  <1>12. RequestsInv
    <2>1. \A r \in Requests : request[r].status = "none" /\ request[r].moved = 0
      BY DEF GroupClassesInit
    <2> QED
      BY <1>2, <2>1 DEF RequestsInv, RequestsReal, ForFits, ForReal, RequestsFit
  <1> QED
    BY <1>1, <1>6, <1>7, <1>8, <1>9, <1>10, <1>11, <1>12 DEF GroupInv, MeetingsInv

LEMMA GroupCreating ==
  ASSUME GroupInv, RequestsInv, NEW a \in Admins, Creating(a)
  PROVE  GroupInv' /\ RequestsInv'
  <1>1. CASE \E slots \in SUBSET Slots, zoomed \in BOOLEAN : CreateBegins(a, slots, zoomed)
    BY <1>1, GroupCreateBegins, RequestsBegun
  <1>2. CASE (\E s \in Slots : ChecksOverlap(a, s)) \/ MeetingFails(a)
    <2>1. 1 \in Slots
      BY GroupNumbers DEF GroupInv
    <2> QED
      BY <1>2, <2>1, GroupChecks, RequestsUnmoved
  <1>3. CASE (\E s \in Slots : MakesMeeting(a, s)) \/ Undoes(a)
    BY <1>3, GroupMakes, GroupUndoes, RequestsMade
  <1>4. CASE CreatesClasses(a) \/ CreationFails(a)
    BY <1>4, GroupCreates, GroupGivesUp, RequestsDropped
  <1> QED
    BY <1>1, <1>2, <1>3, <1>4 DEF Creating

LEMMA GroupRescheduling ==
  ASSUME GroupInv, RequestsInv, NEW a \in Admins, Rescheduling(a)
  PROVE  GroupInv' /\ RequestsInv'
  <1>1. CASE \E c \in Classes, s \in Slots : MoveBegins(a, c, s)
    BY <1>1, GroupMoveBegins, RequestsBegun
  <1>2. CASE UpdateFails(a)
    <2>1. 1 \in Slots
      BY GroupNumbers DEF GroupInv
    <2> QED
      BY <1>2, <2>1, GroupChecks, RequestsUnmoved
  <1>3. CASE UpdatesMeeting(a)
    BY <1>3, GroupUpdates, RequestsUnmoved
  <1>4. CASE RecreatesMeeting(a)
    BY <1>4, GroupRecreates, RequestsMade
  <1>5. CASE RecreationFails(a) \/ MoveFails(a)
    BY <1>5, GroupGivesUp, RequestsDropped
  <1>6. CASE MovesClass(a)
    BY <1>6, GroupMoves, RequestsMoved
  <1> QED
    BY <1>1, <1>2, <1>3, <1>4, <1>5, <1>6 DEF Rescheduling

LEMMA GroupRequesting ==
  ASSUME GroupInv, RequestsInv, NEW r \in Requests,
         \/ \E c \in Classes : AsksForMove(r, c)
         \/ WritesRequest(r)
         \/ \E a \in Admins : (\E s \in Slots : Approves(a, r, s)) \/ Declines(a, r)
  PROVE  GroupInv' /\ RequestsInv'
  <1>1. CASE (\E c \in Classes : AsksForMove(r, c)) \/ WritesRequest(r)
    <2>1. <<1, 1>> \in Classes
      BY GroupNumbers DEF GroupInv
    <2> QED
      BY <1>1, <2>1, GroupAsks, RequestsAsked
  <1>2. ASSUME NEW a \in Admins, NEW s \in Slots, Approves(a, r, s)
        PROVE  GroupInv' /\ RequestsInv'
    <2>1. class[request[r].class].status # "none"
      BY <1>2 DEF Approves, IsPending, RequestsInv, RequestsReal
    <2>2. GroupInv'
      BY <1>2, <2>1, GroupApproves
    <2>3. task' \in [Admins -> Task]
      BY <2>2 DEF GroupInv, GroupClassesTypeOK
    <2> QED
      BY <1>2, <2>2, <2>3, RequestsApproved
  <1>3. ASSUME NEW a \in Admins, Declines(a, r)
        PROVE  GroupInv' /\ RequestsInv'
    BY <1>3, GroupDeclines, RequestsDeclined
  <1> QED
    BY <1>1, <1>2, <1>3

LEMMA GroupContinue ==
  GroupInv /\ RequestsInv /\ [GroupClassesNext]_groupClassesVars => GroupInv' /\ RequestsInv'
  <1> SUFFICES ASSUME GroupInv, RequestsInv, [GroupClassesNext]_groupClassesVars
               PROVE  GroupInv' /\ RequestsInv'
    OBVIOUS
  <1>1. CASE \E a \in Admins : Creating(a) \/ Rescheduling(a)
    BY <1>1, GroupCreating, GroupRescheduling
  <1>2. CASE \E a \in Admins : MarksApproved(a) \/ MarkFails(a)
    BY <1>2, GroupGivesUp, RequestsMarked, RequestsDropped
  <1>3. CASE \E r \in Requests :
               \/ \E c \in Classes : AsksForMove(r, c)
               \/ WritesRequest(r)
               \/ \E a \in Admins : (\E s \in Slots : Approves(a, r, s)) \/ Declines(a, r)
    BY <1>3, GroupRequesting
  <1>4. CASE (\E c \in Classes : CancelsClass(c))
             \/ \E m \in Meetings : DeletesMeeting(m) \/ DeletionFails(m)
    BY <1>4, GroupCancels, GroupDeletes, RequestsElsewhere
  <1>5. CASE ServerStops
    BY <1>5, GroupStops, RequestsStopped
  <1>6. CASE UNCHANGED groupClassesVars
    <2>1. UNCHANGED <<class, zoom, issued, removing, request, task, leftOver, torn, raced,
                      disputed, mishaps>>
      BY <1>6 DEF groupClassesVars
    <2>2. GroupClassesTypeOK' /\ ClassesStay
      BY <2>1 DEF GroupInv, GroupClassesTypeOK, ClassesStay
    <2>3. MeetingsInv'
      BY <2>1, MeetingsUntouched DEF GroupInv
    <2>4. RequestsInv'
      BY <2>1, <2>2, RequestsUntouched DEF GroupInv
    <2> QED
      BY <2>2, <2>3, <2>4 DEF GroupInv
  <1> QED
    BY <1>1, <1>2, <1>3, <1>4, <1>5, <1>6 DEF GroupClassesNext

LEMMA GroupsHold == GroupClassesSpec => [](GroupInv /\ RequestsInv)
  BY GroupBegin, GroupContinue, PTL DEF GroupClassesSpec

\* Classes, meetings, requests and the admins' tasks have their types, and the
\* meetings made and the mishaps stay within their bounds, whatever calls fail.
THEOREM GroupClassesTyped == GroupClassesSpec => []GroupClassesTypeOK
  <1>1. GroupInv /\ RequestsInv => GroupClassesTypeOK
    BY DEF GroupInv
  <1> QED
    BY <1>1, GroupsHold, PTL

\* Whatever creations, moves, cancellations, failed calls and restarts cross: a
\* scheduled class that nobody moves has its meeting, at its time unless two moved
\* it at once; a meeting at Zoom is that of a class, will be or is to be deleted,
\* or a named failure left it; a request moves its class once if it is approved
\* and never if it is declined, unless two handled it (createGroupSession,
\* rescheduleGroupSession, handleRescheduleRequest, cancelBooking).
THEOREM MeetingsServed == GroupClassesSpec => []MeetingsFitClasses
  <1>1. ASSUME GroupInv, RequestsInv PROVE MeetingsFitClasses
    <2>1. ClassHasMeeting
      <3> SUFFICES ASSUME NEW c \in Classes, class[c].status = "scheduled",
                          class[c].meeting # NoMeeting, c \notin torn, Moving(c) = {}
                   PROVE  /\ zoom[class[c].meeting] # NoSlot
                          /\ c \notin raced => zoom[class[c].meeting] = class[c].slot
        BY DEF ClassHasMeeting
      <3>1. \A a \in Admins : ~ (task[a].pc = "write" /\ task[a].class = c)
        BY DEF Moving
      <3> QED
        BY <1>1, <3>1 DEF GroupInv, MeetingsInv, HasMeeting, InTime, WithMeeting
    <2>2. NoOrphanMeeting
      <3> SUFFICES ASSUME NEW m \in Meetings, zoom[m] # NoSlot
                   PROVE  \/ \E c \in Classes : class[c].meeting = m
                                                /\ class[c].status # "cancelled"
                          \/ \E a \in Admins : m \in Held(task[a]) \union {task[a].new}
                          \/ m \in removing \union leftOver
        BY DEF NoOrphanMeeting
      <3>1. HasPlace(m) /\ m # NoMeeting
        BY <1>1, MeetingNumber DEF GroupInv, MeetingsInv, AllPlaced
      <3>2. \A a \in Admins, s \in Slots : OfCreation(a, s, m) => m \in Held(task[a])
        BY <3>1 DEF OfCreation, Held
      <3> QED
        BY <3>1, <3>2 DEF HasPlace, OfMove
    <2>3. RequestMovesOnce
      <3> SUFFICES ASSUME NEW r \in Requests \ disputed
                   PROVE  /\ request[r].moved <= 1
                          /\ request[r].status = "declined" => request[r].moved = 0
                          /\ request[r].status = "approved" => request[r].moved = 1
        BY DEF RequestMovesOnce
      <3> QED
        BY <1>1 DEF RequestsInv, RequestsFit
    <2> QED
      BY <2>1, <2>2, <2>3 DEF MeetingsFitClasses
  <1> QED
    BY <1>1, GroupsHold, PTL

=============================================================================
