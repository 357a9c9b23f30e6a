--------------------------- MODULE PlatformProofs ---------------------------
(***************************************************************************)
(* Proofs about the components around the lessons: the account behind an   *)
(* address (Accounts), ratings and submissions (Coursework), the student's *)
(* record (Students), the messages (Threads), an article of the blog       *)
(* (Blogs), the mails to new users (Outreach) and the lesson reminders     *)
(* (Reminders), each for any number of requests and any bounds.            *)
(* The components share no variable; each part has an inductive invariant, *)
(* a lemma for every action and its theorems.                              *)
(***************************************************************************)
EXTENDS Accounts, Coursework, Students, Threads, Blogs, Outreach, Reminders,
        FiniteSetTheorems, SequenceTheorems, TLAPS

-----------------------------------------------------------------------------
(* Part 1: the account.  As long as nothing unruly has happened, one request *)
(* is at work; what it has read of the account is still so, since every      *)
(* other writer waits for a user to be made or would have been unruly.       *)

Checked == {"history", "clerk", "write"}
Asking == {"create", "sync", "link", "linkWrite", "provision"}
Past == {"sync", "link", "linkWrite", "provision", "pick", "history", "clerk",
         "write", "onboard", "profile", "child", "signupProfile", "adminClerk",
         "adminWrite"}

\* Without a user there is nothing of hers; past the guard there is one, and a
\* profile that was found stays.
Bare == linked = {} /\ paidAs = "none" /\ ~ children /\ clerk = "none"
UserMade ==
    /\ role = "none" => Bare
    /\ \A r \in Visits : /\ req[r].pc \in Past => role # "none"
                         /\ req[r].pc = "linkWrite" => "family" \in profiles

\* What was asked for, and that the picker has not seen a tutor.
AskedOf(q) ==
    /\ q.pc \in {"pick", "signup"} \union Checked => q.want \in Chosen
    /\ q.pc \in Asking /\ q.then = "pick" => q.want \in Chosen
    /\ q.pc \in {"adminClerk", "adminWrite"} => q.want \in Roles
    /\ q.pc \in Checked => q.saw # "tutor"
AskedFor == \A r \in Visits : AskedOf(req[r])

OneAtATime ==
    ~ unruly => \A r, q \in Visits : r \in Working /\ q \in Working => r = q

\* What the one request at work knows.
Knows(q) ==
    /\ q.pc \notin {"adminClerk", "adminWrite"}
    /\ q.pc = "sync" => /\ q.saw = role /\ q.token \in {"none", role}
                        /\ q.jwt => q.token = role
    /\ q.pc \in {"link", "linkWrite", "provision", "signupProfile"} => role = "student"
    /\ q.pc \in {"clerk", "write"} => ~ Refuses(q.want)
    /\ q.pc = "write" => clerk = q.want

InKeeping == ~ unruly =>
    /\ \A r \in Visits : Knows(req[r])
    /\ clerk \in {"none", role} \/ \E r \in Visits : req[r].pc = "write"

AccountsInv ==
    /\ AccountsTypeOK /\ UserMade /\ AskedFor /\ OneAtATime /\ InKeeping
    /\ RoleFitsHistory

LEMMA AccountsBegin == AccountsInit => AccountsInv
  <1> SUFFICES ASSUME AccountsInit PROVE AccountsInv
    OBVIOUS
  <1>1. NewVisit \in Visit /\ NewVisit.pc = "new"
    BY DEF NewVisit, Visit, AnyRole
  <1>2. \A r \in Visits : req[r] = NewVisit
    BY DEF AccountsInit
  <1>3. AccountsTypeOK
    BY <1>1 DEF AccountsInit, AccountsTypeOK, AnyRole
  <1>4. UserMade /\ AskedFor
    BY <1>1, <1>2 DEF AccountsInit, UserMade, Bare, AskedFor, AskedOf, Past, Checked, Asking
  <1>5. OneAtATime
    BY <1>1, <1>2 DEF OneAtATime, Working
  <1>6. InKeeping
    BY <1>1, <1>2 DEF AccountsInit, InKeeping, Knows
  <1>7. RoleFitsHistory
    BY DEF AccountsInit, RoleFitsHistory
  <1> QED
    BY <1>3, <1>4, <1>5, <1>6, <1>7 DEF AccountsInv

PCs == {"new", "done", "create", "sync", "link", "linkWrite", "provision",
        "pick", "history", "clerk", "write", "onboard", "profile",
        "child", "signup", "signupProfile", "adminClerk", "adminWrite"}

LEMMA VisitTyped ==
  ASSUME NEW q \in Visit, NEW pc \in PCs, NEW w \in AnyRole, NEW s \in AnyRole
  PROVE  /\ [q EXCEPT !.pc = pc, !.saw = s] \in Visit
         /\ [NewVisit EXCEPT !.pc = pc, !.want = w] \in Visit
         /\ [NewVisit EXCEPT !.pc = pc, !.saw = s, !.want = w] \in Visit
  <1>1. [q EXCEPT !.pc = pc, !.saw = s] \in Visit
    BY DEF Visit, PCs
  <1>2. NewVisit \in Visit
    BY DEF NewVisit, Visit, AnyRole
  <1>3. [NewVisit EXCEPT !.pc = pc, !.want = w] \in Visit
    BY <1>2 DEF Visit, PCs
  <1>4. [NewVisit EXCEPT !.pc = pc, !.saw = s, !.want = w] \in Visit
    BY <1>2 DEF Visit, PCs
  <1> QED
    BY <1>1, <1>3, <1>4

\* A request takes a step and the others do not.
OnlyMoves(r) == /\ req' \in [Visits -> Visit]
                /\ \A q \in Visits : q # r => req'[q] = req[q]

LEMMA VisitEnds ==
  ASSUME AccountsTypeOK, NEW r \in Visits, ReqEnds(r)
  PROVE  OnlyMoves(r) /\ req'[r].pc = "done" /\ AskedOf(req'[r]) /\ Knows(req'[r])
  <1>1. [NewVisit EXCEPT !.pc = "done"] \in Visit
        /\ [NewVisit EXCEPT !.pc = "done"].pc = "done"
    BY DEF NewVisit, Visit, AnyRole
  <1>2. OnlyMoves(r) /\ req'[r] = [NewVisit EXCEPT !.pc = "done"]
    BY <1>1 DEF ReqEnds, AccountsTypeOK, OnlyMoves
  <1>3. req'[r].pc = "done"
    BY <1>1, <1>2
  <1> QED
    BY <1>2, <1>3 DEF AskedOf, Knows, Checked, Asking

LEMMA VisitGoes ==
  ASSUME AccountsTypeOK, NEW r \in Visits, NEW pc \in PCs, ReqGoesTo(r, pc)
  PROVE  /\ OnlyMoves(r) /\ req'[r].pc = pc
         /\ req'[r].want = req[r].want /\ req'[r].then = req[r].then
         /\ req'[r].saw = req[r].saw /\ req'[r].token = req[r].token
         /\ req'[r].jwt = req[r].jwt
  <1>1. req[r] \in Visit /\ pc # "nothing"
    BY DEF AccountsTypeOK, PCs
  <1>2. req' = [req EXCEPT ![r] = [req[r] EXCEPT !.pc = pc]]
    BY <1>1 DEF ReqGoesTo
  <1>3. [req[r] EXCEPT !.pc = pc] \in Visit
    BY <1>1 DEF Visit, PCs
  <1>4. OnlyMoves(r) /\ req'[r] = [req[r] EXCEPT !.pc = pc]
    BY <1>2, <1>3 DEF AccountsTypeOK, OnlyMoves
  <1> QED
    BY <1>1, <1>4 DEF Visit

\* The guard lets the request pass to what was asked.
LEMMA VisitPasses ==
  ASSUME AccountsInv, NEW r \in Visits, req[r].pc \in Asking, Passes(r)
  PROVE  /\ OnlyMoves(r) /\ req'[r].pc \in {"done", "pick", "onboard", "child"}
         /\ AskedOf(req'[r])
  <1>1. req[r] \in Visit /\ AccountsTypeOK /\ AskedOf(req[r])
    BY DEF AccountsInv, AccountsTypeOK, AskedFor
  <1>2. CASE req[r].then = "nothing"
    <2>1. ReqEnds(r)
      BY <1>2 DEF Passes, ReqGoesTo
    <2> QED
      BY <2>1, <1>1, VisitEnds
  <1>3. CASE req[r].then # "nothing"
    <2>1. req[r].then \in {"pick", "onboard", "child"} /\ req[r].then \in PCs
      BY <1>1, <1>3 DEF Visit, PCs
    <2>2. /\ OnlyMoves(r) /\ req'[r].pc = req[r].then
          /\ req'[r].want = req[r].want
      BY <1>1, <2>1, VisitGoes DEF Passes
    <2> QED
      BY <1>1, <2>1, <2>2 DEF AskedOf, Checked, Asking
  <1> QED
    BY <1>2, <1>3

\* What has to be shown of a request that takes a step.
LEMMA VisitStep ==
  ASSUME AccountsInv, NEW r \in Visits, OnlyMoves(r),
         unruly => unruly', ~ unruly' => r \in Working \/ Working = {},
         role # "none" => role' # "none", role' = "none" => Bare',
         req'[r].pc \in Past => role' # "none", AskedOf(req'[r]),
         profiles \subseteq profiles', req'[r].pc = "linkWrite" => "family" \in profiles,
         ~ unruly' => Knows(req[r])',
         ~ unruly' => clerk' \in {"none", role'} \/ req'[r].pc = "write",
         RoleFitsHistory'
  PROVE  UserMade' /\ AskedFor' /\ OneAtATime' /\ InKeeping' /\ RoleFitsHistory'
  <1>1. \A q \in Visits : q # r => req'[q] = req[q]
    BY DEF OnlyMoves
  <1>2. UserMade'
    BY <1>1 DEF AccountsInv, UserMade
  <1>3. AskedFor'
    BY <1>1 DEF AccountsInv, AskedFor, AskedOf
  <1>4. ASSUME ~ unruly', NEW q \in Visits, q # r
        PROVE  q \notin Working /\ req'[q].pc \in {"new", "done"}
    BY <1>1, <1>4 DEF AccountsInv, OneAtATime, Working
  <1>5. OneAtATime'
    BY <1>4 DEF OneAtATime, Working
  <1>6. InKeeping'
    <2> SUFFICES ASSUME ~ unruly' PROVE InKeeping'
      BY DEF InKeeping
    <2>1. \A q \in Visits : q # r => Knows(req[q])'
      BY <1>4 DEF Knows
    <2> QED
      BY <2>1 DEF InKeeping
  <1> QED
    BY <1>2, <1>3, <1>5, <1>6

\* A request that touches nothing but itself.
LEMMA QuietVisit ==
  ASSUME AccountsInv, NEW r \in Visits, OnlyMoves(r),
         unruly => unruly', ~ unruly' => r \in Working \/ Working = {},
         UNCHANGED <<role, rows, paidAs, clerk, known>>, unruly' \in BOOLEAN,
         req'[r].pc \in Past => role # "none", AskedOf(req'[r]),
         req'[r].pc = "linkWrite" => "family" \in profiles,
         ~ unruly' => Knows(req'[r]), req[r].pc # "write"
  PROVE  AccountsInv'
  <1>1. AccountsTypeOK'
    BY DEF AccountsInv, AccountsTypeOK, rows, known, OnlyMoves
  <1>2. UNCHANGED <<role, profiles, linked, children, paidAs, clerk>>
    BY DEF rows
  <1>3. ~ unruly' => Knows(req[r])'
    BY <1>2 DEF Knows, Refuses
  <1>4. ~ unruly' => clerk \in {"none", role}
    <2> SUFFICES ASSUME ~ unruly' PROVE clerk \in {"none", role}
      OBVIOUS
    <2>1. ~ unruly
      OBVIOUS
    <2>2. \A q \in Visits : q # r => req[q].pc \in {"new", "done"}
      BY <2>1 DEF AccountsInv, OneAtATime, Working
    <2> QED
      BY <2>1, <2>2 DEF AccountsInv, InKeeping
  <1>5. RoleFitsHistory' /\ (role' = "none" => Bare')
    BY <1>2 DEF AccountsInv, RoleFitsHistory, UserMade, Bare
  <1>6. UserMade' /\ AskedFor' /\ OneAtATime' /\ InKeeping' /\ RoleFitsHistory'
    BY <1>2, <1>3, <1>4, <1>5, VisitStep
  <1> QED
    BY <1>1, <1>6 DEF AccountsInv

\* Where nobody is at work, Clerk says what the row says, or nothing.
LEMMA ClerkAgrees ==
  ASSUME AccountsInv, ~ unruly, \A r \in Visits : req[r].pc # "write"
  PROVE  clerk \in {"none", role}
  BY DEF AccountsInv, InKeeping

LEMMA AccGuardReads ==
  ASSUME AccountsInv, NEW r \in Visits, NEW jwt \in BOOLEAN, NEW token \in AnyRole,
         NEW want \in AnyRole, NEW then \in {"nothing", "pick", "onboard", "child"},
         GuardReads(r, jwt, token, then, want)
  PROVE  AccountsInv'
  <1>1. role \in AnyRole /\ req \in [Visits -> Visit] /\ unruly \in BOOLEAN
    BY DEF AccountsInv, AccountsTypeOK
  <1>2. PICK pc \in {"create", "sync"} : pc = IF role = "none" THEN "create" ELSE "sync"
    OBVIOUS
  <1> DEFINE v == [pc |-> pc, jwt |-> jwt, token |-> token, saw |-> role,
                   then |-> then, want |-> want]
  <1>3. v \in Visit
    BY <1>1 DEF Visit
  <1>4. req[r].pc = "new" /\ req' = [req EXCEPT ![r] = v]
    BY <1>2 DEF GuardReads, ReqBegins
  <1>5. OnlyMoves(r) /\ req'[r] = v
    BY <1>1, <1>3, <1>4 DEF OnlyMoves
  <1>6. /\ v.pc = pc /\ v.jwt = jwt /\ v.token = token /\ v.saw = role
        /\ v.then = then /\ v.want = want
    OBVIOUS
  <1> HIDE DEF v
  <1>7. unruly' = (unruly \/ Working # {} \/ token # (IF jwt THEN role ELSE clerk))
        /\ UNCHANGED <<role, rows, paidAs, clerk, known>>
    BY DEF GuardReads
  <1>8. unruly' \in BOOLEAN /\ (unruly => unruly') /\ (~ unruly' => Working = {})
    BY <1>1, <1>7
  <1>9. AskedOf(req'[r])
    BY <1>2, <1>5, <1>6 DEF AskedOf, Checked, Asking, GuardReads
  <1>10. (req'[r].pc \in Past => role # "none") /\ req'[r].pc # "linkWrite"
    BY <1>2, <1>5, <1>6 DEF Past
  <1>11. ASSUME ~ unruly' PROVE Knows(req'[r])
    <2>1. \A q \in Visits : req[q].pc # "write"
      BY <1>8, <1>11 DEF Working
    <2>2. clerk \in {"none", role}
      BY <1>7, <1>11, <2>1, ClerkAgrees
    <2> QED
      BY <1>2, <1>5, <1>6, <1>7, <1>11, <2>2 DEF Knows
  <1> QED
    BY <1>4, <1>5, <1>7, <1>8, <1>9, <1>10, <1>11, QuietVisit

\* The state after a step that sets the role, or that makes a profile.
LEMMA TypesAfter ==
  ASSUME AccountsTypeOK, NEW r \in Visits, OnlyMoves(r), unruly' \in BOOLEAN,
         UNCHANGED <<paidAs>>, clerk' \in AnyRole, children' \in BOOLEAN,
         role' \in AnyRole, roleWas' \subseteq AnyRole, clerkWas' \subseteq AnyRole,
         profiles' \subseteq Profiles, linked' \subseteq profiles'
  PROVE  AccountsTypeOK'
  BY DEF AccountsTypeOK, OnlyMoves

LEMMA AccGuardCreates ==
  ASSUME AccountsInv, NEW r \in Visits, GuardCreates(r)
  PROVE  AccountsInv'
  <1>1. req[r] \in Visit /\ AccountsTypeOK /\ req[r].pc = "create" /\ r \in Working
    BY DEF AccountsInv, AccountsTypeOK, GuardCreates, Working
  <1>2. UNCHANGED <<rows, paidAs, clerk, clerkWas, unruly>>
    BY DEF GuardCreates
  <1>3. CASE role = "none"
    <2>1. PICK new \in Roles : /\ new = IF req[r].token = "none" THEN "student"
                                        ELSE req[r].token
                               /\ SetsRole(new)
      BY <1>1, <1>3 DEF GuardCreates, Visit, AnyRole, Roles, Chosen
    <2>2. role' = new /\ roleWas' = roleWas \union {new} /\ new # "none" /\ new \in AnyRole
      BY <2>1 DEF SetsRole, Roles, Chosen, AnyRole
    <2>3. Passes(r)
      BY <1>3 DEF GuardCreates
    <2>4. /\ OnlyMoves(r) /\ req'[r].pc \in {"done", "pick", "onboard", "child"}
          /\ AskedOf(req'[r])
      BY <1>1, <2>3, VisitPasses DEF Asking
    <2>5. Bare /\ UNCHANGED <<linked, children, profiles>>
      BY <1>2, <1>3 DEF AccountsInv, UserMade, rows
    <2>6. RoleFitsHistory'
      BY <1>2, <2>5 DEF RoleFitsHistory, Bare
    <2>7. Knows(req[r])'
      BY <2>4 DEF Knows
    <2>8. clerk' \in {"none", role'}
      BY <1>2, <2>5 DEF Bare
    <2>9. UserMade' /\ AskedFor' /\ OneAtATime' /\ InKeeping' /\ RoleFitsHistory'
      BY <1>1, <1>2, <1>3, <2>2, <2>4, <2>5, <2>6, <2>7, <2>8, VisitStep
    <2>10. AccountsTypeOK'
      BY <1>1, <1>2, <2>2, <2>4, TypesAfter DEF AccountsTypeOK, rows
    <2> QED
      BY <2>9, <2>10 DEF AccountsInv
  <1>4. CASE role # "none"
    <2>1. ReqEnds(r) /\ UNCHANGED <<role, roleWas>>
      BY <1>4 DEF GuardCreates
    <2>2. OnlyMoves(r) /\ req'[r].pc = "done" /\ AskedOf(req'[r]) /\ Knows(req'[r])
      BY <1>1, <2>1, VisitEnds
    <2>3. UNCHANGED <<role, rows, paidAs, clerk, known>> /\ unruly' \in BOOLEAN
      BY <1>1, <1>2, <2>1 DEF known, AccountsTypeOK
    <2> QED
      BY <1>1, <1>2, <1>4, <2>2, <2>3, QuietVisit
  <1> QED
    BY <1>3, <1>4

LEMMA AccGuardSyncs ==
  ASSUME AccountsInv, NEW r \in Visits, GuardSyncs(r)
  PROVE  AccountsInv'
  <1> DEFINE q == req[r]
  <1>1. q \in Visit /\ AccountsTypeOK /\ q.pc = "sync" /\ r \in Working /\ role # "none"
    BY DEF AccountsInv, AccountsTypeOK, GuardSyncs, Working, UserMade, Past
  <1>2. UNCHANGED <<rows, paidAs, clerk, clerkWas, unruly>>
    BY DEF GuardSyncs
  <1>3. ~ unruly => /\ q.saw = role /\ q.token \in {"none", role}
                    /\ q.jwt => q.token = role
    BY <1>1 DEF AccountsInv, InKeeping, Knows
  <1>4. ~ unruly => ~ TakesRole(q)
    BY <1>3 DEF TakesRole
  <1>5. /\ role' \in AnyRole /\ role' # "none" /\ roleWas' \subseteq AnyRole
        /\ ~ unruly => role' = role
    <2>1. CASE TakesRole(q)
      <3>1. role' = q.token /\ roleWas' = roleWas \union {q.token}
        BY <2>1 DEF GuardSyncs, SetsRole
      <3>2. q.token \in AnyRole /\ q.token # "none"
        BY <1>1, <2>1 DEF Visit, TakesRole
      <3> QED
        BY <1>1, <1>4, <2>1, <3>1, <3>2 DEF AccountsTypeOK
    <2>2. CASE ~ TakesRole(q)
      BY <1>1, <2>2 DEF GuardSyncs, AccountsTypeOK
    <2> QED
      BY <2>1, <2>2
  <1>6. /\ OnlyMoves(r) /\ AskedOf(req'[r])
        /\ req'[r].pc \in {"done", "pick", "onboard", "child"} \/
           (req'[r].pc = "link" /\ IsStudent(q))
    <2>1. CASE IsStudent(q)
      <3>1. ReqGoesTo(r, "link") /\ "link" \in PCs
        BY <2>1 DEF GuardSyncs, PCs
      <3>2. OnlyMoves(r) /\ req'[r].pc = "link" /\ req'[r].want = q.want
            /\ req'[r].then = q.then
        BY <1>1, <3>1, VisitGoes
      <3>3. AskedOf(q)
        BY DEF AccountsInv, AskedFor
      <3> QED
        BY <1>1, <2>1, <3>2, <3>3 DEF AskedOf, Checked, Asking
    <2>2. CASE ~ IsStudent(q)
      BY <1>1, <2>2, VisitPasses DEF GuardSyncs, Asking
    <2> QED
      BY <2>1, <2>2
  <1>7. ~ unruly => (IsStudent(q) => role = "student")
    BY <1>3, <1>4 DEF IsStudent, Synced
  <1>8. ~ unruly' => Knows(req[r])'
    BY <1>2, <1>5, <1>6, <1>7 DEF Knows
  <1>9. ~ unruly => clerk \in {"none", role}
    <2> SUFFICES ASSUME ~ unruly PROVE clerk \in {"none", role}
      OBVIOUS
    <2>1. \A p \in Visits : req[p].pc # "write"
      BY <1>1 DEF AccountsInv, OneAtATime, Working
    <2> QED
      BY <2>1, ClerkAgrees
  <1>10. UNCHANGED <<linked, children, profiles>>
    BY <1>2 DEF rows
  <1>11. RoleFitsHistory'
    BY <1>2, <1>5, <1>10 DEF AccountsInv, RoleFitsHistory
  <1>12. UserMade' /\ AskedFor' /\ OneAtATime' /\ InKeeping' /\ RoleFitsHistory'
    <2> HIDE DEF q
    <2> QED
      BY <1>1, <1>2, <1>5, <1>6, <1>8, <1>9, <1>10, <1>11, VisitStep
  <1>13. AccountsTypeOK'
    BY <1>1, <1>2, <1>5, <1>6, <1>10, TypesAfter DEF AccountsTypeOK
  <1> QED
    BY <1>12, <1>13 DEF AccountsInv

\* One request at work: the others wait or are over.
LEMMA Alone ==
  ASSUME AccountsInv, ~ unruly, NEW r \in Visits, r \in Working
  PROVE  /\ \A q \in Visits : q # r => req[q].pc \in {"new", "done"}
         /\ Knows(req[r])
         /\ req[r].pc # "write" => clerk \in {"none", role}
  <1>1. \A q \in Visits : q # r => req[q].pc \in {"new", "done"}
    BY DEF AccountsInv, OneAtATime, Working
  <1> QED
    BY <1>1 DEF AccountsInv, InKeeping

LEMMA AccGuardFindsProfile ==
  ASSUME AccountsInv, NEW r \in Visits, GuardFindsProfile(r)
  PROVE  AccountsInv'
  <1>1. req[r] \in Visit /\ AccountsTypeOK /\ req[r].pc = "link" /\ r \in Working
        /\ role # "none" /\ AskedOf(req[r])
    BY DEF AccountsInv, AccountsTypeOK, GuardFindsProfile, Working, UserMade, Past, AskedFor
  <1>2. UNCHANGED <<role, rows, paidAs, clerk, known, unruly>> /\ unruly' \in BOOLEAN
    BY <1>1 DEF GuardFindsProfile, AccountsTypeOK
  <1>3. ~ unruly => role = "student"
    BY <1>1 DEF AccountsInv, InKeeping, Knows
  <1>4. CASE "family" \in profiles \ linked
    <2>1. ReqGoesTo(r, "linkWrite") /\ "linkWrite" \in PCs
      BY <1>4 DEF GuardFindsProfile, PCs
    <2>2. OnlyMoves(r) /\ req'[r].pc = "linkWrite" /\ req'[r].want = req[r].want
          /\ req'[r].then = req[r].then
      BY <1>1, <2>1, VisitGoes
    <2>3. AskedOf(req'[r]) /\ (~ unruly => Knows(req'[r]))
      BY <1>1, <1>3, <2>2 DEF AskedOf, Checked, Asking, Knows
    <2> QED
      BY <1>1, <1>2, <1>4, <2>2, <2>3, QuietVisit
  <1>5. CASE "family" \notin profiles \ linked /\ linked = {}
    <2>1. ReqGoesTo(r, "provision") /\ "provision" \in PCs
      BY <1>5 DEF GuardFindsProfile, PCs
    <2>2. OnlyMoves(r) /\ req'[r].pc = "provision" /\ req'[r].want = req[r].want
          /\ req'[r].then = req[r].then
      BY <1>1, <2>1, VisitGoes
    <2>3. AskedOf(req'[r]) /\ (~ unruly => Knows(req'[r]))
      BY <1>1, <1>3, <2>2 DEF AskedOf, Checked, Asking, Knows
    <2> QED
      BY <1>1, <1>2, <2>2, <2>3, QuietVisit
  <1>6. CASE "family" \notin profiles \ linked /\ linked # {}
    <2>1. Passes(r)
      BY <1>6 DEF GuardFindsProfile
    <2>2. /\ OnlyMoves(r) /\ req'[r].pc \in {"done", "pick", "onboard", "child"}
          /\ AskedOf(req'[r])
      BY <1>1, <2>1, VisitPasses DEF Asking
    <2>3. Knows(req'[r])
      BY <2>2 DEF Knows
    <2> QED
      BY <1>1, <1>2, <2>2, <2>3, QuietVisit
  <1> QED
    BY <1>4, <1>5, <1>6

\* A step that makes a profile or links one, where no parent is concerned.
LEMMA ProfileStep ==
  ASSUME AccountsInv, NEW r \in Visits, r \in Working, OnlyMoves(r),
         req[r].pc # "write", role # "none", AskedOf(req'[r]),
         req'[r].pc \in {"done", "pick", "onboard", "child"},
         UNCHANGED <<role, children, paidAs, clerk, known>>, unruly' \in BOOLEAN,
         unruly => unruly', ~ unruly' => role # "parent",
         profiles \subseteq profiles', profiles' \subseteq Profiles,
         linked' \subseteq profiles'
  PROVE  AccountsInv'
  <1>1. ~ unruly => clerk \in {"none", role}
    BY Alone
  <1>2. ~ unruly' => Knows(req[r])'
    BY DEF Knows
  <1>3. RoleFitsHistory'
    BY DEF AccountsInv, RoleFitsHistory
  <1>4. UserMade' /\ AskedFor' /\ OneAtATime' /\ InKeeping' /\ RoleFitsHistory'
    BY <1>1, <1>2, <1>3, VisitStep
  <1>5. AccountsTypeOK'
    BY DEF AccountsInv, AccountsTypeOK, OnlyMoves, known
  <1> QED
    BY <1>4, <1>5 DEF AccountsInv

LEMMA AccGuardLinks ==
  ASSUME AccountsInv, NEW r \in Visits, GuardLinks(r)
  PROVE  AccountsInv'
  <1>1. req[r] \in Visit /\ AccountsTypeOK /\ req[r].pc = "linkWrite" /\ r \in Working
        /\ role # "none" /\ "family" \in profiles
    BY DEF AccountsInv, AccountsTypeOK, GuardLinks, Working, UserMade, Past
  <1>2. UNCHANGED <<role, profiles, children, paidAs, clerk, known, unruly>>
        /\ unruly' \in BOOLEAN
    BY <1>1 DEF GuardLinks, AccountsTypeOK
  <1>3. ~ unruly => role = "student"
    BY <1>1 DEF AccountsInv, InKeeping, Knows
  <1>4. OnlyMoves(r) /\ AskedOf(req'[r])
        /\ req'[r].pc \in {"done", "pick", "onboard", "child"}
        /\ linked' \subseteq linked \union {"family"}
    <2>1. CASE linked \subseteq {"family"}
      BY <1>1, <2>1, VisitPasses DEF GuardLinks, Asking
    <2>2. CASE ~ linked \subseteq {"family"}
      BY <1>1, <2>2, VisitEnds DEF GuardLinks
    <2> QED
      BY <2>1, <2>2
  <1>5. profiles' \subseteq Profiles /\ linked' \subseteq profiles'
    BY <1>1, <1>2, <1>4 DEF AccountsTypeOK
  <1> QED
    BY <1>1, <1>2, <1>3, <1>4, <1>5, ProfileStep

LEMMA AccGuardProvisions ==
  ASSUME AccountsInv, NEW r \in Visits, GuardProvisions(r)
  PROVE  AccountsInv'
  <1>1. req[r] \in Visit /\ AccountsTypeOK /\ req[r].pc = "provision" /\ r \in Working
        /\ role # "none"
    BY DEF AccountsInv, AccountsTypeOK, GuardProvisions, Working, UserMade, Past
  <1>2. UNCHANGED <<role, children, paidAs, clerk, known, unruly>> /\ unruly' \in BOOLEAN
    BY <1>1 DEF GuardProvisions, AccountsTypeOK
  <1>3. ~ unruly => role = "student"
    BY <1>1 DEF AccountsInv, InKeeping, Knows
  <1>4. OnlyMoves(r) /\ AskedOf(req'[r])
        /\ req'[r].pc \in {"done", "pick", "onboard", "child"}
    BY <1>1, VisitPasses DEF GuardProvisions, Asking
  <1>5. /\ profiles \subseteq profiles' /\ profiles' \subseteq Profiles
        /\ linked' \subseteq profiles'
    BY <1>1 DEF GuardProvisions, NewProfile, Profiles, AccountsTypeOK
  <1> QED
    BY <1>1, <1>2, <1>3, <1>4, <1>5, ProfileStep

LEMMA AccPickReads ==
  ASSUME AccountsInv, NEW r \in Visits, PickReads(r)
  PROVE  AccountsInv'
  <1>1. req[r] \in Visit /\ AccountsTypeOK /\ req[r].pc = "pick" /\ r \in Working
        /\ role # "none" /\ AskedOf(req[r]) /\ role \in AnyRole
    BY DEF AccountsInv, AccountsTypeOK, PickReads, Working, UserMade, Past, AskedFor
  <1>2. UNCHANGED <<role, rows, paidAs, clerk, known, unruly>> /\ unruly' \in BOOLEAN
    BY <1>1 DEF PickReads, AccountsTypeOK
  <1>3. CASE role = "tutor"
    <2>1. OnlyMoves(r) /\ req'[r].pc = "done" /\ AskedOf(req'[r]) /\ Knows(req'[r])
      BY <1>1, <1>3, VisitEnds DEF PickReads
    <2> QED
      BY <1>1, <1>2, <2>1, QuietVisit
  <1>4. CASE role # "tutor"
    <2> DEFINE v == [req[r] EXCEPT !.pc = "history", !.saw = role]
    <2>1. v \in Visit
      BY <1>1, VisitTyped DEF PCs
    <2>2. req' = [req EXCEPT ![r] = v]
      BY <1>4 DEF PickReads
    <2>3. OnlyMoves(r) /\ req'[r] = v
      BY <1>1, <2>1, <2>2 DEF AccountsTypeOK, OnlyMoves
    <2>4. v.pc = "history" /\ v.saw = role /\ v.want = req[r].want
      BY <1>1 DEF Visit
    <2> HIDE DEF v
    <2>5. AskedOf(req'[r]) /\ Knows(req'[r])
      BY <1>1, <1>4, <2>3, <2>4 DEF AskedOf, Checked, Asking, Knows
    <2> QED
      BY <1>1, <1>2, <2>3, <2>4, <2>5, QuietVisit
  <1> QED
    BY <1>3, <1>4

LEMMA AccPickChecks ==
  ASSUME AccountsInv, NEW r \in Visits, PickChecks(r)
  PROVE  AccountsInv'
  <1>1. req[r] \in Visit /\ AccountsTypeOK /\ req[r].pc = "history" /\ r \in Working
        /\ role # "none" /\ AskedOf(req[r])
    BY DEF AccountsInv, AccountsTypeOK, PickChecks, Working, UserMade, Past, AskedFor
  <1>2. UNCHANGED <<role, rows, paidAs, clerk, known, unruly>> /\ unruly' \in BOOLEAN
    BY <1>1 DEF PickChecks, AccountsTypeOK
  <1>3. CASE Refuses(req[r].want)
    <2>1. OnlyMoves(r) /\ req'[r].pc = "done" /\ AskedOf(req'[r]) /\ Knows(req'[r])
      BY <1>1, <1>3, VisitEnds DEF PickChecks
    <2> QED
      BY <1>1, <1>2, <2>1, QuietVisit
  <1>4. CASE ~ Refuses(req[r].want)
    <2>1. ReqGoesTo(r, "clerk") /\ "clerk" \in PCs
      BY <1>4 DEF PickChecks, PCs
    <2>2. OnlyMoves(r) /\ req'[r].pc = "clerk" /\ req'[r].want = req[r].want
          /\ req'[r].saw = req[r].saw
      BY <1>1, <2>1, VisitGoes
    <2>3. AskedOf(req'[r]) /\ Knows(req'[r])
      BY <1>1, <1>4, <2>2 DEF AskedOf, Checked, Asking, Knows
    <2> QED
      BY <1>1, <1>2, <2>2, <2>3, QuietVisit
  <1> QED
    BY <1>3, <1>4

LEMMA AccPickSyncs ==
  ASSUME AccountsInv, NEW r \in Visits, PickSyncs(r)
  PROVE  AccountsInv'
  <1>1. req[r] \in Visit /\ AccountsTypeOK /\ req[r].pc = "clerk" /\ r \in Working
        /\ role # "none" /\ AskedOf(req[r])
    BY DEF AccountsInv, AccountsTypeOK, PickSyncs, Working, UserMade, Past, AskedFor
  <1>2. UNCHANGED <<role, rows, paidAs, roleWas>>
    BY DEF PickSyncs
  <1>3. "write" \in PCs /\ ReqGoesTo(r, "write")
    BY DEF PickSyncs, PCs
  <1>4. OnlyMoves(r) /\ req'[r].pc = "write" /\ req'[r].want = req[r].want
        /\ req'[r].saw = req[r].saw
    BY <1>1, <1>3, VisitGoes
  <1>5. req[r].want \in Chosen /\ req[r].want \in AnyRole
    BY <1>1 DEF AskedOf, Checked, Roles, AnyRole
  <1>6. /\ clerk' \in AnyRole /\ clerkWas' \subseteq AnyRole /\ unruly' \in BOOLEAN
        /\ unruly => unruly'
        /\ ~ unruly' => clerk' = req[r].want
    BY <1>1, <1>5 DEF PickSyncs, AccountsTypeOK
  <1>7. UNCHANGED <<linked, children, profiles>>
    BY <1>2 DEF rows
  <1>8. AskedOf(req'[r])
    BY <1>1, <1>4 DEF AskedOf, Checked, Asking
  <1>9. ~ unruly' => Knows(req[r])'
    <2> SUFFICES ASSUME ~ unruly' PROVE Knows(req[r])'
      OBVIOUS
    <2>1. ~ Refuses(req[r].want)
      BY <1>1, <1>6 DEF AccountsInv, InKeeping, Knows
    <2>2. ~ Refuses(req[r].want)'
      BY <1>2, <1>4, <1>7, <2>1 DEF Refuses
    <2> QED
      BY <1>4, <1>6, <2>2 DEF Knows
  <1>10. RoleFitsHistory'
    BY <1>2, <1>6, <1>7 DEF AccountsInv, RoleFitsHistory
  <1>11. UserMade' /\ AskedFor' /\ OneAtATime' /\ InKeeping' /\ RoleFitsHistory'
    BY <1>1, <1>2, <1>4, <1>6, <1>7, <1>8, <1>9, <1>10, VisitStep
  <1>12. AccountsTypeOK'
    BY <1>1, <1>2, <1>4, <1>6, <1>7, TypesAfter DEF AccountsTypeOK
  <1> QED
    BY <1>11, <1>12 DEF AccountsInv

LEMMA AccPickWrites ==
  ASSUME AccountsInv, NEW r \in Visits, PickWrites(r)
  PROVE  AccountsInv'
  <1>1. req[r] \in Visit /\ AccountsTypeOK /\ req[r].pc = "write" /\ r \in Working
        /\ role # "none" /\ AskedOf(req[r])
    BY DEF AccountsInv, AccountsTypeOK, PickWrites, Working, UserMade, Past, AskedFor
  <1>2. UNCHANGED <<rows, paidAs, clerk, clerkWas, unruly>> /\ ReqEnds(r)
    BY DEF PickWrites
  <1>3. PICK w \in Chosen : w = req[r].want
    BY <1>1 DEF AskedOf, Checked
  <1>4. /\ role' = w /\ roleWas' = roleWas \union {w} /\ w # "none" /\ w \in AnyRole
        /\ w # "tutor"
    BY <1>3 DEF PickWrites, SetsRole, Chosen, Roles, AnyRole
  <1>5. OnlyMoves(r) /\ req'[r].pc = "done" /\ AskedOf(req'[r])
    BY <1>1, <1>2, VisitEnds
  <1>6. UNCHANGED <<linked, children, profiles>>
    BY <1>2 DEF rows
  <1>7. ~ unruly => ~ Refuses(w) /\ clerk = w
    BY <1>1, <1>3 DEF AccountsInv, InKeeping, Knows
  <1>8. RoleFitsHistory'
    BY <1>2, <1>4, <1>6, <1>7 DEF RoleFitsHistory, Refuses
  <1>9. Knows(req[r])'
    BY <1>5 DEF Knows
  <1>10. UserMade' /\ AskedFor' /\ OneAtATime' /\ InKeeping' /\ RoleFitsHistory'
    BY <1>1, <1>2, <1>4, <1>5, <1>6, <1>7, <1>8, <1>9, VisitStep DEF Past
  <1>11. AccountsTypeOK'
    BY <1>1, <1>2, <1>4, <1>5, <1>6, TypesAfter DEF AccountsTypeOK
  <1> QED
    BY <1>10, <1>11 DEF AccountsInv

LEMMA AccOnboardReads ==
  ASSUME AccountsInv, NEW r \in Visits, OnboardReads(r)
  PROVE  AccountsInv'
  <1>1. req[r] \in Visit /\ AccountsTypeOK /\ req[r].pc = "onboard" /\ r \in Working
        /\ role # "none"
    BY DEF AccountsInv, AccountsTypeOK, OnboardReads, Working, UserMade, Past
  <1>2. UNCHANGED <<role, rows, paidAs, clerk, known, unruly>> /\ unruly' \in BOOLEAN
    BY <1>1 DEF OnboardReads, AccountsTypeOK
  <1>3. OnlyMoves(r) /\ req'[r].pc \in {"profile", "done"}
    <2>1. "profile" \in PCs
      BY DEF PCs
    <2> QED
      BY <1>1, <2>1, VisitGoes, VisitEnds DEF OnboardReads
  <1>4. AskedOf(req'[r]) /\ Knows(req'[r])
    BY <1>3 DEF AskedOf, Knows, Checked, Asking
  <1> QED
    BY <1>1, <1>2, <1>3, <1>4, QuietVisit

LEMMA AccOnboardCreates ==
  ASSUME AccountsInv, NEW r \in Visits, OnboardCreates(r)
  PROVE  AccountsInv'
  <1>1. req[r] \in Visit /\ AccountsTypeOK /\ req[r].pc = "profile" /\ r \in Working
        /\ role # "none"
    BY DEF AccountsInv, AccountsTypeOK, OnboardCreates, Working, UserMade, Past
  <1>2. UNCHANGED <<role, children, paidAs, clerk, known>>
        /\ unruly' = (unruly \/ role # "student") /\ unruly \in BOOLEAN
    BY <1>1 DEF OnboardCreates, AccountsTypeOK
  <1>3. OnlyMoves(r) /\ req'[r].pc = "done" /\ AskedOf(req'[r])
    BY <1>1, VisitEnds DEF OnboardCreates
  <1>4. /\ profiles \subseteq profiles' /\ profiles' \subseteq Profiles
        /\ linked' \subseteq profiles'
    BY <1>1 DEF OnboardCreates, NewProfile, Profiles, AccountsTypeOK
  <1>5. unruly' \in BOOLEAN /\ (unruly => unruly') /\ (~ unruly' => role # "parent")
    BY <1>2
  <1> QED
    BY <1>1, <1>2, <1>3, <1>4, <1>5, ProfileStep

LEMMA AccAddsChild ==
  ASSUME AccountsInv, NEW r \in Visits, AddsChild(r)
  PROVE  AccountsInv'
  <1>1. req[r] \in Visit /\ AccountsTypeOK /\ req[r].pc = "child" /\ r \in Working
        /\ role # "none"
    BY DEF AccountsInv, AccountsTypeOK, AddsChild, Working, UserMade, Past
  <1>2. /\ UNCHANGED <<role, profiles, linked, paidAs, clerk, known>>
        /\ children' = TRUE /\ unruly' = (unruly \/ role # "parent") /\ unruly \in BOOLEAN
    BY <1>1 DEF AddsChild, AccountsTypeOK
  <1>3. OnlyMoves(r) /\ req'[r].pc = "done" /\ AskedOf(req'[r])
    BY <1>1, VisitEnds DEF AddsChild
  <1>4. unruly' \in BOOLEAN /\ (unruly => unruly') /\ (~ unruly' => role = "parent")
    BY <1>2
  <1>5. RoleFitsHistory'
    BY <1>2, <1>4 DEF AccountsInv, RoleFitsHistory
  <1>6. Knows(req[r])'
    BY <1>3 DEF Knows
  <1>7. ~ unruly => clerk \in {"none", role}
    BY <1>1, Alone
  <1>8. UserMade' /\ AskedFor' /\ OneAtATime' /\ InKeeping' /\ RoleFitsHistory'
    BY <1>1, <1>2, <1>3, <1>4, <1>5, <1>6, <1>7, VisitStep DEF Past
  <1>9. AccountsTypeOK'
    BY <1>1, <1>2, <1>3, <1>4, TypesAfter DEF AccountsTypeOK, known
  <1> QED
    BY <1>8, <1>9 DEF AccountsInv

\* Steps outside of the requests: what a request at work knows still holds.
LEMMA OutsideStep ==
  ASSUME AccountsInv, UNCHANGED <<req, children, clerk, clerkWas>>,
         profiles \subseteq profiles', profiles' \subseteq Profiles,
         linked' \subseteq profiles', role' \in AnyRole, paidAs' \in AnyRole,
         roleWas' \subseteq AnyRole, unruly' \in BOOLEAN, unruly => unruly',
         \/ role' = role /\ linked' = linked
         \/ role = "none" /\ role' # "none",
         \/ paidAs' = paidAs
         \/ role # "none" /\ (~ unruly' => Working = {}),
         RoleFitsHistory'
  PROVE  AccountsInv'
  <1>1. AccountsTypeOK'
    BY DEF AccountsInv, AccountsTypeOK
  <1>2. UserMade'
    BY DEF AccountsInv, UserMade, Bare
  <1>3. AskedFor' /\ OneAtATime'
    BY DEF AccountsInv, AskedFor, AskedOf, OneAtATime, Working
  <1>4. InKeeping'
    <2> SUFFICES ASSUME ~ unruly' PROVE InKeeping'
      BY DEF InKeeping
    <2>1. CASE role' = role /\ linked' = linked /\ paidAs' = paidAs
      BY <2>1 DEF AccountsInv, InKeeping, Knows, Refuses
    <2>2. CASE role = "none"
      <3>1. \A q \in Visits : req[q].pc \notin Past
        BY <2>2 DEF AccountsInv, UserMade
      <3>2. clerk = "none"
        BY <2>2 DEF AccountsInv, UserMade, Bare
      <3>3. \A q \in Visits : Knows(req[q])'
        BY <3>1 DEF Knows, Past
      <3> QED
        BY <3>2, <3>3 DEF InKeeping
    <2>3. CASE Working = {} /\ role' = role
      <3>1. \A q \in Visits : req[q].pc \in {"new", "done"}
        BY <2>3 DEF Working
      <3>2. \A q \in Visits : Knows(req[q])'
        BY <3>1 DEF Knows
      <3>3. clerk \in {"none", role}
        BY <3>1, ClerkAgrees
      <3> QED
        BY <2>3, <3>2, <3>3 DEF InKeeping
    <2> QED
      BY <2>1, <2>2, <2>3
  <1> QED
    BY <1>1, <1>2, <1>3, <1>4 DEF AccountsInv

LEMMA AccFamilyProfile ==
  ASSUME AccountsInv, FamilyProfile
  PROVE  AccountsInv'
  <1>1. UNCHANGED <<role, linked, children, paidAs, clerk, known, req, unruly>>
        /\ profiles' = profiles \union {"family"}
    BY DEF FamilyProfile
  <1>2. RoleFitsHistory'
    BY <1>1 DEF AccountsInv, RoleFitsHistory
  <1>3. /\ profiles \subseteq profiles' /\ profiles' \subseteq Profiles
        /\ linked' \subseteq profiles' /\ role \in AnyRole /\ paidAs \in AnyRole
        /\ roleWas \subseteq AnyRole /\ unruly \in BOOLEAN
    BY <1>1 DEF AccountsInv, AccountsTypeOK, Profiles
  <1> QED
    BY <1>1, <1>2, <1>3, OutsideStep DEF known

\* A user is made who was none.
LEMMA UserBegins ==
  ASSUME AccountsInv, NEW new \in Roles, new # "parent", role = "none", SetsRole(new),
         UNCHANGED <<children, paidAs, clerk, clerkWas, req, unruly>>,
         profiles \subseteq profiles', profiles' \subseteq Profiles,
         linked' \subseteq profiles'
  PROVE  AccountsInv'
  <1>1. role' = new /\ new # "none" /\ new \in AnyRole /\ roleWas' = roleWas \union {new}
    BY DEF SetsRole, Roles, Chosen, AnyRole
  <1>2. Bare /\ paidAs \in AnyRole /\ roleWas \subseteq AnyRole /\ unruly \in BOOLEAN
    BY DEF AccountsInv, UserMade, AccountsTypeOK
  <1>3. RoleFitsHistory'
    BY <1>1, <1>2 DEF RoleFitsHistory, Bare
  <1> QED
    BY <1>1, <1>2, <1>3, OutsideStep

LEMMA AccParentCreates ==
  ASSUME AccountsInv, ParentCreates
  PROVE  AccountsInv'
  <1>1. "student" \in Roles /\ role = "none" /\ SetsRole("student")
        /\ UNCHANGED <<children, paidAs, clerk, clerkWas, req, unruly>>
    BY DEF ParentCreates, Roles, Chosen
  <1>2. /\ profiles \subseteq profiles' /\ profiles' \subseteq Profiles
        /\ linked' \subseteq profiles'
    BY DEF ParentCreates, NewProfile, AccountsInv, AccountsTypeOK, Profiles
  <1> QED
    BY <1>1, <1>2, UserBegins

LEMMA AccCreateTutor ==
  ASSUME AccountsInv, CreateTutor
  PROVE  AccountsInv'
  <1>1. "tutor" \in Roles /\ role = "none" /\ SetsRole("tutor")
        /\ UNCHANGED <<rows, paidAs, clerk, clerkWas, req, unruly>>
    BY DEF CreateTutor, Roles, Chosen
  <1>2. /\ profiles \subseteq profiles' /\ profiles' \subseteq Profiles
        /\ linked' \subseteq profiles' /\ UNCHANGED children
    BY <1>1 DEF rows, AccountsInv, AccountsTypeOK
  <1> QED
    BY <1>1, <1>2, UserBegins

LEMMA AccPays ==
  ASSUME AccountsInv, Pays
  PROVE  AccountsInv'
  <1>1. /\ role \in Chosen /\ paidAs' = role /\ unruly' = (unruly \/ Working # {})
        /\ UNCHANGED <<role, rows, clerk, known, req>>
    BY DEF Pays
  <1>2. /\ role \in AnyRole /\ roleWas \subseteq AnyRole /\ unruly \in BOOLEAN
        /\ profiles \subseteq Profiles /\ linked \subseteq profiles /\ role # "none"
    BY <1>1 DEF AccountsInv, AccountsTypeOK, Chosen
  <1>3. unruly' \in BOOLEAN /\ (unruly => unruly') /\ (~ unruly' => Working = {})
    BY <1>1, <1>2
  <1>4. UNCHANGED <<profiles, linked, children, clerkWas, roleWas>>
    BY <1>1 DEF rows, known
  <1>5. RoleFitsHistory'
    BY <1>1, <1>3, <1>4 DEF AccountsInv, RoleFitsHistory
  <1> QED
    BY <1>1, <1>2, <1>3, <1>4, <1>5, OutsideStep

LEMMA AccSignupReads ==
  ASSUME AccountsInv, NEW r \in Visits, NEW want \in Chosen, SignupReads(r, want)
  PROVE  AccountsInv'
  <1>1. AccountsTypeOK /\ unruly \in BOOLEAN /\ want \in AnyRole
    BY DEF AccountsInv, AccountsTypeOK, Roles, AnyRole
  <1> DEFINE v == [NewVisit EXCEPT !.pc = "signup", !.want = want]
  <1>2. v \in Visit /\ v.pc = "signup" /\ v.want = want
    BY <1>1 DEF NewVisit, Visit, AnyRole
  <1>3. req' = [req EXCEPT ![r] = v]
    BY DEF SignupReads, ReqBegins
  <1>4. OnlyMoves(r) /\ req'[r] = v
    BY <1>1, <1>2, <1>3 DEF AccountsTypeOK, OnlyMoves
  <1>5. req[r].pc = "new" /\ unruly' = (unruly \/ Working # {})
        /\ UNCHANGED <<role, rows, paidAs, clerk, known>>
    BY DEF SignupReads, ReqBegins
  <1> HIDE DEF v
  <1>6. unruly' \in BOOLEAN /\ (unruly => unruly') /\ (~ unruly' => Working = {})
    BY <1>1, <1>5
  <1>7. AskedOf(req'[r]) /\ Knows(req'[r]) /\ req'[r].pc \notin Past
        /\ req'[r].pc # "linkWrite"
    BY <1>2, <1>4 DEF AskedOf, Knows, Checked, Asking, Past
  <1> QED
    BY <1>4, <1>5, <1>6, <1>7, QuietVisit

LEMMA AccSignupCreates ==
  ASSUME AccountsInv, NEW r \in Visits, SignupCreates(r)
  PROVE  AccountsInv'
  <1>1. req[r] \in Visit /\ AccountsTypeOK /\ req[r].pc = "signup" /\ r \in Working
        /\ AskedOf(req[r])
    BY DEF AccountsInv, AccountsTypeOK, SignupCreates, Working, AskedFor
  <1>2. UNCHANGED <<rows, paidAs, clerk, clerkWas, unruly>>
    BY DEF SignupCreates
  <1>3. CASE role = "none"
    <2>1. PICK w \in Chosen : w = req[r].want
      BY <1>1 DEF AskedOf
    <2>2. /\ role' = w /\ roleWas' = roleWas \union {w} /\ w # "none" /\ w \in AnyRole
      BY <1>3, <2>1 DEF SignupCreates, SetsRole, Chosen, Roles, AnyRole
    <2>3. /\ OnlyMoves(r) /\ AskedOf(req'[r])
          /\ req'[r].pc = "done" \/ (req'[r].pc = "signupProfile" /\ w = "student")
      <3>1. CASE ReqEnds(r)
        BY <1>1, <3>1, VisitEnds
      <3>2. CASE ReqGoesTo(r, "signupProfile") /\ w = "student"
        <4>1. "signupProfile" \in PCs
          BY DEF PCs
        <4>2. OnlyMoves(r) /\ req'[r].pc = "signupProfile"
          BY <1>1, <3>2, <4>1, VisitGoes
        <4> QED
          BY <3>2, <4>2 DEF AskedOf, Checked, Asking
      <3> QED
        BY <1>3, <2>1, <3>1, <3>2 DEF SignupCreates
    <2>4. Bare /\ UNCHANGED <<linked, children, profiles>>
      BY <1>2, <1>3 DEF AccountsInv, UserMade, rows
    <2>5. RoleFitsHistory'
      BY <1>2, <2>4 DEF RoleFitsHistory, Bare
    <2>6. Knows(req[r])'
      BY <2>2, <2>3 DEF Knows
    <2>7. clerk' \in {"none", role'}
      BY <1>2, <2>4 DEF Bare
    <2>8. UserMade' /\ AskedFor' /\ OneAtATime' /\ InKeeping' /\ RoleFitsHistory'
      BY <1>1, <1>2, <1>3, <2>2, <2>3, <2>4, <2>5, <2>6, <2>7, VisitStep
    <2>9. AccountsTypeOK'
      BY <1>1, <1>2, <2>2, <2>3, <2>4, TypesAfter DEF AccountsTypeOK
    <2> QED
      BY <2>8, <2>9 DEF AccountsInv
  <1>4. CASE role # "none"
    <2>1. ReqEnds(r) /\ UNCHANGED <<role, roleWas>>
      BY <1>4 DEF SignupCreates
    <2>2. OnlyMoves(r) /\ req'[r].pc = "done" /\ AskedOf(req'[r]) /\ Knows(req'[r])
      BY <1>1, <2>1, VisitEnds
    <2>3. UNCHANGED <<role, rows, paidAs, clerk, known>> /\ unruly' \in BOOLEAN
      BY <1>1, <1>2, <2>1 DEF known, AccountsTypeOK
    <2> QED
      BY <1>1, <1>2, <1>4, <2>2, <2>3, QuietVisit
  <1> QED
    BY <1>3, <1>4

LEMMA AccSignupProfile ==
  ASSUME AccountsInv, NEW r \in Visits, SignupProfile(r)
  PROVE  AccountsInv'
  <1>1. req[r] \in Visit /\ AccountsTypeOK /\ req[r].pc = "signupProfile"
        /\ r \in Working /\ role # "none"
    BY DEF AccountsInv, AccountsTypeOK, SignupProfile, Working, UserMade, Past
  <1>2. UNCHANGED <<role, children, paidAs, clerk, known, unruly>> /\ unruly' \in BOOLEAN
    BY <1>1 DEF SignupProfile, AccountsTypeOK
  <1>3. ~ unruly => role = "student"
    BY <1>1 DEF AccountsInv, InKeeping, Knows
  <1>4. OnlyMoves(r) /\ req'[r].pc = "done" /\ AskedOf(req'[r])
    BY <1>1, VisitEnds DEF SignupProfile
  <1>5. /\ profiles \subseteq profiles' /\ profiles' \subseteq Profiles
        /\ linked' \subseteq profiles'
    BY <1>1 DEF SignupProfile, NewProfile, Profiles, AccountsTypeOK
  <1> QED
    BY <1>1, <1>2, <1>3, <1>4, <1>5, ProfileStep

LEMMA AccAdminReads ==
  ASSUME AccountsInv, NEW r \in Visits, NEW new \in Roles, AdminReads(r, new)
  PROVE  AccountsInv'
  <1>1. AccountsTypeOK /\ role \in AnyRole /\ new \in AnyRole
    BY DEF AccountsInv, AccountsTypeOK, AnyRole
  <1> DEFINE v == [NewVisit EXCEPT !.pc = "adminClerk", !.saw = role, !.want = new]
  <1>2. v \in Visit /\ v.pc = "adminClerk" /\ v.want = new
    BY <1>1 DEF NewVisit, Visit, AnyRole
  <1>3. req' = [req EXCEPT ![r] = v]
    BY DEF AdminReads, ReqBegins
  <1>4. OnlyMoves(r) /\ req'[r] = v
    BY <1>1, <1>2, <1>3 DEF AccountsTypeOK, OnlyMoves
  <1>5. req[r].pc = "new" /\ unruly' = TRUE /\ role # "none"
        /\ UNCHANGED <<role, rows, paidAs, clerk, known>>
    BY DEF AdminReads, ReqBegins
  <1> HIDE DEF v
  <1>6. AskedOf(req'[r]) /\ req'[r].pc # "linkWrite"
    BY <1>2, <1>4 DEF AskedOf, Checked, Asking
  <1> QED
    BY <1>4, <1>5, <1>6, QuietVisit

\* What an admin does is unruly.
LEMMA AdminIsUnruly ==
  ASSUME AccountsInv, NEW r \in Visits, req[r].pc \in {"adminClerk", "adminWrite"}
  PROVE  unruly /\ req[r].want \in Roles /\ r \in Working /\ role # "none"
  BY DEF AccountsInv, InKeeping, Knows, AskedFor, AskedOf, Working, UserMade, Past

LEMMA AccAdminTellsClerk ==
  ASSUME AccountsInv, NEW r \in Visits, AdminTellsClerk(r)
  PROVE  AccountsInv'
  <1>1. req[r] \in Visit /\ AccountsTypeOK /\ req[r].pc = "adminClerk"
    BY DEF AccountsInv, AccountsTypeOK, AdminTellsClerk
  <1>2. unruly /\ req[r].want \in Roles /\ r \in Working /\ role # "none"
    BY <1>1, AdminIsUnruly
  <1>3. UNCHANGED <<role, rows, paidAs, roleWas, unruly>>
    BY DEF AdminTellsClerk
  <1>4. /\ OnlyMoves(r) /\ AskedOf(req'[r]) /\ req'[r].pc \in {"done", "adminWrite"}
    <2>1. CASE ReqEnds(r)
      BY <1>1, <2>1, VisitEnds
    <2>2. CASE ReqGoesTo(r, "adminWrite")
      <3>1. "adminWrite" \in PCs
        BY DEF PCs
      <3>2. OnlyMoves(r) /\ req'[r].pc = "adminWrite" /\ req'[r].want = req[r].want
        BY <1>1, <2>2, <3>1, VisitGoes
      <3> QED
        BY <1>2, <3>2 DEF AskedOf, Checked, Asking
    <2> QED
      BY <2>1, <2>2 DEF AdminTellsClerk
  <1>5. clerk' \in AnyRole /\ clerkWas' \subseteq AnyRole
    BY <1>1, <1>2 DEF AdminTellsClerk, AccountsTypeOK, AnyRole
  <1>6. UNCHANGED <<linked, children, profiles>>
    BY <1>3 DEF rows
  <1>7. RoleFitsHistory'
    BY <1>2, <1>3 DEF RoleFitsHistory
  <1>8. UserMade' /\ AskedFor' /\ OneAtATime' /\ InKeeping' /\ RoleFitsHistory'
    BY <1>2, <1>3, <1>4, <1>6, <1>7, VisitStep
  <1>9. AccountsTypeOK'
    BY <1>1, <1>2, <1>3, <1>4, <1>5, <1>6, TypesAfter DEF AccountsTypeOK
  <1> QED
    BY <1>8, <1>9 DEF AccountsInv

LEMMA AccAdminWrites ==
  ASSUME AccountsInv, NEW r \in Visits, AdminWrites(r)
  PROVE  AccountsInv'
  <1>1. req[r] \in Visit /\ AccountsTypeOK /\ req[r].pc = "adminWrite"
    BY DEF AccountsInv, AccountsTypeOK, AdminWrites
  <1>2. unruly /\ req[r].want \in Roles /\ r \in Working /\ role # "none"
    BY <1>1, AdminIsUnruly
  <1>3. UNCHANGED <<rows, paidAs, clerk, clerkWas, unruly>>
    BY DEF AdminWrites
  <1>4. OnlyMoves(r) /\ AskedOf(req'[r]) /\ req'[r].pc = "done"
    BY <1>1, VisitEnds DEF AdminWrites
  <1>5. role' = req[r].want /\ role' # "none" /\ role' \in AnyRole
        /\ roleWas' \subseteq AnyRole
    BY <1>1, <1>2 DEF AdminWrites, SetsRole, AccountsTypeOK, AnyRole, Roles, Chosen
  <1>6. UNCHANGED <<linked, children, profiles>>
    BY <1>3 DEF rows
  <1>7. RoleFitsHistory'
    BY <1>2, <1>3 DEF RoleFitsHistory
  <1>8. UserMade' /\ AskedFor' /\ OneAtATime' /\ InKeeping' /\ RoleFitsHistory'
    BY <1>2, <1>3, <1>4, <1>5, <1>6, <1>7, VisitStep
  <1>9. AccountsTypeOK'
    BY <1>1, <1>2, <1>3, <1>4, <1>5, <1>6, TypesAfter DEF AccountsTypeOK
  <1> QED
    BY <1>8, <1>9 DEF AccountsInv

LEMMA AccountsSteps ==
  ASSUME AccountsInv, [AccountsNext]_accountsVars
  PROVE  AccountsInv'
  <1>1. ASSUME NEW r \in Visits, Guarded(r) PROVE AccountsInv'
    BY <1>1, AccGuardReads, AccGuardCreates, AccGuardSyncs, AccGuardFindsProfile,
       AccGuardLinks, AccGuardProvisions DEF Guarded
  <1>2. ASSUME NEW r \in Visits, Picking(r) PROVE AccountsInv'
    BY <1>2, AccPickReads, AccPickChecks, AccPickSyncs, AccPickWrites DEF Picking
  <1>3. ASSUME NEW r \in Visits, Joining(r) PROVE AccountsInv'
    BY <1>3, AccOnboardReads, AccOnboardCreates, AccAddsChild DEF Joining
  <1>4. ASSUME NEW r \in Visits, SigningUp(r) PROVE AccountsInv'
    BY <1>4, AccSignupReads, AccSignupCreates, AccSignupProfile DEF SigningUp
  <1>5. ASSUME NEW r \in Visits, Administrating(r) PROVE AccountsInv'
    BY <1>5, AccAdminReads, AccAdminTellsClerk, AccAdminWrites DEF Administrating
  <1>6. CASE FamilyProfile \/ ParentCreates \/ Pays \/ CreateTutor
    BY <1>6, AccFamilyProfile, AccParentCreates, AccPays, AccCreateTutor
  <1>7. CASE UNCHANGED accountsVars
    BY <1>7 DEF accountsVars, AccountsInv, AccountsTypeOK, UserMade, Bare, AskedFor,
       AskedOf, OneAtATime, Working, InKeeping, Knows, Refuses, RoleFitsHistory
  <1> QED
    BY <1>1, <1>2, <1>3, <1>4, <1>5, <1>6, <1>7 DEF AccountsNext

LEMMA AccountsHold == AccountsSpec => []AccountsInv
  BY AccountsBegin, AccountsSteps, PTL DEF AccountsSpec

\* The account, its profiles and the requests have their types.
THEOREM AccountsTyped == AccountsSpec => []AccountsTypeOK
  <1>1. AccountsInv => AccountsTypeOK
    BY DEF AccountsInv
  <1> QED
    BY <1>1, AccountsHold, PTL

\* No parent has a student's profile, no student a parent's children, and who paid as
\* a student does not become a parent, for any number of requests of the guard, the
\* picker, onboarding and sign-up, unless something unruly has happened.
THEOREM RoleFits == AccountsSpec => []RoleFitsHistory
  <1>1. AccountsInv => RoleFitsHistory
    BY DEF AccountsInv
  <1> QED
    BY <1>1, AccountsHold, PTL

\* Who ceases to be a tutor does so by the request of an admin, or by one that had
\* read another role.
LEMMA PrivilegeLost ==
  ASSUME AccountsInv, AccountsNext, role = "tutor", role' # "tutor"
  PROVE  \E r \in Visits :
            /\ req[r].pc \in {"sync", "write", "adminWrite"} /\ req'[r] # req[r]
            /\ req[r].pc = "adminWrite" \/ req[r].saw # "tutor"
  <1>1. AccountsTypeOK
    BY DEF AccountsInv
  <1>2. ASSUME NEW r \in Visits, Guarded(r) PROVE GuardSyncs(r) /\ req[r].pc = "sync"
    BY <1>2 DEF Guarded, GuardReads, GuardCreates, GuardSyncs, GuardFindsProfile,
       GuardLinks, GuardProvisions
  <1>3. ASSUME NEW r \in Visits, GuardSyncs(r), req[r].pc = "sync"
        PROVE  req[r].saw # "tutor" /\ req'[r] # req[r]
    <2>1. TakesRole(req[r])
      BY <1>3 DEF GuardSyncs
    <2>2. req'[r].pc # "sync"
      <3>1. CASE IsStudent(req[r])
        <4>1. "link" \in PCs
          BY DEF PCs
        <4> QED
          BY <1>1, <1>3, <3>1, <4>1, VisitGoes DEF GuardSyncs
      <3>2. CASE ~ IsStudent(req[r])
        BY <1>3, <3>2, VisitPasses DEF GuardSyncs, Asking
      <3> QED
        BY <3>1, <3>2
    <2> QED
      BY <1>3, <2>1, <2>2 DEF TakesRole
  <1>4. ASSUME NEW r \in Visits, Picking(r) PROVE PickWrites(r) /\ req[r].pc = "write"
    BY <1>4 DEF Picking, PickReads, PickChecks, PickSyncs, PickWrites
  <1>5. ASSUME NEW r \in Visits, PickWrites(r), req[r].pc = "write"
        PROVE  req[r].saw # "tutor" /\ req'[r] # req[r]
    <2>1. req[r].saw # "tutor"
      BY <1>5 DEF AccountsInv, AskedFor, AskedOf, Checked
    <2>2. req'[r].pc = "done"
      BY <1>1, <1>5, VisitEnds DEF PickWrites
    <2> QED
      BY <1>5, <2>1, <2>2
  <1>6. ASSUME NEW r \in Visits, Administrating(r)
        PROVE  AdminWrites(r) /\ req[r].pc = "adminWrite"
    BY <1>6 DEF Administrating, AdminReads, AdminTellsClerk, AdminWrites
  <1>7. ASSUME NEW r \in Visits, AdminWrites(r), req[r].pc = "adminWrite"
        PROVE  req'[r] # req[r]
    <2>1. req'[r].pc = "done"
      BY <1>1, <1>7, VisitEnds DEF AdminWrites
    <2> QED
      BY <1>7, <2>1
  <1>8. ASSUME NEW r \in Visits PROVE ~ Joining(r)
    BY DEF Joining, OnboardReads, OnboardCreates, AddsChild
  <1>9. ASSUME NEW r \in Visits PROVE ~ SigningUp(r)
    BY DEF SigningUp, SignupReads, SignupCreates, SignupProfile
  <1>10. ~ FamilyProfile /\ ~ ParentCreates /\ ~ Pays /\ ~ CreateTutor
    BY DEF FamilyProfile, ParentCreates, Pays, CreateTutor
  <1>11. PICK r \in Visits : Guarded(r) \/ Picking(r) \/ Administrating(r)
    BY <1>8, <1>9, <1>10 DEF AccountsNext
  <1>12. CASE Guarded(r)
    BY <1>2, <1>3, <1>12
  <1>13. CASE Picking(r)
    BY <1>4, <1>5, <1>13
  <1>14. CASE Administrating(r)
    BY <1>6, <1>7, <1>14
  <1> QED
    BY <1>11, <1>12, <1>13, <1>14

\* Nobody ceases to be a tutor or an admin by the role of a token or by the picker,
\* unless the request had read the account before it was one.
THEOREM PrivilegedStay == AccountsSpec => PrivilegedIsKept
  <1>1. AccountsInv /\ [AccountsNext]_accountsVars
        => [role = "tutor" /\ role' # "tutor"
            => \E r \in Visits :
                 /\ req[r].pc \in {"sync", "write", "adminWrite"} /\ req'[r] # req[r]
                 /\ req[r].pc = "adminWrite" \/ req[r].saw # "tutor"]_accountsVars
    BY PrivilegeLost
  <1> QED
    BY <1>1, AccountsHold, PTL DEF AccountsSpec, PrivilegedIsKept

-----------------------------------------------------------------------------
(* Part 2: ratings and submissions.  As long as no two submissions have      *)
(* crossed, whoever is going to submit knows whether there is a submission,  *)
(* and its file is newer; the newest file is submitted or about to be.       *)

Submission == [file: 1..MaxFiles, scored: 0..MaxFiles]
ErrandRow == [pc: {"idle", "rate", "look", "submit", "grade"}, by: Raters,
              young: BOOLEAN, tutor: Mentors \union {NoMentor},
              file: 0..MaxFiles, row: 0..MaxFiles]

Handing == {e \in Errands : errand[e].pc \in {"look", "submit"}}
RoomForFiles == IsFiniteSet(Handing) /\ Len(submitted) + Cardinality(Handing) <= uploads

\* What a request has looked up is there.
ErrandFits(q) ==
    /\ q.pc = "rate" => q.tutor # NoMentor /\ q.by # "other" /\ q.by = Entitled(q.young)
    /\ q.pc \in {"look", "submit"} => q.file \in 1..uploads
    /\ q.pc = "submit" => q.row \in {0} \union DOMAIN submitted
    /\ q.pc = "grade" => q.row \in DOMAIN submitted
ErrandsFit == \A e \in Errands : ErrandFits(errand[e])

ErrandCurrent(q) ==
    /\ q.pc = "submit" => (q.row = 0 <=> submitted = <<>>)
    /\ q.pc \in {"look", "submit"} /\ submitted # <<>> => submitted[1].file < q.file
    /\ q.pc = "grade" => q.file <= submitted[1].file

NewestFile == ~ doubled =>
    /\ submitted # <<>> =>
         /\ Len(submitted) = 1 /\ submitted[1].scored <= submitted[1].file
         /\ submitted[1].file <= uploads
    /\ \A e \in Errands : ErrandCurrent(errand[e])
    /\ uploads > 0 => \/ \E e \in Handing : errand[e].file = uploads
                      \/ submitted # <<>> /\ submitted[1].file = uploads

CourseworkInv ==
    /\ CourseworkTypeOK /\ RoomForFiles /\ ErrandsFit /\ NewestFile
    /\ OfferedIsTaken /\ (rated.given => rated.tutor # NoMentor /\ rated.by # "other")

LEMMA NoErrandTyped == NoErrand \in ErrandRow /\ NoErrand.pc = "idle"
  BY CourseworkAssumption DEF NoErrand, ErrandRow, Raters

LEMMA CourseworkTypes ==
  ASSUME CourseworkTypeOK
  PROVE  /\ submitted \in Seq(Submission) /\ errand \in [Errands -> ErrandRow]
         /\ uploads \in 0..MaxFiles /\ uploads \in Nat /\ MaxFiles \in Nat
         /\ Len(submitted) \in Nat /\ DOMAIN submitted = 1..Len(submitted)
         /\ \A i \in DOMAIN submitted : submitted[i] \in Submission
         /\ (submitted # <<>> <=> Len(submitted) > 0)
  <1>1. submitted \in Seq(Submission) /\ errand \in [Errands -> ErrandRow]
        /\ uploads \in 0..MaxFiles /\ MaxFiles \in Nat
    BY CourseworkAssumption DEF CourseworkTypeOK, Submission, ErrandRow
  <1>2. Len(submitted) \in Nat /\ DOMAIN submitted = 1..Len(submitted)
        /\ \A i \in DOMAIN submitted : submitted[i] \in Submission
    BY <1>1, LenProperties, ElementOfSeq
  <1>3. submitted # <<>> <=> Len(submitted) > 0
    BY <1>1, <1>2, EmptySeq
  <1> QED
    BY <1>1, <1>2, <1>3

LEMMA CourseworkBegins == CourseworkInit => CourseworkInv
  <1> SUFFICES ASSUME CourseworkInit PROVE CourseworkInv
    OBVIOUS
  <1>1. \A e \in Errands : errand[e] = NoErrand
    BY DEF CourseworkInit
  <1>2. submitted = <<>> /\ Len(submitted) = 0 /\ submitted \in Seq(Submission)
        /\ uploads = 0 /\ DOMAIN submitted = {}
    BY EmptySeq DEF CourseworkInit
  <1>3. CourseworkTypeOK
    <2>1. course \in [completed: BOOLEAN, tutor: Mentors \union {NoMentor},
                     present: BOOLEAN, young: BOOLEAN]
      BY DEF CourseworkInit
    <2>2. rated \in [given: BOOLEAN, by: Raters, tutor: Mentors \union {NoMentor}]
      BY DEF CourseworkInit, NoRating, Raters
    <2>3. errand \in [Errands -> ErrandRow]
      BY NoErrandTyped DEF CourseworkInit
    <2>4. offered \subseteq Raters /\ doubled \in BOOLEAN
      BY DEF CourseworkInit
    <2>5. uploads \in 0..MaxFiles /\ errands \in 0..MaxErrands /\ twists \in 0..MaxTwists
      BY CourseworkAssumption DEF CourseworkInit
    <2> QED
      BY <1>2, <2>1, <2>2, <2>3, <2>4, <2>5 DEF CourseworkTypeOK, Submission, ErrandRow
  <1>4. Handing = {}
    BY <1>1, NoErrandTyped DEF Handing
  <1>5. RoomForFiles
    BY <1>2, <1>4, FS_EmptySet DEF RoomForFiles
  <1>6. ErrandsFit /\ NewestFile
    BY <1>1, <1>2, NoErrandTyped DEF ErrandsFit, ErrandFits, NewestFile, ErrandCurrent
  <1>7. OfferedIsTaken /\ ~ rated.given
    BY DEF CourseworkInit, OfferedIsTaken, NoRating
  <1> QED
    BY <1>3, <1>5, <1>6, <1>7 DEF CourseworkInv

\* One request takes a step.
OnlyErrand(e, q) == /\ errand' \in [Errands -> ErrandRow] /\ errand'[e] = q
                    /\ \A f \in Errands : f # e => errand'[f] = errand[f]

LEMMA ErrandMoves ==
  ASSUME CourseworkTypeOK, NEW e \in Errands, NEW q \in ErrandRow, ErrandIs(e, q)
  PROVE  OnlyErrand(e, q)
  BY CourseworkTypes DEF ErrandIs, OnlyErrand

\* A step of a request that hands in nothing, and touches no submission.
LEMMA HandingStays ==
  ASSUME CourseworkInv, NEW e \in Errands, NEW q \in ErrandRow, OnlyErrand(e, q),
         UNCHANGED <<submitted, uploads, doubled>>,
         q.pc \in {"look", "submit"} <=> errand[e].pc \in {"look", "submit"},
         q.pc \in {"look", "submit"} => q.file = errand[e].file,
         ErrandFits(q), ~ doubled => ErrandCurrent(q)
  PROVE  RoomForFiles' /\ ErrandsFit' /\ NewestFile'
  <1>1. Handing' = Handing
    BY DEF Handing, OnlyErrand
  <1>2. RoomForFiles'
    BY <1>1 DEF CourseworkInv, RoomForFiles
  <1>3. ErrandsFit'
    BY DEF CourseworkInv, ErrandsFit, ErrandFits, OnlyErrand
  <1>4. ~ doubled => \A f \in Errands : ErrandCurrent(errand[f])'
    BY DEF CourseworkInv, NewestFile, ErrandCurrent, OnlyErrand
  <1>5. ASSUME ~ doubled, uploads > 0
        PROVE  \/ \E f \in Handing : errand'[f].file = uploads
               \/ submitted # <<>> /\ submitted[1].file = uploads
    BY <1>5 DEF CourseworkInv, NewestFile, OnlyErrand, Handing
  <1>6. NewestFile'
    BY <1>1, <1>4, <1>5 DEF CourseworkInv, NewestFile
  <1> QED
    BY <1>2, <1>3, <1>6

LEMMA CwTwists ==
  ASSUME CourseworkInv, SessionTwists
  PROVE  CourseworkInv'
  <1>1. UNCHANGED <<rated, submitted, errand, uploads, doubled, errands>>
        /\ offered' = {} /\ twists < MaxTwists /\ twists' = twists + 1
    BY DEF SessionTwists, TwistTo
  <1>2. course' \in [completed: BOOLEAN, tutor: Mentors \union {NoMentor},
                     present: BOOLEAN, young: BOOLEAN]
    BY DEF SessionTwists, TwistTo, CourseworkInv, CourseworkTypeOK
  <1>3. CourseworkTypeOK'
    BY <1>1, <1>2, CourseworkAssumption DEF CourseworkInv, CourseworkTypeOK
  <1>4. RoomForFiles' /\ ErrandsFit' /\ NewestFile'
    BY <1>1 DEF CourseworkInv, RoomForFiles, Handing, ErrandsFit, ErrandFits,
       NewestFile, ErrandCurrent
  <1>5. OfferedIsTaken'
    BY <1>1 DEF OfferedIsTaken
  <1> QED
    BY <1>1, <1>3, <1>4, <1>5 DEF CourseworkInv

LEMMA CwOffers ==
  ASSUME CourseworkInv, NEW w \in Raters, Offers(w)
  PROVE  CourseworkInv'
  <1>1. UNCHANGED <<course, rated, submitted, errand, uploads, doubled, twists>>
        /\ errands < MaxErrands /\ errands' = errands + 1
    BY DEF Offers, Errand
  <1>2. offered' \subseteq offered \union {w}
        /\ (w \in offered' => MayRate(w))
    BY DEF Offers, MayRate
  <1>3. CourseworkTypeOK'
    BY <1>1, <1>2, CourseworkAssumption DEF CourseworkInv, CourseworkTypeOK
  <1>4. RoomForFiles' /\ ErrandsFit' /\ NewestFile'
    BY <1>1 DEF CourseworkInv, RoomForFiles, Handing, ErrandsFit, ErrandFits,
       NewestFile, ErrandCurrent
  <1>5. OfferedIsTaken'
    BY <1>1, <1>2 DEF CourseworkInv, OfferedIsTaken, MayRate
  <1> QED
    BY <1>1, <1>3, <1>4, <1>5 DEF CourseworkInv

LEMMA CwLooksToRate ==
  ASSUME CourseworkInv, NEW e \in Errands, NEW w \in Raters, LooksToRate(e, w)
  PROVE  CourseworkInv'
  <1> DEFINE q == [NoErrand EXCEPT !.pc = "rate", !.by = w, !.young = course.young,
                                   !.tutor = course.tutor]
  <1>1. CourseworkTypeOK /\ course.young \in BOOLEAN
        /\ course.tutor \in Mentors \union {NoMentor}
    BY DEF CourseworkInv, CourseworkTypeOK
  <1>2. q \in ErrandRow /\ q.pc = "rate" /\ q.by = w /\ q.young = course.young
        /\ q.tutor = course.tutor
    BY <1>1, NoErrandTyped DEF ErrandRow
  <1>3. ErrandIs(e, q) /\ errand[e].pc = "idle"
    BY DEF LooksToRate, NoErrandYet
  <1> HIDE DEF q
  <1>4. OnlyErrand(e, q)
    BY <1>1, <1>2, <1>3, ErrandMoves
  <1>5. UNCHANGED <<course, rated, offered, submitted, uploads, doubled, twists>>
        /\ errands < MaxErrands /\ errands' = errands + 1
    BY DEF LooksToRate, Errand
  <1>6. ErrandFits(q) /\ ErrandCurrent(q)
    BY <1>2 DEF ErrandFits, ErrandCurrent, LooksToRate, MayRate, Entitled
  <1>7. RoomForFiles' /\ ErrandsFit' /\ NewestFile'
    BY <1>2, <1>3, <1>4, <1>5, <1>6, HandingStays
  <1>8. CourseworkTypeOK'
    BY <1>1, <1>4, <1>5, CourseworkAssumption DEF CourseworkTypeOK, OnlyErrand, ErrandRow
  <1>9. OfferedIsTaken'
    BY <1>5 DEF CourseworkInv, OfferedIsTaken, MayRate
  <1> QED
    BY <1>5, <1>7, <1>8, <1>9 DEF CourseworkInv

LEMMA CwRates ==
  ASSUME CourseworkInv, NEW e \in Errands, Rates(e)
  PROVE  CourseworkInv'
  <1>1. CourseworkTypeOK /\ errand[e] \in ErrandRow /\ errand[e].pc = "rate"
        /\ ErrandFits(errand[e])
    BY CourseworkTypes DEF CourseworkInv, Rates, ErrandsFit
  <1>2. OnlyErrand(e, NoErrand)
    BY <1>1, NoErrandTyped, ErrandMoves DEF Rates
  <1>3. UNCHANGED <<course, submitted, uploads, doubled, errands, twists>>
        /\ offered' = {}
    BY DEF Rates
  <1>4. ErrandFits(NoErrand) /\ ErrandCurrent(NoErrand)
    BY NoErrandTyped DEF ErrandFits, ErrandCurrent
  <1>5. RoomForFiles' /\ ErrandsFit' /\ NewestFile'
    BY <1>1, <1>2, <1>3, <1>4, NoErrandTyped, HandingStays
  <1>6. /\ rated' \in [given: BOOLEAN, by: Raters, tutor: Mentors \union {NoMentor}]
        /\ rated'.given => rated'.tutor # NoMentor /\ rated'.by # "other"
    BY <1>1 DEF Rates, CourseworkInv, CourseworkTypeOK, ErrandFits, ErrandRow
  <1>7. CourseworkTypeOK'
    BY <1>1, <1>2, <1>3, <1>6, CourseworkAssumption
    DEF CourseworkTypeOK, OnlyErrand, ErrandRow
  <1>8. OfferedIsTaken'
    BY <1>3 DEF OfferedIsTaken
  <1> QED
    BY <1>5, <1>6, <1>7, <1>8 DEF CourseworkInv

\* Facts about whoever is at work and about the submissions.
LEMMA HandingCounts ==
  ASSUME CourseworkInv
  PROVE  /\ IsFiniteSet(Handing) /\ Cardinality(Handing) \in Nat
         /\ Len(submitted) + Cardinality(Handing) <= uploads
         /\ Len(submitted) <= uploads /\ uploads <= MaxFiles
  <1>1. IsFiniteSet(Handing) /\ Len(submitted) + Cardinality(Handing) <= uploads
    BY DEF CourseworkInv, RoomForFiles
  <1>2. Cardinality(Handing) \in Nat
    BY <1>1, FS_CardinalityType
  <1>3. uploads \in 0..MaxFiles /\ MaxFiles \in Nat /\ Len(submitted) \in Nat
        /\ uploads \in Nat
    BY CourseworkTypes DEF CourseworkInv
  <1> QED
    BY <1>1, <1>2, <1>3

LEMMA CwUploads ==
  ASSUME CourseworkInv, NEW e \in Errands, Uploads(e)
  PROVE  CourseworkInv'
  <1> DEFINE q == [NoErrand EXCEPT !.pc = "look", !.file = uploads + 1]
  <1>1. CourseworkTypeOK /\ uploads \in Nat /\ MaxFiles \in Nat /\ Len(submitted) \in Nat
        /\ uploads < MaxFiles /\ uploads' = uploads + 1
    BY CourseworkTypes DEF CourseworkInv, Uploads
  <1>2. uploads + 1 \in 0..MaxFiles
    BY <1>1
  <1>3. q \in ErrandRow /\ q.pc = "look" /\ q.file = uploads + 1
    BY <1>2, NoErrandTyped DEF ErrandRow
  <1>4. ErrandIs(e, q) /\ errand[e].pc = "idle"
    BY DEF Uploads, NoErrandYet
  <1> HIDE DEF q
  <1>5. OnlyErrand(e, q)
    BY <1>1, <1>3, <1>4, ErrandMoves
  <1>6. UNCHANGED <<course, rated, offered, submitted, doubled, errands, twists>>
    BY DEF Uploads
  <1>7. Handing' = Handing \union {e} /\ e \notin Handing
    BY <1>3, <1>4, <1>5 DEF Handing, OnlyErrand
  <1>8. RoomForFiles'
    <2>1. IsFiniteSet(Handing') /\ Cardinality(Handing') = Cardinality(Handing) + 1
      BY <1>7, HandingCounts, FS_AddElement
    <2> QED
      BY <1>1, <1>6, <2>1, HandingCounts DEF RoomForFiles
  <1>9. ErrandsFit'
    <2>1. ErrandFits(errand[e])'
      BY <1>1, <1>3, <1>5 DEF ErrandFits, OnlyErrand
    <2>2. \A f \in Errands : f # e => ErrandFits(errand[f])'
      BY <1>1, <1>5, <1>6 DEF CourseworkInv, ErrandsFit, ErrandFits, OnlyErrand
    <2> QED
      BY <2>1, <2>2 DEF ErrandsFit
  <1>10. NewestFile'
    <2> SUFFICES ASSUME ~ doubled' PROVE NewestFile'
      BY DEF NewestFile
    <2>1. ~ doubled
      BY <1>6
    <2>2. submitted # <<>> =>
            /\ Len(submitted) = 1 /\ submitted[1] \in Submission
            /\ submitted[1].scored <= submitted[1].file /\ submitted[1].file <= uploads
      BY <1>1, <2>1, CourseworkTypes DEF CourseworkInv, NewestFile
    <2>3. submitted # <<>> => submitted[1].file \in Nat
      BY <2>2, <1>1 DEF Submission
    <2>4. ErrandCurrent(errand[e])'
      BY <1>1, <1>3, <1>5, <1>6, <2>2, <2>3 DEF ErrandCurrent, OnlyErrand
    <2>5. \A f \in Errands : ErrandCurrent(errand[f])'
      <3>1. \A f \in Errands : f # e => ErrandCurrent(errand[f])'
        BY <1>5, <1>6, <2>1 DEF CourseworkInv, NewestFile, ErrandCurrent, OnlyErrand
      <3> QED
        BY <2>4, <3>1
    <2>6. e \in Handing' /\ errand'[e].file = uploads'
      BY <1>1, <1>3, <1>5, <1>7 DEF OnlyErrand
    <2>7. submitted # <<>> => submitted[1].file <= uploads + 1
      BY <1>1, <2>2, <2>3
    <2> QED
      BY <1>1, <1>6, <2>2, <2>5, <2>6, <2>7 DEF NewestFile
  <1>11. CourseworkTypeOK'
    BY <1>1, <1>2, <1>5, <1>6, CourseworkAssumption
    DEF CourseworkTypeOK, OnlyErrand, ErrandRow
  <1>12. OfferedIsTaken'
    BY <1>6 DEF CourseworkInv, OfferedIsTaken, MayRate
  <1> QED
    BY <1>6, <1>8, <1>9, <1>10, <1>11, <1>12 DEF CourseworkInv

LEMMA CwLooks ==
  ASSUME CourseworkInv, NEW e \in Errands, LooksForSubmission(e)
  PROVE  CourseworkInv'
  <1>1. CourseworkTypeOK /\ errand[e] \in ErrandRow /\ errand[e].pc = "look"
        /\ ErrandFits(errand[e])
        /\ UNCHANGED <<course, rated, offered, submitted, uploads, doubled, errands, twists>>
    BY CourseworkTypes DEF CourseworkInv, LooksForSubmission, ErrandsFit
  <1>2. PICK r \in Earlier : ErrandIs(e, [errand[e] EXCEPT !.pc = "submit", !.row = r])
    BY DEF LooksForSubmission
  <1>3. (r = 0 <=> submitted = <<>>) /\ r \in {0} \union DOMAIN submitted
        /\ r \in 0..MaxFiles
    <2>1. CASE submitted = <<>>
      BY <1>1, <1>2, <2>1, CourseworkTypes DEF Earlier
    <2>2. CASE submitted # <<>>
      <3>1. r \in 1..Len(submitted) /\ r \in DOMAIN submitted
        BY <1>1, <1>2, <2>2, CourseworkTypes DEF Earlier
      <3> QED
        BY <1>1, <2>2, <3>1, CourseworkTypes, HandingCounts
    <2> QED
      BY <2>1, <2>2
  <1> DEFINE q == [errand[e] EXCEPT !.pc = "submit", !.row = r]
  <1>4. q \in ErrandRow /\ q.pc = "submit" /\ q.row = r /\ q.file = errand[e].file
    BY <1>1, <1>3 DEF ErrandRow
  <1>5. ErrandIs(e, q)
    BY <1>2
  <1> HIDE DEF q
  <1>6. OnlyErrand(e, q)
    BY <1>1, <1>4, <1>5, ErrandMoves
  <1>7. ErrandFits(q)
    BY <1>1, <1>3, <1>4 DEF ErrandFits
  <1>8. ~ doubled => ErrandCurrent(q)
    BY <1>1, <1>3, <1>4 DEF CourseworkInv, NewestFile, ErrandCurrent
  <1>9. RoomForFiles' /\ ErrandsFit' /\ NewestFile'
    BY <1>1, <1>4, <1>6, <1>7, <1>8, HandingStays
  <1>10. CourseworkTypeOK'
    BY <1>1, <1>6, CourseworkAssumption DEF CourseworkTypeOK, OnlyErrand, ErrandRow
  <1>11. OfferedIsTaken'
    BY <1>1 DEF CourseworkInv, OfferedIsTaken, MayRate
  <1> QED
    BY <1>1, <1>9, <1>10, <1>11 DEF CourseworkInv

LEMMA CwLooksToGrade ==
  ASSUME CourseworkInv, NEW e \in Errands, NEW r \in DOMAIN submitted, LooksToGrade(e, r)
  PROVE  CourseworkInv'
  <1> DEFINE q == [NoErrand EXCEPT !.pc = "grade", !.row = r, !.file = submitted[r].file]
  <1>1. CourseworkTypeOK /\ errand[e].pc = "idle" /\ ErrandIs(e, q)
        /\ UNCHANGED <<course, rated, offered, submitted, uploads, doubled, twists>>
        /\ errands < MaxErrands /\ errands' = errands + 1
    BY DEF CourseworkInv, LooksToGrade, NoErrandYet, Errand
  <1>2. submitted[r] \in Submission /\ r \in 1..Len(submitted)
    BY <1>1, CourseworkTypes
  <1>3. r \in 0..MaxFiles /\ submitted[r].file \in 0..MaxFiles
    <2>1. submitted[r].file \in 1..MaxFiles
      BY <1>2 DEF Submission
    <2> QED
      BY <1>1, <1>2, <2>1, HandingCounts, CourseworkTypes
  <1>4. q \in ErrandRow /\ q.pc = "grade" /\ q.row = r /\ q.file = submitted[r].file
    BY <1>3, NoErrandTyped DEF ErrandRow
  <1> HIDE DEF q
  <1>5. OnlyErrand(e, q)
    BY <1>1, <1>4, ErrandMoves
  <1>6. ErrandFits(q)
    BY <1>4 DEF ErrandFits
  <1>7. ~ doubled => ErrandCurrent(q)
    <2>1. ASSUME ~ doubled PROVE r = 1
      <3>1. Len(submitted) = 1
        BY <1>1, <1>2, <2>1, CourseworkTypes, EmptySeq DEF CourseworkInv, NewestFile
      <3> QED
        BY <1>2, <3>1
    <2>2. submitted[r].file \in Nat
      BY <1>1, <1>3, CourseworkTypes
    <2> QED
      BY <1>4, <2>1, <2>2 DEF ErrandCurrent
  <1>8. RoomForFiles' /\ ErrandsFit' /\ NewestFile'
    BY <1>1, <1>4, <1>5, <1>6, <1>7, HandingStays
  <1>9. CourseworkTypeOK'
    BY <1>1, <1>5, CourseworkAssumption DEF CourseworkTypeOK, OnlyErrand, ErrandRow
  <1>10. OfferedIsTaken'
    BY <1>1 DEF CourseworkInv, OfferedIsTaken, MayRate
  <1> QED
    BY <1>1, <1>8, <1>9, <1>10 DEF CourseworkInv

LEMMA CwGrades ==
  ASSUME CourseworkInv, NEW e \in Errands, Grades(e)
  PROVE  CourseworkInv'
  <1> DEFINE k == errand[e].row
             g == errand[e].file
             t == [submitted[k] EXCEPT !.scored = g]
  <1>1. CourseworkTypeOK /\ errand[e] \in ErrandRow /\ errand[e].pc = "grade"
        /\ ErrandFits(errand[e])
        /\ UNCHANGED <<course, rated, offered, uploads, doubled, errands, twists>>
        /\ ErrandIs(e, NoErrand)
    BY CourseworkTypes DEF CourseworkInv, Grades, ErrandsFit
  <1>2. k \in DOMAIN submitted /\ submitted[k] \in Submission /\ g \in 0..MaxFiles
        /\ submitted \in Seq(Submission) /\ k \in 1..Len(submitted)
    BY <1>1, CourseworkTypes DEF ErrandFits, ErrandRow
  <1>3. t \in Submission /\ t.file = submitted[k].file /\ t.scored = g
    BY <1>2 DEF Submission
  <1>4. submitted' = [submitted EXCEPT ![k] = t]
    BY DEF Grades
  <1> HIDE DEF k, g, t
  <1>5. /\ submitted' \in Seq(Submission) /\ Len(submitted') = Len(submitted)
        /\ submitted'[k] = t /\ \A i \in DOMAIN submitted : i # k => submitted'[i] = submitted[i]
        /\ DOMAIN submitted' = DOMAIN submitted
    BY <1>2, <1>3, <1>4, ExceptSeq
  <1>6. OnlyErrand(e, NoErrand)
    BY <1>1, NoErrandTyped, ErrandMoves
  <1>7. Handing' = Handing
    BY <1>1, <1>6, NoErrandTyped DEF Handing, OnlyErrand
  <1>8. RoomForFiles'
    BY <1>1, <1>5, <1>7 DEF CourseworkInv, RoomForFiles
  <1>9. ErrandsFit'
    BY <1>1, <1>5, <1>6, NoErrandTyped DEF CourseworkInv, ErrandsFit, ErrandFits, OnlyErrand
  <1>10. submitted # <<>> /\ submitted' # <<>>
    <2>1. Len(submitted) > 0 /\ submitted' \in Seq(Submission)
      BY <1>1, <1>2, <1>5, CourseworkTypes
    <2> QED
      BY <1>2, <1>5, <2>1, EmptySeq
  <1>11. NewestFile'
    <2> SUFFICES ASSUME ~ doubled PROVE NewestFile'
      BY <1>1 DEF NewestFile
    <2>1. Len(submitted) = 1 /\ submitted[1].scored <= submitted[1].file
          /\ submitted[1].file <= uploads
      BY <1>10 DEF CourseworkInv, NewestFile
    <2>2. k = 1 /\ submitted'[1].file = submitted[1].file
      BY <1>2, <1>3, <1>5, <2>1
    <2>3. submitted'[1].scored <= submitted[1].file
      BY <1>1, <1>3, <1>5, <2>2 DEF CourseworkInv, NewestFile, ErrandCurrent, g
    <2>4. \A f \in Errands : ErrandCurrent(errand[f])'
      BY <1>6, <1>10, <2>2, NoErrandTyped
      DEF CourseworkInv, NewestFile, ErrandCurrent, OnlyErrand
    <2>5. ASSUME uploads > 0
          PROVE  \/ \E f \in Handing : errand'[f].file = uploads
                 \/ submitted'[1].file = uploads
      BY <1>1, <1>6, <2>2, <2>5 DEF CourseworkInv, NewestFile, OnlyErrand, Handing
    <2> QED
      BY <1>1, <1>5, <1>7, <1>10, <2>1, <2>2, <2>3, <2>4, <2>5 DEF NewestFile
  <1>12. CourseworkTypeOK'
    BY <1>1, <1>5, <1>6, CourseworkAssumption
    DEF CourseworkTypeOK, OnlyErrand, ErrandRow, Submission
  <1>13. OfferedIsTaken'
    BY <1>1 DEF CourseworkInv, OfferedIsTaken, MayRate
  <1> QED
    BY <1>1, <1>8, <1>9, <1>11, <1>12, <1>13 DEF CourseworkInv

\* The file becomes the first submission or replaces that of an earlier one.
LEMMA FileHandedIn ==
  ASSUME CourseworkInv, NEW e \in Errands, Submits(e)
  PROVE  /\ submitted' \in Seq(Submission)
         /\ DOMAIN submitted \subseteq DOMAIN submitted'
         /\ errand[e].row = 0 => Len(submitted') = Len(submitted) + 1
         /\ errand[e].row # 0 => Len(submitted') = Len(submitted)
         /\ submitted = <<>> /\ errand[e].row = 0 =>
              Len(submitted') = 1 /\ submitted'[1] = [file |-> errand[e].file, scored |-> 0]
         /\ Len(submitted) = 1 /\ errand[e].row # 0 =>
              submitted'[1].file = errand[e].file
              /\ submitted'[1].scored = submitted[1].scored
  <1> DEFINE k == errand[e].row
             g == errand[e].file
             t == [submitted[k] EXCEPT !.file = g]
             n == [file |-> g, scored |-> 0]
  <1>1. CourseworkTypeOK /\ errand[e] \in ErrandRow /\ errand[e].pc = "submit"
        /\ ErrandFits(errand[e])
    BY CourseworkTypes DEF CourseworkInv, Submits, ErrandsFit
  <1>2. k \in {0} \union DOMAIN submitted /\ g \in 1..uploads
    BY <1>1 DEF ErrandFits
  <1>3. g \in 1..MaxFiles /\ submitted \in Seq(Submission) /\ Len(submitted) \in Nat
        /\ DOMAIN submitted = 1..Len(submitted) /\ 0 \in 0..MaxFiles
    BY <1>1, <1>2, CourseworkTypes, HandingCounts
  <1>4. submitted' = IF k = 0 THEN Append(submitted, n) ELSE [submitted EXCEPT ![k] = t]
    BY DEF Submits
  <1>5. n \in Submission
    BY <1>3 DEF Submission
  <1>6. ASSUME k # 0
        PROVE  t \in Submission /\ t.file = g /\ t.scored = submitted[k].scored
    <2>1. submitted[k] \in Submission
      BY <1>1, <1>2, <1>6, CourseworkTypes
    <2> QED
      BY <1>3, <2>1 DEF Submission
  <1> HIDE DEF k, g, t, n
  <1>7. CASE k = 0
    <2>1. /\ submitted' \in Seq(Submission) /\ Len(submitted') = Len(submitted) + 1
          /\ submitted'[Len(submitted) + 1] = n
      BY <1>3, <1>4, <1>5, <1>7, AppendProperties
    <2>2. DOMAIN submitted' = 1..(Len(submitted) + 1)
      BY <2>1, LenProperties
    <2>3. submitted = <<>> => Len(submitted) = 0
      BY <1>1, CourseworkTypes
    <2> QED
      BY <1>3, <1>7, <2>1, <2>2, <2>3 DEF k, g, n
  <1>8. CASE k # 0
    <2>1. k \in DOMAIN submitted /\ k \in 1..Len(submitted)
      BY <1>2, <1>3, <1>8
    <2>2. /\ submitted' \in Seq(Submission) /\ Len(submitted') = Len(submitted)
          /\ submitted'[k] = t /\ DOMAIN submitted' = DOMAIN submitted
      BY <1>3, <1>4, <1>6, <1>8, <2>1, ExceptSeq
    <2>3. Len(submitted) = 1 => k = 1
      BY <2>1
    <2> QED
      BY <1>6, <1>8, <2>2, <2>3 DEF k, g
  <1> QED
    BY <1>7, <1>8

LEMMA CwSubmits ==
  ASSUME CourseworkInv, NEW e \in Errands, Submits(e)
  PROVE  CourseworkInv'
  <1>1. CourseworkTypeOK /\ errand[e] \in ErrandRow /\ errand[e].pc = "submit"
        /\ ErrandFits(errand[e])
        /\ UNCHANGED <<course, rated, offered, uploads, errands, twists>>
        /\ ErrandIs(e, NoErrand)
    BY CourseworkTypes DEF CourseworkInv, Submits, ErrandsFit
  <1>2. OnlyErrand(e, NoErrand)
    BY <1>1, NoErrandTyped, ErrandMoves
  <1>3. doubled' \in BOOLEAN /\ (~ doubled' => ~ doubled /\ Handing = {e})
    <2>1. doubled \in BOOLEAN
      BY <1>1 DEF CourseworkTypeOK
    <2>2. doubled' = (doubled \/ \E f \in Errands \ {e} : errand[f].pc \in {"look", "submit"})
      BY DEF Submits
    <2> QED
      BY <1>1, <2>1, <2>2 DEF Handing
  <1>4. Handing' = Handing \ {e} /\ e \in Handing
    BY <1>1, <1>2, NoErrandTyped DEF Handing, OnlyErrand
  <1>5. RoomForFiles'
    <2>1. IsFiniteSet(Handing') /\ Cardinality(Handing') = Cardinality(Handing) - 1
      BY <1>4, HandingCounts, FS_RemoveElement
    <2>2. Len(submitted') \in {Len(submitted), Len(submitted) + 1}
      BY FileHandedIn
    <2>3. Len(submitted) \in Nat /\ uploads \in Nat
      BY <1>1, CourseworkTypes
    <2> QED
      BY <1>1, <2>1, <2>2, <2>3, HandingCounts DEF RoomForFiles
  <1>6. ErrandsFit'
    <2>1. DOMAIN submitted \subseteq DOMAIN submitted'
      BY FileHandedIn
    <2> QED
      BY <1>1, <1>2, <2>1, NoErrandTyped DEF CourseworkInv, ErrandsFit, ErrandFits, OnlyErrand
  <1>7. NewestFile'
    <2> SUFFICES ASSUME ~ doubled' PROVE NewestFile'
      BY DEF NewestFile
    <2> DEFINE g == errand[e].file
               k == errand[e].row
    <2>1. ~ doubled /\ Handing = {e}
      BY <1>3
    <2>2. g \in 1..uploads /\ uploads \in Nat /\ (k = 0 <=> submitted = <<>>)
          /\ (submitted # <<>> => submitted[1].file < g)
      BY <1>1, <2>1, CourseworkTypes DEF CourseworkInv, NewestFile, ErrandCurrent, ErrandFits
    <2>3. submitted # <<>> =>
            /\ Len(submitted) = 1 /\ submitted[1] \in Submission
            /\ submitted[1].scored <= submitted[1].file /\ submitted[1].file <= uploads
      BY <1>1, <2>1, CourseworkTypes DEF CourseworkInv, NewestFile
    <2>4. submitted # <<>> => submitted[1].scored \in Nat /\ submitted[1].file \in Nat
      BY <1>1, <2>3, CourseworkTypes DEF Submission
    <2>5. Len(submitted') = 1 /\ submitted'[1].file = g
          /\ submitted'[1].scored \in {0, submitted[1].scored}
          /\ (submitted'[1].scored # 0 => submitted # <<>>)
      <3>1. CASE submitted = <<>>
        <4>1. Len(submitted') = 1 /\ submitted'[1] = [file |-> errand[e].file, scored |-> 0]
          BY <2>2, <3>1, FileHandedIn
        <4> QED
          BY <4>1
      <3>2. CASE submitted # <<>>
        <4>1. /\ Len(submitted') = Len(submitted) /\ submitted'[1].file = errand[e].file
              /\ submitted'[1].scored = submitted[1].scored
          BY <2>2, <2>3, <3>2, FileHandedIn
        <4> QED
          BY <2>3, <3>2, <4>1
      <3> QED
        BY <3>1, <3>2
    <2> HIDE DEF g, k
    <2>6. submitted'[1].scored <= g /\ g <= uploads
      BY <2>2, <2>3, <2>4, <2>5
    <2>7. g = uploads
      <3>1. uploads > 0
        BY <2>2
      <3>2. \/ \E f \in Handing : errand[f].file = uploads
            \/ submitted # <<>> /\ submitted[1].file = uploads
        BY <2>1, <3>1 DEF CourseworkInv, NewestFile
      <3>3. ~ (submitted # <<>> /\ submitted[1].file = uploads)
        BY <2>2, <2>4
      <3> QED
        BY <2>1, <3>2, <3>3 DEF g
    <2>8. submitted' # <<>>
      BY <2>5, FileHandedIn, EmptySeq
    <2>9. \A f \in Errands : ErrandCurrent(errand[f])'
      <3> SUFFICES ASSUME NEW f \in Errands PROVE ErrandCurrent(errand[f])'
        OBVIOUS
      <3>1. CASE f = e
        BY <1>2, <3>1, NoErrandTyped DEF ErrandCurrent, OnlyErrand
      <3>2. CASE f # e
        <4>1. errand'[f] = errand[f] /\ errand[f].pc \notin {"look", "submit"}
          BY <1>2, <2>1, <3>2 DEF OnlyErrand, Handing
        <4>2. ASSUME errand[f].pc = "grade" PROVE errand[f].file <= g
          <5>1. submitted # <<>> /\ errand[f].file <= submitted[1].file
            <6>1. errand[f].row \in DOMAIN submitted
              BY <4>2 DEF CourseworkInv, ErrandsFit, ErrandFits
            <6>2. submitted # <<>>
              BY <6>1, EmptySeq
            <6> QED
              BY <2>1, <4>2, <6>2 DEF CourseworkInv, NewestFile, ErrandCurrent
          <5>2. errand[f].file \in Nat
            BY <1>1, CourseworkTypes DEF ErrandRow
          <5> QED
            BY <2>2, <2>4, <5>1, <5>2
        <4> QED
          BY <2>5, <4>1, <4>2 DEF ErrandCurrent
      <3> QED
        BY <3>1, <3>2
    <2> QED
      BY <1>1, <2>5, <2>6, <2>7, <2>8, <2>9 DEF NewestFile
  <1>8. CourseworkTypeOK'
    BY <1>1, <1>2, <1>3, FileHandedIn, CourseworkAssumption
    DEF CourseworkTypeOK, OnlyErrand, ErrandRow, Submission
  <1>9. OfferedIsTaken'
    BY <1>1 DEF CourseworkInv, OfferedIsTaken, MayRate
  <1> QED
    BY <1>1, <1>5, <1>6, <1>7, <1>8, <1>9 DEF CourseworkInv

LEMMA CourseworkContinues ==
  ASSUME CourseworkInv, [CourseworkNext]_courseworkVars
  PROVE  CourseworkInv'
  <1>1. CASE UNCHANGED courseworkVars
    BY <1>1 DEF courseworkVars, CourseworkInv, CourseworkTypeOK, RoomForFiles, Handing,
       ErrandsFit, ErrandFits, NewestFile, ErrandCurrent, OfferedIsTaken, MayRate
  <1>2. CASE SessionTwists
    BY <1>2, CwTwists
  <1>3. ASSUME NEW w \in Raters, Offers(w) PROVE CourseworkInv'
    BY <1>3, CwOffers
  <1>4. ASSUME NEW e \in Errands, NEW w \in Raters, LooksToRate(e, w) PROVE CourseworkInv'
    BY <1>4, CwLooksToRate
  <1>5. ASSUME NEW e \in Errands,
               Rates(e) \/ Uploads(e) \/ LooksForSubmission(e) \/ Submits(e) \/ Grades(e)
        PROVE  CourseworkInv'
    BY <1>5, CwRates, CwUploads, CwLooks, CwSubmits, CwGrades
  <1>6. ASSUME NEW e \in Errands, NEW r \in DOMAIN submitted, LooksToGrade(e, r)
        PROVE  CourseworkInv'
    BY <1>6, CwLooksToGrade
  <1> QED
    BY <1>1, <1>2, <1>3, <1>4, <1>5, <1>6 DEF CourseworkNext

LEMMA CourseworkHolds == CourseworkSpec => []CourseworkInv
  BY CourseworkBegins, CourseworkContinues, PTL DEF CourseworkSpec

\* The ratings, the submissions and the requests keep their types.
THEOREM CourseworkTyped == CourseworkSpec => []CourseworkTypeOK
  <1>1. CourseworkInv => CourseworkTypeOK
    BY DEF CourseworkInv
  <1> QED
    BY <1>1, CourseworkHolds, PTL

LEMMA CourseworkIsOrdered ==
  ASSUME CourseworkInv
  PROVE  CourseworkInOrder
  <1>1. OfferedIsTaken
    BY DEF CourseworkInv
  <1>2. RatingIsFair
    BY DEF CourseworkInv, RatingIsFair, ErrandsFit, ErrandFits
  <1>3. OneSubmission
    <2> SUFFICES ASSUME ~ doubled PROVE OneSubmission
      BY DEF OneSubmission
    <2>1. CourseworkTypeOK
      BY DEF CourseworkInv
    <2>2. CASE submitted = <<>>
      <3>1. Len(submitted) = 0 /\ DOMAIN submitted = {}
        BY <2>2, EmptySeq
      <3> QED
        BY <2>2, <3>1 DEF OneSubmission
    <2>3. CASE submitted # <<>>
      <3>1. Len(submitted) = 1 /\ submitted[1].scored <= submitted[1].file
            /\ DOMAIN submitted = {1}
        BY <2>1, <2>3, CourseworkTypes DEF CourseworkInv, NewestFile
      <3>2. uploads > 0
        BY <2>1, <3>1, CourseworkTypes, HandingCounts
      <3>3. (\A e \in Errands : errand[e].pc \notin {"look", "submit"})
              => submitted[1].file = uploads
        BY <3>2 DEF CourseworkInv, NewestFile, Handing
      <3> QED
        BY <3>1, <3>3 DEF OneSubmission
    <2> QED
      BY <2>2, <2>3
  <1> QED
    BY <1>1, <1>2, <1>3 DEF CourseworkInOrder

\* A rating that is offered is taken, only the entitled rate, about a tutor of the
\* session, and without crossed submissions a student has one submission: it holds
\* the newest file, scored as that file or an earlier one.
THEOREM CourseworkOrdered == CourseworkSpec => []CourseworkInOrder
  BY CourseworkIsOrdered, CourseworkHolds, PTL

-----------------------------------------------------------------------------
(* Part 3: the student's record.  What is to be written counts every result  *)
(* and every day of practice; a page that is kept shows the row, unless      *)
(* somebody who has written is about to drop it.                             *)

Fits(r) == r.xp <= results /\ r.streak <= r.last + 1 /\ r.last <= today
RowFits ==
    /\ Fits(record)
    /\ \A c \in Callers : Writing(c) =>
         Fits(call[c].record) /\ call[c].record.last = today

Editing == {c \in Callers : call[c].pc = "edit"}
RoomForEdits == IsFiniteSet(Editing) /\ record.edit + Cardinality(Editing) <= edits

\* The days in a row up to day n.
RunOf(S, n) == {d \in S : d <= n /\ d..n \subseteq S}
Tells(r) ==
    /\ r.xp = results
    /\ r.last = NoDay <=> practised = {}
    /\ practised # {} => /\ r.last \in practised /\ r.streak = Run(r.last)
                         /\ \A d \in practised : d <= r.last
NothingLost == ~ met /\ ~ removed =>
    /\ \A c \in Callers : Writing(c) =>
         Tells(call[c].record) /\ \A d \in Callers : Writing(d) => d = c
    /\ (\A c \in Callers : ~ Writing(c)) => Tells(record)

PageCurrent == ~ stale =>
    /\ cache.kept /\ (\A c \in Callers : call[c].pc # "bust") => cache.record = record
    /\ \A c \in Callers : call[c].pc = "keep" => call[c].record = record

ConsentFits ==
    /\ consent.by = "self" => consent.granted
    /\ ~ redated =>
         /\ consent.by = "self" => consent.birth = "adult"
         /\ \A c \in Callers : call[c].pc = "consent" /\ call[c].granted =>
              \/ call[c].birth = "adult"
              \/ call[c].birth = "unknown" /\ consent.birth = "adult"

RecordInv == /\ StudentsTypeOK /\ RowFits /\ RoomForEdits /\ NothingLost
             /\ PageCurrent /\ ConsentFits

LEMMA StudentsBounds ==
  /\ LastDay \in Nat /\ MaxResults \in Nat /\ MaxConsents \in Nat /\ MaxMisses \in Nat
  /\ Days = 0..LastDay /\ NoDay = -1 /\ NoDay \notin Days
  BY StudentsAssumption DEF Days, NoDay

LEMMA NoCallTyped ==
  NewRecord \in Record /\ NoCall \in Call /\ NoCall.pc = "idle" /\ NoCall.record = NewRecord
  BY StudentsBounds DEF NewRecord, Record, NoCall, Call, Births

\* The numbers of a record.
LEMMA RecordNumbers ==
  ASSUME NEW r \in Record
  PROVE  r.xp \in Nat /\ r.streak \in Nat /\ r.edit \in Nat /\ r.last \in Int
         /\ r.last \in Days \union {NoDay}
  <1>1. r.xp \in 0..MaxResults /\ r.streak \in 0..(LastDay + 1) /\ r.edit \in 0..MaxResults
        /\ r.last \in Days \union {NoDay}
    BY DEF Record
  <1> QED
    BY <1>1, StudentsBounds

LEMMA RecordTyped ==
  ASSUME RecordInv
  PROVE  /\ record \in Record /\ call \in [Callers -> Call] /\ today \in Days /\ today \in Nat
         /\ practised \subseteq Days /\ results \in 0..MaxResults /\ edits \in 0..MaxResults
         /\ met \in BOOLEAN /\ stale \in BOOLEAN /\ removed \in BOOLEAN
         /\ \A c \in Callers : call[c] \in Call /\ call[c].record \in Record
  <1>1. /\ record \in Record /\ call \in [Callers -> Call] /\ today \in Days
        /\ practised \subseteq Days /\ results \in 0..MaxResults /\ edits \in 0..MaxResults
        /\ met \in BOOLEAN /\ stale \in BOOLEAN /\ removed \in BOOLEAN
    BY DEF RecordInv, StudentsTypeOK
  <1>2. \A c \in Callers : call[c] \in Call /\ call[c].record \in Record
    BY <1>1 DEF Call
  <1> QED
    BY <1>1, <1>2, StudentsBounds

LEMMA RecordBegins == StudentsInit => RecordInv
  <1> SUFFICES ASSUME StudentsInit PROVE RecordInv
    OBVIOUS
  <1>1. \A c \in Callers : call[c] = NoCall
    BY DEF StudentsInit
  <1>2. StudentsTypeOK
    <2>1. call \in [Callers -> Call] /\ record \in Record /\ cache \in [kept: BOOLEAN, record: Record]
      BY NoCallTyped DEF StudentsInit, EmptyCache
    <2>2. consent \in [granted: BOOLEAN, by: {"nobody", "self", "parent"}, birth: Births]
      BY DEF StudentsInit, Births
    <2>3. today \in Days /\ results \in 0..MaxResults /\ edits \in 0..MaxResults
          /\ consents \in 0..MaxConsents /\ misses \in 0..MaxMisses
      BY StudentsBounds DEF StudentsInit
    <2>4. practised \subseteq Days /\ met \in BOOLEAN /\ stale \in BOOLEAN
          /\ removed \in BOOLEAN /\ redated \in BOOLEAN
      BY DEF StudentsInit
    <2> QED
      BY <2>1, <2>2, <2>3, <2>4 DEF StudentsTypeOK
  <1>3. RowFits
    BY <1>1, NoCallTyped, StudentsBounds DEF RowFits, Fits, Writing, StudentsInit, NewRecord
  <1>4. Editing = {}
    BY <1>1, NoCallTyped DEF Editing
  <1>5. RoomForEdits
    BY <1>4, FS_EmptySet DEF RoomForEdits, StudentsInit, NewRecord
  <1>6. NothingLost
    BY <1>1, NoCallTyped DEF NothingLost, Writing, Tells, StudentsInit, NewRecord
  <1>7. PageCurrent /\ ConsentFits
    BY <1>1, NoCallTyped DEF PageCurrent, ConsentFits, StudentsInit, EmptyCache
  <1> QED
    BY <1>2, <1>3, <1>5, <1>6, <1>7 DEF RecordInv

\* One request takes a step.
OneCall(c, q) == /\ call' \in [Callers -> Call] /\ call'[c] = q
                 /\ \A d \in Callers : d # c => call'[d] = call[d]

LEMMA CallMoves ==
  ASSUME RecordInv, NEW c \in Callers, NEW q \in Call, Calls(c, q)
  PROVE  OneCall(c, q)
  BY RecordTyped DEF Calls, OneCall

\* A step of a request that neither practises nor edits.
LEMMA PracticeStays ==
  ASSUME RecordInv, NEW c \in Callers, NEW q \in Call, OneCall(c, q),
         UNCHANGED <<today, record, removed, practised, results, edits, met>>,
         call[c].pc \notin {"practice", "edit"}, q.pc \notin {"practice", "edit"}
  PROVE  RowFits' /\ RoomForEdits' /\ NothingLost'
  <1>1. Editing' = Editing
    BY DEF Editing, OneCall
  <1>2. \A d \in Callers : Writing(d)' <=> Writing(d)
    BY DEF Writing, OneCall
  <1>3. \A d \in Callers : Writing(d) => call'[d] = call[d]
    BY DEF Writing, OneCall
  <1>4. RoomForEdits'
    BY <1>1 DEF RecordInv, RoomForEdits
  <1>5. RowFits'
    BY <1>2, <1>3 DEF RecordInv, RowFits, Fits
  <1>6. NothingLost'
    BY <1>2, <1>3 DEF RecordInv, NothingLost, Tells, Run
  <1> QED
    BY <1>4, <1>5, <1>6

\* A step that leaves row and cache alone.
LEMMA PageStays ==
  ASSUME RecordInv, NEW c \in Callers, NEW q \in Call, OneCall(c, q),
         UNCHANGED <<record, cache, stale>>, call[c].pc # "bust",
         q.pc = "keep" => q.record = record
  PROVE  PageCurrent'
  BY DEF RecordInv, PageCurrent, OneCall

LEMMA ConsentStays ==
  ASSUME RecordInv, NEW c \in Callers, NEW q \in Call, OneCall(c, q),
         UNCHANGED filed, q.pc # "consent"
  PROVE  ConsentFits'
  BY DEF RecordInv, ConsentFits, OneCall, filed

\* The days in a row, with today.
LEMMA RunsOn ==
  ASSUME RecordInv, NEW r \in Record, Tells(r), r.last <= today
  PROVE  Streak(r) = Cardinality(RunOf(practised \union {today}, today))
  <1> DEFINE S == practised
             T == practised \union {today}
  <1>1. /\ S \subseteq Days /\ today \in Days /\ today \in Nat /\ r.last \in Int
        /\ Days = 0..LastDay /\ LastDay \in Nat /\ NoDay = -1
    BY RecordTyped, RecordNumbers, StudentsBounds
  <1>2. IsFiniteSet(RunOf(S, r.last))
    <2>1. IsFiniteSet(Days)
      BY <1>1, FS_Interval
    <2> QED
      BY <1>1, <2>1, FS_Subset DEF RunOf
  <1>3. S # {} => r.last \in S /\ r.streak = Cardinality(RunOf(S, r.last))
                  /\ \A d \in S : d <= r.last
    BY DEF Tells, Run, RunOf
  <1>4. r.last = NoDay <=> S = {}
    BY DEF Tells
  <1>5. Cardinality({today}) = 1
    BY FS_Singleton
  <1>6. CASE r.last = NoDay
    <2>1. T = {today}
      BY <1>4, <1>6
    <2>2. RunOf({today}, today) = {today}
      BY <1>1, <2>1 DEF RunOf
    <2> QED
      BY <1>5, <1>6, <2>1, <2>2 DEF Streak
  <1>7. CASE r.last = today
    <2>1. S # {} /\ T = S
      BY <1>1, <1>3, <1>4, <1>7
    <2> QED
      <3>1. Streak(r) = r.streak
        BY <1>1, <1>7 DEF Streak
      <3> QED
        BY <1>3, <1>7, <2>1, <3>1
  <1>8. CASE r.last # NoDay /\ r.last = today - 1
    <2>1. RunOf(T, today) = RunOf(S, r.last) \union {today}
      <3>1. today \in RunOf(T, today)
        BY <1>1 DEF RunOf
      <3>2. ASSUME NEW d \in RunOf(S, r.last) PROVE d \in RunOf(T, today)
        <4>1. d \in Int /\ d \in S /\ d <= today - 1 /\ d..(today - 1) \subseteq S
          BY <1>1, <1>8, <3>2 DEF RunOf
        <4>2. d..today \subseteq T
          BY <1>1, <4>1
        <4> QED
          BY <1>1, <4>1, <4>2 DEF RunOf
      <3>3. ASSUME NEW d \in RunOf(T, today), d # today PROVE d \in RunOf(S, r.last)
        <4>1. d \in S /\ d \in Int /\ d <= today /\ d..today \subseteq T
          BY <1>1, <3>3 DEF RunOf
        <4>2. d <= today - 1 /\ d..(today - 1) \subseteq S
          BY <1>1, <3>3, <4>1
        <4> QED
          BY <1>1, <1>8, <4>1, <4>2 DEF RunOf
      <3> QED
        BY <3>1, <3>2, <3>3
    <2>2. today \notin RunOf(S, r.last)
      BY <1>1, <1>8 DEF RunOf
    <2>3. Cardinality(RunOf(T, today)) = Cardinality(RunOf(S, r.last)) + 1
      BY <1>2, <2>1, <2>2, FS_AddElement
    <2>4. Streak(r) = r.streak + 1
      BY <1>1, <1>8 DEF Streak
    <2> QED
      BY <1>3, <1>4, <1>8, <2>3, <2>4
  <1>9. CASE r.last # NoDay /\ r.last < today - 1
    <2>1. today - 1 \notin T
      BY <1>1, <1>3, <1>4, <1>9
    <2>2. RunOf(T, today) = {today}
      <3>1. today \in RunOf(T, today)
        BY <1>1 DEF RunOf
      <3>2. ASSUME NEW d \in RunOf(T, today), d # today PROVE FALSE
        <4>1. d \in Int /\ d <= today /\ d..today \subseteq T
          BY <1>1, <3>2 DEF RunOf
        <4>2. today - 1 \in d..today
          BY <1>1, <3>2, <4>1
        <4> QED
          BY <2>1, <4>1, <4>2
      <3> QED
        BY <3>1, <3>2
    <2>3. Streak(r) = 1
      BY <1>1, <1>9 DEF Streak
    <2> QED
      BY <1>5, <2>2, <2>3
  <1> QED
    BY <1>1, <1>6, <1>7, <1>8, <1>9

\* What a practice result will write.
LEMMA StreakTyped ==
  ASSUME RecordInv, NEW r \in Record, r.last <= today, r.streak <= r.last + 1
  PROVE  Streak(r) \in 0..(LastDay + 1) /\ Streak(r) <= today + 1
  <1>1. r.streak \in Nat /\ r.last \in Int /\ today \in Nat /\ today \in Days
    BY RecordTyped, RecordNumbers
  <1>2. Days = 0..LastDay /\ LastDay \in Nat
    BY StudentsBounds
  <1>3. Streak(r) \in {1, r.streak, r.streak + 1} /\ (r.last = today => Streak(r) \in {1, r.streak})
        /\ (Streak(r) = r.streak + 1 => r.last = today - 1 \/ Streak(r) = 1 )
    BY <1>1 DEF Streak
  <1>4. Streak(r) <= today + 1 /\ Streak(r) \in Nat
    BY <1>1, <1>2, <1>3
  <1> QED
    BY <1>1, <1>2, <1>4

LEMMA StPracticeReads ==
  ASSUME RecordInv, NEW c \in Callers, PracticeReads(c)
  PROVE  RecordInv'
  <1> DEFINE r == [record EXCEPT !.xp = @ + 1, !.last = today, !.streak = Streak(record)]
             q == [NoCall EXCEPT !.pc = "practice", !.record = r]
  <1>1. /\ call[c].pc = "idle" /\ ~ removed /\ results < MaxResults /\ results' = results + 1
        /\ practised' = practised \union {today}
        /\ Calls(c, q)
        /\ UNCHANGED <<today, record, filed, removed, cache, edits, consents, misses, stale>>
    BY DEF PracticeReads, Free
  <1>2. /\ record \in Record /\ Fits(record) /\ today \in Nat /\ today \in Days
        /\ results \in 0..MaxResults /\ MaxResults \in Nat /\ record.xp \in Nat
        /\ record.last \in Int
    BY RecordTyped, RecordNumbers, StudentsBounds DEF RecordInv, RowFits
  <1>3. Streak(record) \in 0..(LastDay + 1) /\ Streak(record) <= today + 1
    BY <1>2, StreakTyped DEF Fits
  <1>4. record.xp + 1 \in 0..MaxResults /\ record.xp + 1 <= results'
    BY <1>1, <1>2 DEF Fits
  <1>5. r \in Record /\ r.xp = record.xp + 1 /\ r.last = today /\ r.streak = Streak(record)
        /\ r.edit = record.edit
    BY <1>2, <1>3, <1>4 DEF Record
  <1> HIDE DEF r
  <1>6. q \in Call /\ q.pc = "practice" /\ q.record = r
    BY <1>5, NoCallTyped DEF Call
  <1> HIDE DEF q
  <1>7. OneCall(c, q)
    BY <1>1, <1>6, CallMoves
  <1>8. \A d \in Callers : Writing(d)' <=> (Writing(d) \/ d = c)
    BY <1>6, <1>7 DEF Writing, OneCall
  <1>9. met' \in BOOLEAN /\ (~ met' => ~ met /\ \A d \in Callers : ~ Writing(d))
    <2>1. met' = (met \/ \E d \in Callers \ {c} : Writing(d))
      BY DEF PracticeReads
    <2>2. ~ Writing(c)
      BY <1>1 DEF Writing
    <2> QED
      BY <2>1, <2>2, RecordTyped
  <1>10. RowFits'
    <2>1. Fits(record)'
      BY <1>1, <1>2 DEF Fits
    <2>2. ASSUME NEW d \in Callers, Writing(d)'
          PROVE  Fits(call[d].record)' /\ call'[d].record.last = today
      <3>1. CASE d = c
        <4>1. call'[d].record = r /\ today' = today
          BY <1>1, <1>6, <1>7, <3>1 DEF OneCall
        <4>2. r.xp <= results' /\ r.streak <= today + 1
          BY <1>3, <1>4, <1>5
        <4> QED
          BY <1>2, <1>5, <4>1, <4>2 DEF Fits
      <3>2. CASE d # c
        <4>1. call'[d] = call[d] /\ Writing(d)
          BY <1>7, <1>8, <2>2, <3>2 DEF OneCall
        <4>2. Fits(call[d].record) /\ call[d].record.last = today /\ call[d].record.xp \in Nat
          BY <4>1, RecordTyped, RecordNumbers DEF RecordInv, RowFits
        <4> QED
          BY <1>1, <1>2, <4>1, <4>2 DEF Fits
      <3> QED
        BY <3>1, <3>2
    <2> QED
      BY <1>1, <2>1, <2>2 DEF RowFits
  <1>11. RoomForEdits'
    <2>1. Editing' = Editing
      BY <1>1, <1>6, <1>7 DEF Editing, OneCall
    <2> QED
      BY <1>1, <2>1 DEF RecordInv, RoomForEdits
  <1>12. NothingLost'
    <2> SUFFICES ASSUME ~ met' PROVE NothingLost'
      BY DEF NothingLost
    <2>1. Tells(record)
      BY <1>1, <1>9 DEF RecordInv, NothingLost
    <2>2. r.streak = Cardinality(RunOf(practised', today))
      BY <1>1, <1>2, <1>5, <2>1, RunsOn DEF Fits
    <2>3. practised \subseteq Days /\ \A d \in practised : d <= today
      <3>1. \A d \in practised : d <= record.last /\ d \in Int
        BY <1>2, <2>1, RecordTyped, StudentsBounds DEF Tells
      <3> QED
        BY <1>2, <3>1, RecordTyped DEF Fits
    <2>4. r.xp = results'
      BY <1>1, <1>5, <2>1 DEF Tells
    <2>5. Tells(call[c].record)'
      <3>1. call'[c].record = r /\ r.last # NoDay /\ practised' # {}
        BY <1>1, <1>2, <1>5, <1>6, <1>7, StudentsBounds DEF OneCall
      <3>2. r.last \in practised' /\ r.streak = Run(call[c].record.last)'
        BY <1>1, <1>5, <2>2, <3>1 DEF Run, RunOf
      <3>3. \A d \in practised' : d <= r.last
        BY <1>1, <1>2, <1>5, <2>3
      <3> QED
        BY <2>4, <3>1, <3>2, <3>3 DEF Tells
    <2>6. \A d \in Callers : Writing(d)' => d = c
      BY <1>8, <1>9
    <2>7. Writing(c)'
      BY <1>8
    <2>8. ASSUME NEW d \in Callers, Writing(d)' PROVE Tells(call[d].record)'
      <3>1. d = c
        BY <2>6, <2>8
      <3> QED
        BY <2>5, <3>1 DEF Tells, Run
    <2> QED
      BY <2>6, <2>7, <2>8 DEF NothingLost
  <1>13. PageCurrent' /\ ConsentFits'
    BY <1>1, <1>6, <1>7, PageStays, ConsentStays
  <1>14. StudentsTypeOK'
    <2>1. results' \in 0..MaxResults /\ practised' \subseteq Days
      BY <1>1, <1>2, RecordTyped
    <2> QED
      BY <1>1, <1>7, <1>9, <2>1 DEF RecordInv, StudentsTypeOK, OneCall, filed
  <1> QED
    BY <1>10, <1>11, <1>12, <1>13, <1>14 DEF RecordInv

\* Nobody else practises beside one who does, and what she writes says it all.
LEMMA StPracticeWrites ==
  ASSUME RecordInv, NEW c \in Callers, PracticeWrites(c)
  PROVE  RecordInv'
  <1>1. /\ call[c].pc = "practice" /\ Writing(c)
        /\ UNCHANGED <<today, filed, removed, cache, practised, studentCounts, met>>
        /\ results' = results /\ edits' = edits
    BY DEF PracticeWrites, Writing, studentCounts
  <1>2. /\ Fits(call[c].record) /\ record \in Record /\ call[c].record \in Record
    BY <1>1, RecordTyped DEF RecordInv, RowFits
  <1>3. ConsentFits'
    <2>1. CASE removed
      BY <1>1, <2>1, NoCallTyped, CallMoves, ConsentStays DEF PracticeWrites, Ends
    <2>2. CASE ~ removed
      <3> DEFINE q == [NoCall EXCEPT !.pc = "bust"]
      <3>1. q \in Call /\ q.pc = "bust" /\ Calls(c, q)
        BY <2>2, NoCallTyped DEF Call, PracticeWrites
      <3> QED
        BY <1>1, <3>1, CallMoves, ConsentStays
    <2> QED
      BY <2>1, <2>2
  <1>4. CASE removed
    <2>1. OneCall(c, NoCall) /\ UNCHANGED <<record, stale>>
      BY <1>4, NoCallTyped, CallMoves DEF PracticeWrites, Ends
    <2>2. Editing' = Editing
      BY <1>1, <2>1, NoCallTyped DEF Editing, OneCall
    <2>3. RoomForEdits'
      BY <1>1, <2>1, <2>2 DEF RecordInv, RoomForEdits
    <2>4. \A d \in Callers : Writing(d)' => Writing(d) /\ call'[d] = call[d]
      BY <2>1, NoCallTyped DEF Writing, OneCall
    <2>5. RowFits'
      BY <1>1, <2>1, <2>4 DEF RecordInv, RowFits, Fits
    <2>6. NothingLost'
      BY <1>1, <1>4 DEF NothingLost
    <2>7. PageCurrent'
      BY <1>1, <2>1, NoCallTyped, PageStays
    <2>8. StudentsTypeOK'
      BY <1>1, <2>1 DEF RecordInv, StudentsTypeOK, OneCall, filed, studentCounts
    <2> QED
      BY <1>3, <2>3, <2>5, <2>6, <2>7, <2>8 DEF RecordInv
  <1>5. CASE ~ removed
    <2> DEFINE q == [NoCall EXCEPT !.pc = "bust"]
    <2>1. q \in Call /\ q.pc = "bust" /\ Calls(c, q)
      BY <1>5, NoCallTyped DEF Call, PracticeWrites
    <2> HIDE DEF q
    <2>2. OneCall(c, q)
      BY <2>1, CallMoves
    <2>3. /\ record' \in Record /\ record'.edit = record.edit
          /\ record'.xp = call[c].record.xp /\ record'.streak = call[c].record.streak
          /\ record'.last = call[c].record.last
      <3>1. record' = [call[c].record EXCEPT !.edit = record.edit]
        BY <1>5 DEF PracticeWrites
      <3> QED
        BY <1>2, <3>1 DEF Record
    <2>4. stale' \in BOOLEAN /\ (~ stale' => ~ stale /\ ~ Loading)
      BY <1>5, RecordTyped DEF PracticeWrites
    <2>5. Editing' = Editing
      BY <1>1, <2>1, <2>2 DEF Editing, OneCall
    <2>6. RoomForEdits'
      BY <1>1, <2>3, <2>5 DEF RecordInv, RoomForEdits
    <2>7. \A d \in Callers : Writing(d)' <=> (Writing(d) /\ d # c)
      BY <2>1, <2>2 DEF Writing, OneCall
    <2>8. \A d \in Callers : d # c => call'[d] = call[d]
      BY <2>2 DEF OneCall
    <2>9. RowFits'
      BY <1>1, <1>2, <2>3, <2>7, <2>8 DEF RecordInv, RowFits, Fits
    <2>10. NothingLost'
      <3> SUFFICES ASSUME ~ met PROVE NothingLost'
        BY <1>1 DEF NothingLost
      <3>1. Tells(call[c].record) /\ \A d \in Callers : Writing(d) => d = c
        BY <1>1, <1>5 DEF RecordInv, NothingLost
      <3>2. \A d \in Callers : ~ Writing(d)'
        BY <2>7, <3>1
      <3>3. Tells(record)'
        BY <1>1, <2>3, <3>1 DEF Tells, Run
      <3> QED
        BY <3>2, <3>3 DEF NothingLost
    <2>11. PageCurrent'
      BY <1>1, <2>1, <2>2, <2>4 DEF PageCurrent, Loading, OneCall
    <2>12. StudentsTypeOK'
      BY <1>1, <2>2, <2>3, <2>4 DEF RecordInv, StudentsTypeOK, OneCall, filed, studentCounts
    <2> QED
      BY <1>3, <2>6, <2>9, <2>10, <2>11, <2>12 DEF RecordInv
  <1> QED
    BY <1>4, <1>5

LEMMA StBustsCache ==
  ASSUME RecordInv, NEW c \in Callers, BustsCache(c)
  PROVE  RecordInv'
  <1>1. /\ call[c].pc = "bust" /\ Calls(c, NoCall)
        /\ UNCHANGED <<today, record, filed, removed, practised, results, edits,
                       consents, met>>
    BY DEF BustsCache, Ends
  <1>2. OneCall(c, NoCall)
    BY <1>1, NoCallTyped, CallMoves
  <1>3. RowFits' /\ RoomForEdits' /\ NothingLost'
    BY <1>1, <1>2, NoCallTyped, PracticeStays
  <1>4. ConsentFits'
    BY <1>1, <1>2, NoCallTyped, ConsentStays
  <1>5. \/ cache' = EmptyCache /\ misses' = misses /\ stale' = stale
        \/ misses < MaxMisses /\ misses' = misses + 1 /\ stale' = TRUE /\ cache' = cache
    BY DEF BustsCache
  <1>6. misses' \in 0..MaxMisses /\ stale' \in BOOLEAN
        /\ cache' \in [kept: BOOLEAN, record: Record]
    <2>1. misses \in 0..MaxMisses /\ MaxMisses \in Nat
      BY StudentsBounds DEF RecordInv, StudentsTypeOK
    <2>2. misses' \in 0..MaxMisses
      BY <1>5, <2>1
    <2>3. stale' \in BOOLEAN
      BY <1>5, RecordTyped
    <2>4. EmptyCache \in [kept: BOOLEAN, record: Record]
      BY NoCallTyped DEF EmptyCache
    <2>5. cache \in [kept: BOOLEAN, record: Record]
      BY DEF RecordInv, StudentsTypeOK
    <2> QED
      BY <1>5, <2>2, <2>3, <2>4, <2>5
  <1>7. PageCurrent'
    BY <1>1, <1>2, <1>5, NoCallTyped DEF RecordInv, PageCurrent, OneCall, EmptyCache
  <1>8. StudentsTypeOK'
    BY <1>1, <1>2, <1>6 DEF RecordInv, StudentsTypeOK, OneCall, filed
  <1> QED
    BY <1>3, <1>4, <1>7, <1>8 DEF RecordInv

LEMMA StEditReads ==
  ASSUME RecordInv, NEW c \in Callers, EditReads(c)
  PROVE  RecordInv'
  <1> DEFINE q == [NoCall EXCEPT !.pc = "edit"]
  <1>1. /\ call[c].pc = "idle" /\ edits < MaxResults /\ edits' = edits + 1 /\ Calls(c, q)
        /\ UNCHANGED <<today, record, filed, removed, cache, practised, results,
                       consents, misses, met, stale>>
    BY DEF EditReads, Free
  <1>2. q \in Call /\ q.pc = "edit"
    BY NoCallTyped DEF Call
  <1> HIDE DEF q
  <1>3. OneCall(c, q)
    BY <1>1, <1>2, CallMoves
  <1>4. edits' \in 0..MaxResults /\ edits \in Nat /\ record.edit \in Nat
    BY <1>1, RecordTyped, RecordNumbers, StudentsBounds
  <1>5. RoomForEdits'
    <2>1. Editing' = Editing \union {c} /\ c \notin Editing
      BY <1>1, <1>2, <1>3 DEF Editing, OneCall
    <2>2. IsFiniteSet(Editing) /\ record.edit + Cardinality(Editing) <= edits
      BY DEF RecordInv, RoomForEdits
    <2>3. IsFiniteSet(Editing') /\ Cardinality(Editing') = Cardinality(Editing) + 1
          /\ Cardinality(Editing) \in Nat
      BY <2>1, <2>2, FS_AddElement, FS_CardinalityType
    <2> QED
      BY <1>1, <1>4, <2>2, <2>3 DEF RoomForEdits
  <1>6. \A d \in Callers : (Writing(d)' <=> Writing(d)) /\ (Writing(d) => call'[d] = call[d])
    BY <1>1, <1>2, <1>3 DEF Writing, OneCall
  <1>7. RowFits'
    BY <1>1, <1>6 DEF RecordInv, RowFits, Fits
  <1>8. NothingLost'
    BY <1>1, <1>6 DEF RecordInv, NothingLost, Tells, Run
  <1>9. PageCurrent' /\ ConsentFits'
    BY <1>1, <1>2, <1>3, PageStays, ConsentStays
  <1>10. StudentsTypeOK'
    BY <1>1, <1>3, <1>4 DEF RecordInv, StudentsTypeOK, OneCall, filed
  <1> QED
    BY <1>5, <1>7, <1>8, <1>9, <1>10 DEF RecordInv

LEMMA StEditWrites ==
  ASSUME RecordInv, NEW c \in Callers, EditWrites(c)
  PROVE  RecordInv'
  <1> DEFINE q == IF removed THEN NoCall ELSE [NoCall EXCEPT !.pc = "bust"]
  <1>1. /\ call[c].pc = "edit" /\ Calls(c, q)
        /\ UNCHANGED <<today, filed, removed, cache, practised, results, edits, consents,
                       misses, met>>
    BY DEF EditWrites, Ends, studentCounts
  <1>2. q \in Call /\ q.pc \in {"idle", "bust"} /\ (~ removed => q.pc = "bust")
    BY NoCallTyped DEF Call
  <1> HIDE DEF q
  <1>3. OneCall(c, q)
    BY <1>1, <1>2, CallMoves
  <1>4. IsFiniteSet(Editing') /\ Cardinality(Editing') = Cardinality(Editing) - 1
        /\ Cardinality(Editing) \in Nat /\ record.edit + Cardinality(Editing) <= edits
        /\ Cardinality(Editing') \in Nat
    <2>1. Editing' = Editing \ {c} /\ c \in Editing
      BY <1>1, <1>2, <1>3 DEF Editing, OneCall
    <2>2. IsFiniteSet(Editing) /\ record.edit + Cardinality(Editing) <= edits
      BY DEF RecordInv, RoomForEdits
    <2>3. IsFiniteSet(Editing') /\ Cardinality(Editing') = Cardinality(Editing) - 1
      BY <2>1, <2>2, FS_RemoveElement
    <2> QED
      BY <2>2, <2>3, FS_CardinalityType
  <1>5. edits \in 0..MaxResults /\ MaxResults \in Nat /\ record \in Record
        /\ record.edit \in Nat
    BY RecordTyped, RecordNumbers, StudentsBounds
  <1>6. /\ record' \in Record /\ record'.xp = record.xp /\ record'.streak = record.streak
        /\ record'.last = record.last /\ record'.edit \in {record.edit, record.edit + 1}
        /\ (removed => record' = record /\ stale' = stale)
    <2>1. record.edit + 1 \in 0..MaxResults
      BY <1>4, <1>5
    <2>2. record' = IF removed THEN record ELSE [record EXCEPT !.edit = @ + 1]
      BY DEF EditWrites
    <2>3. [record EXCEPT !.edit = @ + 1] \in Record
      BY <1>5, <2>1 DEF Record
    <2>4. removed => stale' = stale
      BY DEF EditWrites
    <2> QED
      BY <1>5, <2>2, <2>3, <2>4 DEF Record
  <1>7. RoomForEdits'
    BY <1>1, <1>4, <1>5, <1>6 DEF RoomForEdits
  <1>8. stale' \in BOOLEAN /\ (~ removed /\ ~ stale' => ~ stale /\ ~ Loading)
    BY RecordTyped DEF EditWrites
  <1>9. \A d \in Callers : (Writing(d)' <=> Writing(d)) /\ (Writing(d) => call'[d] = call[d])
    BY <1>1, <1>2, <1>3 DEF Writing, OneCall
  <1>10. RowFits'
    BY <1>1, <1>6, <1>9 DEF RecordInv, RowFits, Fits
  <1>11. NothingLost'
    BY SMTT(20), ZenonT(40), <1>1, <1>6, <1>9 DEF RecordInv, NothingLost, Tells, Run
  <1>12. PageCurrent'
    <2>1. CASE removed
      BY <1>1, <1>2, <1>3, <1>6, <2>1, PageStays
    <2>2. CASE ~ removed
      BY <1>1, <1>2, <1>3, <1>8, <2>2 DEF PageCurrent, Loading, OneCall
    <2> QED
      BY <2>1, <2>2
  <1>13. ConsentFits'
    BY <1>1, <1>2, <1>3, ConsentStays
  <1>14. StudentsTypeOK'
    BY <1>1, <1>3, <1>6, <1>8 DEF RecordInv, StudentsTypeOK, OneCall, filed
  <1> QED
    BY <1>7, <1>10, <1>11, <1>12, <1>13, <1>14 DEF RecordInv

\* The page is asked for, read and kept.
LEMMA StDashboard ==
  ASSUME RecordInv, NEW c \in Callers,
         DashboardAsks(c) \/ DashboardReads(c) \/ DashboardKeeps(c)
  PROVE  RecordInv'
  <1>1. UNCHANGED <<today, record, filed, removed, practised, studentCounts, met, stale>>
        /\ UNCHANGED <<results, edits, consents, misses>>
        /\ record \in Record
    BY RecordTyped DEF DashboardAsks, DashboardReads, DashboardKeeps, studentCounts
  <1>2. ASSUME NEW q \in Call, Calls(c, q), q.pc \in {"idle", "load", "keep"},
               call[c].pc \in {"idle", "load", "keep"},
               q.pc = "keep" => q.record = record,
               \/ cache' = cache
               \/ call[c].pc = "keep" /\ q.pc = "idle"
                  /\ cache' = [kept |-> TRUE, record |-> call[c].record]
        PROVE  RecordInv'
    <2>1. OneCall(c, q)
      BY <1>2, CallMoves
    <2>2. RowFits' /\ RoomForEdits' /\ NothingLost'
      BY <1>1, <1>2, <2>1, PracticeStays
    <2>3. ConsentFits'
      BY <1>1, <1>2, <2>1, ConsentStays
    <2>4. PageCurrent'
      <3>1. CASE cache' = cache
        BY <1>1, <1>2, <2>1, <3>1, PageStays
      <3>2. CASE call[c].pc = "keep" /\ q.pc = "idle"
                 /\ cache' = [kept |-> TRUE, record |-> call[c].record]
        BY <1>1, <2>1, <3>2 DEF RecordInv, PageCurrent, OneCall
      <3> QED
        BY <1>2, <3>1, <3>2
    <2>5. cache' \in [kept: BOOLEAN, record: Record]
      <3>1. cache \in [kept: BOOLEAN, record: Record] /\ call[c].record \in Record
        BY RecordTyped DEF RecordInv, StudentsTypeOK
      <3>2. [kept |-> TRUE, record |-> call[c].record] \in [kept: BOOLEAN, record: Record]
        BY <3>1
      <3> QED
        BY <1>2, <3>1, <3>2
    <2>6. StudentsTypeOK'
      BY <1>1, <2>1, <2>5 DEF RecordInv, StudentsTypeOK, OneCall, filed
    <2> QED
      BY <2>2, <2>3, <2>4, <2>6 DEF RecordInv
  <1>3. CASE DashboardAsks(c)
    <2> DEFINE q == [NoCall EXCEPT !.pc = "load"]
    <2>1. q \in Call /\ q.pc = "load" /\ Calls(c, q) /\ call[c].pc = "idle" /\ cache' = cache
      BY <1>3, NoCallTyped DEF DashboardAsks, Call, Free
    <2> HIDE DEF q
    <2> QED
      BY <1>2, <2>1
  <1>4. CASE DashboardReads(c)
    <2> DEFINE q == IF removed THEN NoCall ELSE [NoCall EXCEPT !.pc = "keep", !.record = record]
    <2>1. q \in Call /\ q.pc \in {"idle", "keep"} /\ (q.pc = "keep" => q.record = record)
      BY <1>1, NoCallTyped DEF Call
    <2>2. Calls(c, q) /\ call[c].pc = "load" /\ cache' = cache
      BY <1>4 DEF DashboardReads, Ends
    <2> HIDE DEF q
    <2> QED
      BY <1>2, <2>1, <2>2
  <1>5. CASE DashboardKeeps(c)
    BY <1>2, <1>5, NoCallTyped DEF DashboardKeeps, Ends
  <1> QED
    BY <1>3, <1>4, <1>5

LEMMA StConsentReads ==
  ASSUME RecordInv, NEW c \in Callers, NEW granted \in BOOLEAN, NEW given \in Births,
         ConsentReads(c, granted, given)
  PROVE  RecordInv'
  <1>1. /\ call[c].pc = "idle" /\ consents < MaxConsents /\ consents' = consents + 1
        /\ UNCHANGED <<today, record, filed, removed, cache, practised, results, edits,
                       misses, met, stale>>
    BY DEF ConsentReads, Free
  <1>2. consents' \in 0..MaxConsents
    BY <1>1, StudentsBounds DEF RecordInv, StudentsTypeOK
  <1> DEFINE q == [NoCall EXCEPT !.pc = "consent", !.granted = granted,
                                 !.birth = IF consent.birth = "unknown" THEN given
                                           ELSE "unknown"]
  <1>3. CASE call' = call
    <2>1. Editing' = Editing
      BY <1>3 DEF Editing
    <2>2. StudentsTypeOK'
      BY <1>1, <1>2, <1>3 DEF RecordInv, StudentsTypeOK, filed
    <2>3. RowFits' /\ RoomForEdits' /\ NothingLost'
      BY <1>1, <1>3, <2>1
      DEF RecordInv, RowFits, Fits, Writing, RoomForEdits, NothingLost, Tells, Run
    <2>4. PageCurrent' /\ ConsentFits'
      BY <1>1, <1>3 DEF RecordInv, PageCurrent, ConsentFits, filed
    <2> QED
      BY <2>2, <2>3, <2>4 DEF RecordInv
  <1>4. CASE Calls(c, q) /\ (granted => MayConsent(BirthOf(given)))
    <2>1. q \in Call /\ q.pc = "consent" /\ q.granted = granted
          /\ q.birth = IF consent.birth = "unknown" THEN given ELSE "unknown"
      BY NoCallTyped DEF Call, Births
    <2> HIDE DEF q
    <2>2. OneCall(c, q)
      BY <1>4, <2>1, CallMoves
    <2>3. RowFits' /\ RoomForEdits' /\ NothingLost' /\ PageCurrent'
      BY <1>1, <2>1, <2>2, PracticeStays, PageStays
    <2>4. granted => \/ q.birth = "adult"
                     \/ q.birth = "unknown" /\ consent.birth = "adult"
      BY <1>4, <2>1 DEF MayConsent, BirthOf
    <2>5. ConsentFits'
      BY <1>1, <2>1, <2>2, <2>4 DEF RecordInv, ConsentFits, OneCall, filed
    <2>6. StudentsTypeOK'
      BY <1>1, <1>2, <2>2 DEF RecordInv, StudentsTypeOK, OneCall, filed
    <2> QED
      BY <2>3, <2>5, <2>6 DEF RecordInv
  <1> QED
    BY <1>3, <1>4 DEF ConsentReads

LEMMA StConsentWrites ==
  ASSUME RecordInv, NEW c \in Callers, ConsentWrites(c)
  PROVE  RecordInv'
  <1>1. /\ call[c].pc = "consent" /\ Calls(c, NoCall)
        /\ UNCHANGED <<today, record, removed, cache, practised, results, edits, consents,
                       misses, met, stale>>
    BY DEF ConsentWrites, Ends, studentCounts
  <1>2. OneCall(c, NoCall)
    BY <1>1, NoCallTyped, CallMoves
  <1>3. RowFits' /\ RoomForEdits' /\ NothingLost' /\ PageCurrent'
    BY <1>1, <1>2, NoCallTyped, PracticeStays, PageStays
  <1>4. CASE removed
    <2>1. UNCHANGED filed
      BY <1>4 DEF ConsentWrites
    <2>2. ConsentFits'
      BY <1>2, <2>1, NoCallTyped, ConsentStays
    <2>3. StudentsTypeOK'
      BY <1>1, <1>2, <2>1 DEF RecordInv, StudentsTypeOK, OneCall, filed
    <2> QED
      BY <1>3, <2>2, <2>3 DEF RecordInv
  <1>5. CASE ~ removed
    <2> DEFINE b == IF call[c].birth = "unknown" THEN consent.birth ELSE call[c].birth
               w == IF call[c].granted THEN "self" ELSE "nobody"
    <2>1. consent' = [granted |-> call[c].granted, by |-> w, birth |-> b]
          /\ redated' = (redated \/ consent.birth \notin {"unknown", consent'.birth})
      BY <1>5 DEF ConsentWrites
    <2>2. call[c].granted \in BOOLEAN /\ b \in Births /\ w \in {"nobody", "self"}
          /\ redated \in BOOLEAN
      BY RecordTyped DEF RecordInv, StudentsTypeOK, Call
    <2>3. consent' \in [granted: BOOLEAN, by: {"nobody", "self", "parent"}, birth: Births]
          /\ redated' \in BOOLEAN
      BY <2>1, <2>2
    <2>4. consent'.granted = call[c].granted /\ consent'.by = w /\ consent'.birth = b
          /\ (~ redated' => ~ redated /\ consent.birth \in {"unknown", b})
      BY <2>1, <2>2
    <2>5. ConsentFits'
      <3>1. consent'.by = "self" => consent'.granted
        BY <2>4
      <3>2. ASSUME ~ redated', consent'.by = "self" PROVE consent'.birth = "adult"
        BY <1>1, <2>4, <3>2 DEF RecordInv, ConsentFits
      <3>3. ASSUME ~ redated', NEW d \in Callers, call'[d].pc = "consent", call'[d].granted
            PROVE  \/ call'[d].birth = "adult"
                   \/ call'[d].birth = "unknown" /\ consent'.birth = "adult"
        <4>1. d # c /\ call'[d] = call[d]
          BY <1>2, <3>3, NoCallTyped DEF OneCall
        <4>2. ~ redated /\ consent.birth \in {"unknown", b}
          BY <2>4, <3>3
        <4> QED
          BY <2>4, <3>3, <4>1, <4>2 DEF RecordInv, ConsentFits
      <3> QED
        BY <3>1, <3>2, <3>3 DEF ConsentFits
    <2>6. StudentsTypeOK'
      BY <1>1, <1>2, <2>3 DEF RecordInv, StudentsTypeOK, OneCall
    <2> QED
      BY <1>3, <2>5, <2>6 DEF RecordInv
  <1> QED
    BY <1>4, <1>5

LEMMA StParentConsents ==
  ASSUME RecordInv, NEW granted \in BOOLEAN, ParentConsents(granted)
  PROVE  RecordInv'
  <1>1. /\ consents < MaxConsents /\ consents' = consents + 1
        /\ UNCHANGED <<today, record, redated, removed, cache, call, practised, results,
                       edits, misses, met, stale>>
    BY DEF ParentConsents
  <1>2. consents' \in 0..MaxConsents
    BY <1>1, StudentsBounds DEF RecordInv, StudentsTypeOK
  <1>3. /\ consent' \in [granted: BOOLEAN, by: {"nobody", "self", "parent"}, birth: Births]
        /\ consent'.birth = consent.birth /\ consent'.by # "self"
    BY DEF ParentConsents, RecordInv, StudentsTypeOK
  <1>4. StudentsTypeOK' /\ ConsentFits'
    BY <1>1, <1>2, <1>3 DEF RecordInv, StudentsTypeOK, ConsentFits
  <1>5. Editing' = Editing
    BY <1>1 DEF Editing
  <1> QED
    BY <1>1, <1>4, <1>5
    DEF RecordInv, RowFits, Fits, Writing, RoomForEdits, NothingLost, Tells, Run, PageCurrent

LEMMA StPasses ==
  ASSUME RecordInv, CacheExpires \/ Delete \/ DayPasses \/ UNCHANGED studentsVars
  PROVE  RecordInv'
  <1>1. UNCHANGED <<record, filed, call, practised, results, edits, consents, misses, met>>
    BY DEF CacheExpires, Delete, DayPasses, studentsVars, studentCounts, filed
  <1>2. /\ removed' \in BOOLEAN /\ (~ removed' => ~ removed)
        /\ today' \in Days /\ today <= today'
        /\ (today' # today => \A c \in Callers : call[c].pc = "idle")
    <2>1. CASE DayPasses
      <3>1. today < LastDay /\ today' = today + 1 /\ removed' = removed
            /\ \A c \in Callers : call[c].pc = "idle"
        BY <2>1 DEF DayPasses, Free
      <3> QED
        BY <3>1, RecordTyped, StudentsBounds
    <2>2. CASE ~ DayPasses
      <3>1. today' = today /\ (removed' = removed \/ (~ removed /\ removed' = TRUE))
        BY <2>2 DEF CacheExpires, Delete, studentsVars
      <3>2. today \in Days /\ today <= today /\ removed \in BOOLEAN
        BY RecordTyped
      <3> QED
        BY <3>1, <3>2
    <2> QED
      BY <2>1, <2>2
  <1>3. stale' \in BOOLEAN /\ cache' \in [kept: BOOLEAN, record: Record] /\ PageCurrent'
    <2>1. CASE CacheExpires
      <3>1. cache' = EmptyCache
            /\ stale' = (stale /\ \E c \in Callers : call[c].pc = "keep")
        BY <2>1 DEF CacheExpires
      <3> QED
        BY <1>1, <3>1, RecordTyped, NoCallTyped DEF RecordInv, PageCurrent, EmptyCache
    <2>2. CASE ~ CacheExpires
      <3>1. cache' = cache /\ stale' = stale
        BY <2>2 DEF Delete, DayPasses, studentsVars
      <3> QED
        BY <1>1, <3>1 DEF RecordInv, StudentsTypeOK, PageCurrent
    <2> QED
      BY <2>1, <2>2
  <1>4. Editing' = Editing
    BY <1>1 DEF Editing
  <1>5. RowFits'
    <2>1. Fits(record)'
      BY <1>1, <1>2, RecordTyped, RecordNumbers, StudentsBounds DEF RecordInv, RowFits, Fits
    <2>2. ASSUME NEW c \in Callers, Writing(c)' PROVE Fits(call[c].record)' /\ call'[c].record.last = today'
      BY <1>1, <1>2, <2>2 DEF RecordInv, RowFits, Fits, Writing
    <2> QED
      BY <2>1, <2>2 DEF RowFits
  <1>6. RoomForEdits' /\ NothingLost' /\ ConsentFits'
    BY <1>1, <1>2, <1>4 DEF RecordInv, RoomForEdits, NothingLost, Tells, Run, Writing,
       ConsentFits, filed
  <1>7. StudentsTypeOK'
    BY <1>1, <1>2, <1>3 DEF RecordInv, StudentsTypeOK, filed
  <1> QED
    BY <1>3, <1>5, <1>6, <1>7 DEF RecordInv

LEMMA RecordContinues ==
  ASSUME RecordInv, [StudentsNext]_studentsVars
  PROVE  RecordInv'
  <1>1. ASSUME NEW c \in Callers, Serving(c) PROVE RecordInv'
    BY <1>1, StPracticeReads, StPracticeWrites, StBustsCache, StEditReads, StEditWrites,
       StDashboard, StConsentReads, StConsentWrites DEF Serving
  <1>2. CASE \E granted \in BOOLEAN : ParentConsents(granted)
    BY <1>2, StParentConsents
  <1>3. CASE CacheExpires \/ Delete \/ DayPasses \/ UNCHANGED studentsVars
    BY <1>3, StPasses
  <1> QED
    BY <1>1, <1>2, <1>3 DEF StudentsNext

LEMMA RecordHolds == StudentsSpec => []RecordInv
  BY RecordBegins, RecordContinues, PTL DEF StudentsSpec

\* The student's row, its page in the cache and the requests keep their types.
THEOREM StudentsTyped == StudentsSpec => []StudentsTypeOK
  <1>1. RecordInv => StudentsTypeOK
    BY DEF RecordInv
  <1> QED
    BY <1>1, RecordHolds, PTL

\* A student's record says what happened: without crossed results every result
\* counts and the streak is that of the days practised, a page that is not stale
\* shows the row, and who consented herself was of age by the date on file.
THEOREM RecordTrue == StudentsSpec => []RecordIsTrue
  <1>1. RecordInv => RecordIsTrue
    <2> SUFFICES ASSUME RecordInv PROVE RecordIsTrue
      OBVIOUS
    <2>1. PracticeCounts
      <3> SUFFICES ASSUME Served, ~ met, ~ removed PROVE PracticeCounts
        BY DEF PracticeCounts
      <3>1. Tells(record)
        BY DEF RecordInv, NothingLost, Served, Writing
      <3> QED
        BY <3>1 DEF PracticeCounts, Tells
    <2>2. DashboardIsFresh
      BY DEF RecordInv, DashboardIsFresh, PageCurrent, Served
    <2>3. SelfConsentIsOfAge
      BY DEF RecordInv, SelfConsentIsOfAge, ConsentFits
    <2> QED
      BY <2>1, <2>2, <2>3 DEF RecordIsTrue
  <1> QED
    BY <1>1, RecordHolds, PTL

-----------------------------------------------------------------------------
(* Part 4: the messages.  Who is found belongs to the student since the      *)
(* message was begun, what a page holds has been fetched or came after it,   *)
(* and a list of conversations knows what waited when it was asked for.      *)

Letter == [pupil: Pupils, tutor: Advisers, sender: Users, read: BOOLEAN]

SenderKnown(q) == q.pc # "idle" =>
    /\ q.pupil \in Pupils /\ q.by \in Users
    /\ q.found \subseteq q.hers /\ MyTutors(tie[q.pupil]) \subseteq q.hers
SendersKnown == \A s \in Senders : SenderKnown(sending[s])

\* What the thread of user u with w holds for her.
IsFor(u, w, m) == m.sender # u /\ InThread(u, w, m)
PagesFetched == \A u \in Users : page[u].open =>
    \A i \in DOMAIN letters : IsFor(u, page[u].with, letters[i]) => i \in fetched \union gap

ListFits == listed.pc \in {"asked", "shown"} =>
    /\ listed.by \in Advisers /\ listed.upto <= Len(letters)
    /\ listed.waiting \subseteq 1..listed.upto
    /\ \A i \in listed.waiting :
         IsFor(listed.by, Nobody, letters[i]) /\ letters[i].pupil \in listed.pupils
    /\ \A i \in 1..listed.upto :
         IsFor(listed.by, Nobody, letters[i]) /\ ~ letters[i].read => i \in listed.waiting

ThreadsInv ==
    /\ ThreadsTypeOK /\ Len(letters) <= MaxLetters
    /\ SendersKnown /\ PagesFetched /\ ListFits /\ ReadWasFetched /\ ListCounts

LEMMA ThreadsBounds ==
  /\ MaxLetters \in Nat /\ MaxTies \in Nat /\ MaxOpens \in Nat
  /\ Nobody \notin Advisers /\ Pupils \cap Advisers = {}
  /\ Users = Pupils \union Advisers
  BY ThreadsAssumption DEF Users

LEMMA ThreadsTypes ==
  ASSUME ThreadsInv
  PROVE  /\ letters \in Seq(Letter) /\ Len(letters) \in 0..MaxLetters
         /\ DOMAIN letters = 1..Len(letters)
         /\ \A i \in DOMAIN letters : letters[i] \in Letter
         /\ DOMAIN letters \subseteq 1..MaxLetters
         /\ tie \in [Pupils -> Tie] /\ sending \in [Senders -> Sending]
         /\ page \in [Users -> [open: BOOLEAN, with: Users \union {Nobody},
                                upto: 0..MaxLetters]]
         /\ fetched \subseteq 1..MaxLetters /\ gap \subseteq 1..MaxLetters
  <1>1. /\ letters \in Seq(Letter) /\ tie \in [Pupils -> Tie] /\ sending \in [Senders -> Sending]
        /\ page \in [Users -> [open: BOOLEAN, with: Users \union {Nobody},
                               upto: 0..MaxLetters]]
        /\ fetched \subseteq 1..MaxLetters /\ gap \subseteq 1..MaxLetters
        /\ Len(letters) <= MaxLetters
    BY DEF ThreadsInv, ThreadsTypeOK, Letter
  <1>2. Len(letters) \in Nat /\ DOMAIN letters = 1..Len(letters)
        /\ \A i \in DOMAIN letters : letters[i] \in Letter
    BY <1>1, LenProperties, ElementOfSeq
  <1>3. Len(letters) \in 0..MaxLetters /\ DOMAIN letters \subseteq 1..MaxLetters
    BY <1>1, <1>2, ThreadsBounds
  <1> QED
    BY <1>1, <1>2, <1>3

LEMMA NoSendingTyped == NoSending \in Sending /\ NoSending.pc = "idle"
  BY DEF NoSending, Sending

LEMMA MyTutorsTyped ==
  ASSUME NEW k \in Tie
  PROVE  /\ MyTutors(k) \subseteq Advisers
         /\ {k.trial} \ {Nobody} \subseteq MyTutors(k) /\ k.active \subseteq MyTutors(k)
         /\ \A i \in DOMAIN k.booked : k.booked[i] \in MyTutors(k)
  <1>1. k.trial \in Advisers \union {Nobody} /\ k.active \subseteq Advisers
        /\ k.booked \in Seq(Advisers)
    BY DEF Tie
  <1>2. \A i \in DOMAIN k.booked : k.booked[i] \in Advisers
    BY <1>1, ElementOfSeq, LenProperties
  <1> QED
    BY <1>1, <1>2 DEF MyTutors

LEMMA ThreadsBegin == ThreadsInit => ThreadsInv
  <1> SUFFICES ASSUME ThreadsInit PROVE ThreadsInv
    OBVIOUS
  <1>1. \A s \in Senders : sending[s] = NoSending
    BY DEF ThreadsInit
  <1>2. letters = <<>> /\ Len(letters) = 0 /\ letters \in Seq(Letter) /\ DOMAIN letters = {}
    BY EmptySeq DEF ThreadsInit
  <1>3. listed.pc = "none" /\ \A u \in Users : ~ page[u].open
    BY DEF ThreadsInit, NoList, NoPage
  <1>4. ThreadsTypeOK
    <2>1. tie \in [Pupils -> Tie]
      <3>1. [trial |-> Nobody, active |-> {}, booked |-> <<>>] \in Tie
        BY EmptySeq DEF Tie
      <3> QED
        BY <3>1 DEF ThreadsInit
    <2>2. sending \in [Senders -> Sending]
      BY NoSendingTyped DEF ThreadsInit
    <2>3. page \in [Users -> [open: BOOLEAN, with: Users \union {Nobody}, upto: 0..MaxLetters]]
      BY ThreadsBounds DEF ThreadsInit, NoPage
    <2>4. listed \in [pc: {"none", "asked", "shown"}, by: Advisers \union {Nobody},
                      pupils: SUBSET Pupils, waiting: SUBSET (1..MaxLetters),
                      upto: 0..MaxLetters, unread: SUBSET (1..MaxLetters)]
      BY ThreadsBounds DEF ThreadsInit, NoList
    <2>5. fetched = {} /\ gap = {} /\ ties \in 0..MaxTies /\ opens \in 0..MaxOpens
      BY ThreadsBounds DEF ThreadsInit
    <2> QED
      BY <1>2, <2>1, <2>2, <2>3, <2>4, <2>5 DEF ThreadsTypeOK, Letter
  <1>5. SendersKnown
    BY <1>1, NoSendingTyped DEF SendersKnown, SenderKnown
  <1>6. PagesFetched /\ ListFits /\ ReadWasFetched /\ ListCounts
    BY <1>2, <1>3 DEF PagesFetched, ListFits, ReadWasFetched, ListCounts
  <1> QED
    BY <1>2, <1>4, <1>5, <1>6, ThreadsBounds DEF ThreadsInv

\* The parts that a step leaves alone.
LEMMA LettersStay ==
  ASSUME ThreadsInv, UNCHANGED <<letters, page, listed, fetched, gap>>
  PROVE  PagesFetched' /\ ListFits' /\ ReadWasFetched' /\ ListCounts'
         /\ Len(letters') <= MaxLetters
  BY DEF ThreadsInv, PagesFetched, ListFits, ReadWasFetched, ListCounts

LEMMA SendersStay ==
  ASSUME ThreadsInv, UNCHANGED <<tie, sending>>
  PROVE  SendersKnown'
  BY DEF ThreadsInv, SendersKnown, SenderKnown

\* Somebody gets another tutor.
LEMMA TieChanged ==
  ASSUME ThreadsInv, NEW p \in Pupils, NEW k \in Tie, TieChanges(p, k)
  PROVE  ThreadsInv'
  <1>1. /\ ties < MaxTies /\ ties' = ties + 1
        /\ UNCHANGED <<letters, page, listed, fetched, gap, opens>>
        /\ tie' = [tie EXCEPT ![p] = k]
    BY DEF TieChanges
  <1>2. ties' \in 0..MaxTies
    BY <1>1, ThreadsBounds DEF ThreadsInv, ThreadsTypeOK
  <1>3. tie' \in [Pupils -> Tie] /\ tie'[p] = k /\ \A r \in Pupils : r # p => tie'[r] = tie[r]
    BY <1>1, ThreadsTypes
  <1>4. \A s \in Senders : sending[s] \in Sending
    BY ThreadsTypes
  <1>5. ASSUME NEW s \in Senders, sending[s].pc # "idle", sending[s].pupil = p
        PROVE  sending'[s] = [sending[s] EXCEPT !.hers = @ \union MyTutors(k)]
    BY <1>5 DEF TieChanges, IsIdle
  <1>6. ASSUME NEW s \in Senders, ~ (sending[s].pc # "idle" /\ sending[s].pupil = p)
        PROVE  sending'[s] = sending[s]
    BY <1>6 DEF TieChanges, IsIdle
  <1>7. MyTutors(k) \subseteq Advisers
    BY MyTutorsTyped
  <1>8. ASSUME NEW s \in Senders PROVE sending'[s] \in Sending /\ SenderKnown(sending[s])'
    <2>1. SenderKnown(sending[s])
      BY DEF ThreadsInv, SendersKnown
    <2>2. CASE sending[s].pc # "idle" /\ sending[s].pupil = p
      <3>1. /\ sending'[s] \in Sending /\ sending'[s].pupil = p
            /\ sending'[s].by = sending[s].by /\ sending'[s].found = sending[s].found
            /\ sending'[s].hers = sending[s].hers \union MyTutors(k)
        <4> DEFINE H == sending[s].hers \union MyTutors(k)
        <4>1. H \in SUBSET Advisers
          BY <1>4, <1>7 DEF Sending
        <4>2. sending'[s] = [sending[s] EXCEPT !.hers = H]
          BY <1>5, <2>2
        <4> HIDE DEF H
        <4>3. /\ sending'[s] \in Sending /\ sending'[s].pupil = p
              /\ sending'[s].by = sending[s].by /\ sending'[s].found = sending[s].found
              /\ sending'[s].hers = H
          BY <1>4, <2>2, <4>1, <4>2 DEF Sending
        <4> QED
          BY <4>3 DEF H
      <3> QED
        BY <1>3, <2>1, <2>2, <3>1 DEF SenderKnown
    <2>3. CASE ~ (sending[s].pc # "idle" /\ sending[s].pupil = p)
      <3>1. sending'[s] = sending[s]
        BY <1>6, <2>3
      <3> QED
        BY <1>3, <1>4, <2>1, <2>3, <3>1 DEF SenderKnown
    <2> QED
      BY <2>2, <2>3
  <1>9. sending' \in [Senders -> Sending]
    <2>1. sending' = [s \in Senders |-> sending'[s]]
      BY DEF TieChanges
    <2> QED
      BY <1>8, <2>1
  <1>10. SendersKnown'
    BY <1>8 DEF SendersKnown
  <1>11. ThreadsTypeOK'
    BY <1>1, <1>2, <1>3, <1>9 DEF ThreadsInv, ThreadsTypeOK
  <1> QED
    BY <1>1, <1>10, <1>11, LettersStay DEF ThreadsInv

LEMMA ThTieMoves ==
  ASSUME ThreadsInv, NEW p \in Pupils, TieMoves(p)
  PROVE  ThreadsInv'
  <1>1. tie[p] \in Tie /\ tie[p].booked \in Seq(Advisers) /\ tie[p].active \subseteq Advisers
    BY ThreadsTypes DEF Tie
  <1>2. ASSUME NEW a \in Advisers \union {Nobody},
               TieChanges(p, [tie[p] EXCEPT !.trial = a])
        PROVE  ThreadsInv'
    <2>1. [tie[p] EXCEPT !.trial = a] \in Tie
      BY <1>1 DEF Tie
    <2> QED
      BY <1>2, <2>1, TieChanged
  <1>3. ASSUME NEW S \in SUBSET Advisers, TieChanges(p, [tie[p] EXCEPT !.active = S])
        PROVE  ThreadsInv'
    <2>1. [tie[p] EXCEPT !.active = S] \in Tie
      BY <1>1 DEF Tie
    <2> QED
      BY <1>3, <2>1, TieChanged
  <1>4. ASSUME NEW b \in Seq(Advisers), TieChanges(p, [tie[p] EXCEPT !.booked = b])
        PROVE  ThreadsInv'
    <2>1. [tie[p] EXCEPT !.booked = b] \in Tie
      BY <1>1 DEF Tie
    <2> QED
      BY <1>4, <2>1, TieChanged
  <1>5. ASSUME NEW a \in Advisers, TieChanges(p, [tie[p] EXCEPT !.active =
                                       IF a \in @ THEN @ \ {a} ELSE @ \union {a}])
        PROVE  ThreadsInv'
    <2> DEFINE S == IF a \in tie[p].active THEN tie[p].active \ {a}
                    ELSE tie[p].active \union {a}
    <2>1. S \in SUBSET Advisers
      BY <1>1
    <2>2. TieChanges(p, [tie[p] EXCEPT !.active = S])
      BY <1>5
    <2> HIDE DEF S
    <2> QED
      BY <1>3, <2>1, <2>2
  <1>6. ASSUME NEW a \in Advisers, TieChanges(p, [tie[p] EXCEPT !.booked = Append(@, a)])
        PROVE  ThreadsInv'
    <2>1. Append(tie[p].booked, a) \in Seq(Advisers)
      BY <1>1, AppendProperties
    <2>2. TieChanges(p, [tie[p] EXCEPT !.booked = Append(tie[p].booked, a)])
      BY <1>6
    <2> QED
      BY <1>4, <2>1, <2>2
  <1>7. ASSUME NEW i \in DOMAIN tie[p].booked,
               TieChanges(p, [tie[p] EXCEPT !.booked = Without(@, i)])
        PROVE  ThreadsInv'
    <2>1. Without(tie[p].booked, i) \in Seq(Advisers)
      <3> DEFINE b == tie[p].booked
      <3>1. Len(b) \in Nat /\ i \in 1..Len(b) /\ b \in Seq(Advisers)
        BY <1>1, LenProperties
      <3>2. SubSeq(b, 1, i - 1) \in Seq(Advisers)
        BY <3>1, SubSeqProperties
      <3>3. SubSeq(b, i + 1, Len(b)) \in Seq(Advisers)
        BY <3>1, SubSeqProperties
      <3> QED
        BY <3>2, <3>3, ConcatProperties DEF Without
    <2>2. TieChanges(p, [tie[p] EXCEPT !.booked = Without(tie[p].booked, i)])
      BY <1>7
    <2> QED
      BY <1>4, <2>1, <2>2
  <1> QED
    BY <1>2, <1>5, <1>6, <1>7 DEF TieMoves

\* A step of a request to send that writes no message.
LEMMA SendMoves ==
  ASSUME ThreadsInv, NEW s \in Senders, NEW q \in Sending, SendIs(s, q), SenderKnown(q),
         UNCHANGED <<tie, letters, page, listed, fetched, gap, ties, opens>>
  PROVE  ThreadsInv'
  <1>1. /\ sending' \in [Senders -> Sending] /\ sending'[s] = q
        /\ \A r \in Senders : r # s => sending'[r] = sending[r]
    BY ThreadsTypes DEF SendIs
  <1>2. SendersKnown'
    BY <1>1 DEF ThreadsInv, SendersKnown, SenderKnown
  <1>3. ThreadsTypeOK'
    BY <1>1 DEF ThreadsInv, ThreadsTypeOK
  <1> QED
    BY <1>2, <1>3, LettersStay DEF ThreadsInv

LEMMA ThBegins ==
  ASSUME ThreadsInv, NEW s \in Senders, NEW u \in Users, NEW p \in Pupils,
         NEW a \in Advisers \union {Nobody}, BeginsToSend(s, u, p, a)
  PROVE  ThreadsInv'
  <1> DEFINE H == MyTutors(tie[p])
             F == {tie[p].trial} \ {Nobody}
             q == [pc |-> "active", by |-> u, pupil |-> p, asked |-> a, found |-> F, hers |-> H]
  <1>1. tie[p] \in Tie
    BY ThreadsTypes
  <1>2. H \in SUBSET Advisers /\ F \in SUBSET Advisers /\ F \subseteq H
    BY <1>1, MyTutorsTyped
  <1>3. SendIs(s, q) /\ UNCHANGED <<tie, letters, page, listed, fetched, gap, ties, opens>>
    BY DEF BeginsToSend
  <1>4. H = MyTutors(tie[p])
    OBVIOUS
  <1> HIDE DEF H, F
  <1>5. q \in Sending /\ q.pupil = p /\ q.by = u /\ q.found = F /\ q.hers = H
    BY <1>2 DEF Sending
  <1> HIDE DEF q
  <1>6. SenderKnown(q)
    BY <1>2, <1>4, <1>5 DEF SenderKnown
  <1> QED
    BY <1>3, <1>5, <1>6, SendMoves

\* Whoever is found is a tutor of the student's.
LEMMA Found ==
  ASSUME ThreadsInv, NEW s \in Senders, sending[s].pc # "idle",
         NEW pc \in {"booked", "post"}, NEW F, F \subseteq sending[s].hers,
         SendIs(s, [sending[s] EXCEPT !.pc = pc, !.found = F]),
         UNCHANGED <<tie, letters, page, listed, fetched, gap, ties, opens>>
  PROVE  ThreadsInv'
  <1> DEFINE q == [sending[s] EXCEPT !.pc = pc, !.found = F]
  <1>1. sending[s] \in Sending /\ SenderKnown(sending[s])
    BY ThreadsTypes DEF ThreadsInv, SendersKnown
  <1>2. F \in SUBSET Advisers
    BY <1>1 DEF Sending
  <1>3. /\ q \in Sending /\ q.pupil = sending[s].pupil /\ q.by = sending[s].by
        /\ q.found = F /\ q.hers = sending[s].hers
    BY <1>1, <1>2 DEF Sending
  <1>4. SendIs(s, q)
    OBVIOUS
  <1> HIDE DEF q
  <1>5. SenderKnown(q)
    BY <1>1, <1>3 DEF SenderKnown
  <1> QED
    BY <1>3, <1>4, <1>5, SendMoves

LEMMA ThReadsActive ==
  ASSUME ThreadsInv, NEW s \in Senders, ReadsActive(s)
  PROVE  ThreadsInv'
  <1> DEFINE q == sending[s]
             on == tie[q.pupil].active
  <1>1. q.pc = "active" /\ UNCHANGED <<tie, letters, page, listed, fetched, gap, ties, opens>>
    BY DEF ReadsActive
  <1>2. q.found \subseteq q.hers /\ on \subseteq q.hers
    <2>1. SenderKnown(q) /\ (q.pupil \in Pupils => tie[q.pupil] \in Tie)
      BY ThreadsTypes DEF ThreadsInv, SendersKnown
    <2> QED
      BY <1>1, <2>1, MyTutorsTyped DEF SenderKnown
  <1>3. PICK F \in IF q.asked # Nobody THEN {q.found \union on}
                   ELSE Fallback(q.found, IF on = {} THEN {{}} ELSE {{a} : a \in on}) :
            SendIs(s, [q EXCEPT !.pc = "booked", !.found = F])
    BY DEF ReadsActive
  <1>4. F \subseteq q.hers
    BY <1>2, <1>3 DEF Fallback
  <1> HIDE DEF on
  <1> QED
    BY <1>1, <1>3, <1>4, Found

LEMMA ThReadsBooked ==
  ASSUME ThreadsInv, NEW s \in Senders, ReadsBooked(s)
  PROVE  ThreadsInv'
  <1> DEFINE q == sending[s]
             b == tie[q.pupil].booked
  <1>1. q.pc = "booked" /\ UNCHANGED <<tie, letters, page, listed, fetched, gap, ties, opens>>
    BY DEF ReadsBooked
  <1>2. /\ q.found \subseteq q.hers /\ Booked(q.pupil) \subseteq q.hers
        /\ b \in Seq(Advisers) /\ \A i \in DOMAIN b : b[i] \in q.hers
    <2>1. SenderKnown(q) /\ (q.pupil \in Pupils => tie[q.pupil] \in Tie)
      BY ThreadsTypes DEF ThreadsInv, SendersKnown
    <2>2. tie[q.pupil] \in Tie /\ q.found \subseteq q.hers /\ MyTutors(tie[q.pupil]) \subseteq q.hers
      BY <1>1, <2>1 DEF SenderKnown
    <2>3. b \in Seq(Advisers)
      BY <2>2 DEF Tie
    <2> QED
      BY <2>2, <2>3, MyTutorsTyped DEF Booked
  <1>3. PICK F \in IF q.asked # Nobody THEN {q.found \union Booked(q.pupil)}
                   ELSE Fallback(q.found, {LastOf(b)}) :
            SendIs(s, [q EXCEPT !.pc = "post", !.found = F])
    BY DEF ReadsBooked
  <1>4. LastOf(b) \subseteq q.hers
    <2>1. b # <<>> => Len(b) \in DOMAIN b
      BY <1>2, EmptySeq, LenProperties
    <2> QED
      BY <1>2, <2>1 DEF LastOf
  <1>5. F \subseteq q.hers
    BY <1>2, <1>3, <1>4 DEF Fallback
  <1> HIDE DEF b
  <1> QED
    BY <1>1, <1>3, <1>5, Found

LEMMA ThPosts ==
  ASSUME ThreadsInv, NEW s \in Senders, PostsMessage(s)
  PROVE  ThreadsInv'
  <1> DEFINE q == sending[s]
             m == [pupil |-> q.pupil, tutor |-> CHOOSE a \in Receiver(q) : TRUE,
                   sender |-> q.by, read |-> FALSE]
             n == Len(letters) + 1
  <1>1. q.pc = "post" /\ SendIs(s, NoSending)
        /\ UNCHANGED <<tie, page, listed, fetched, ties, opens>>
    BY DEF PostsMessage
  <1>2. SenderKnown(NoSending)
    BY NoSendingTyped DEF SenderKnown
  <1>3. CASE UNCHANGED <<letters, gap>>
    BY <1>1, <1>2, <1>3, NoSendingTyped, SendMoves
  <1>4. CASE ~ (Receiver(q) = {} \/ Len(letters) = MaxLetters)
    <2>1. letters' = Append(letters, m)
      BY <1>4 DEF PostsMessage
    <2>2. gap' = IF \E u \in Users \ {q.by} : page[u].open /\ InThread(u, page[u].with, m)
                 THEN gap \union {n} ELSE gap
      BY <1>4 DEF PostsMessage
    <2>3. m \in Letter /\ m.read = FALSE /\ m.sender = q.by
      <3>1. q \in Sending /\ SenderKnown(q)
        BY ThreadsTypes DEF ThreadsInv, SendersKnown
      <3>2. (CHOOSE a \in Receiver(q) : TRUE) \in Receiver(q)
        BY <1>4
      <3>3. Receiver(q) \subseteq Advisers
        BY <3>1, ThreadsBounds DEF Receiver, Sending
      <3> QED
        BY <1>1, <3>1, <3>2, <3>3 DEF Letter, SenderKnown
    <2> HIDE DEF m
    <2>4. /\ Len(letters) \in Nat /\ Len(letters) < MaxLetters /\ MaxLetters \in Nat
          /\ letters \in Seq(Letter) /\ n \in 1..MaxLetters
      <3>1. Len(letters) \in 0..MaxLetters /\ letters \in Seq(Letter)
        BY ThreadsTypes
      <3>2. Len(letters) # MaxLetters
        BY <1>4
      <3> QED
        BY <3>1, <3>2, ThreadsBounds
    <2>5. /\ letters' \in Seq(Letter) /\ Len(letters') = n /\ letters'[n] = m
          /\ \A i \in 1..Len(letters) : letters'[i] = letters[i]
      BY <2>1, <2>3, <2>4, AppendProperties
    <2>6. DOMAIN letters' = 1..n /\ DOMAIN letters = 1..Len(letters)
      BY <2>4, <2>5, LenProperties
    <2>7. \A i \in 1..n : i = n \/ i \in 1..Len(letters)
      BY <2>4
    <2>8. gap \subseteq gap' /\ gap' \subseteq 1..MaxLetters
      BY <2>2, <2>4, ThreadsTypes
    <2> HIDE DEF n
    <2>9. PagesFetched'
      <3> SUFFICES ASSUME NEW u \in Users, page[u].open, NEW i \in 1..n,
                          IsFor(u, page[u].with, letters'[i])
                   PROVE  i \in fetched \union gap'
        BY <1>1, <2>6 DEF PagesFetched, IsFor, InThread
      <3>1. CASE i = n
        <4>1. u # q.by /\ InThread(u, page[u].with, m)
          BY <2>3, <2>5, <3>1 DEF IsFor
        <4> QED
          BY <2>2, <3>1, <4>1
      <3>2. CASE i \in 1..Len(letters)
        BY <2>5, <2>6, <2>8, <3>2 DEF ThreadsInv, PagesFetched
      <3> QED
        BY <2>7, <3>1, <3>2
    <2>10. ReadWasFetched'
      BY <1>1, <2>3, <2>5, <2>6, <2>7, <2>8 DEF ThreadsInv, ReadWasFetched
    <2>11. \A i \in 1..listed.upto : listed.pc \in {"asked", "shown"} =>
             i \in 1..Len(letters) /\ letters'[i] = letters[i]
      <3>1. listed.pc \in {"asked", "shown"} => listed.upto <= Len(letters)
        BY DEF ThreadsInv, ListFits
      <3>2. listed.upto \in Nat
        BY ThreadsBounds DEF ThreadsInv, ThreadsTypeOK
      <3> QED
        BY <2>4, <2>5, <3>1, <3>2
    <2>12. ListFits' /\ ListCounts'
      <3>1. listed.upto <= Len(letters) => listed.upto <= n
        <4>1. listed.upto \in Nat
          BY ThreadsBounds DEF ThreadsInv, ThreadsTypeOK
        <4> QED
          BY <2>4, <4>1 DEF n
      <3>2. listed' = listed
        BY <1>1
      <3>3. ListFits'
        BY <2>5, <2>11, <3>1, <3>2 DEF ThreadsInv, ListFits, IsFor, InThread
      <3>4. listed.pc = "shown" => \A i \in listed.waiting : letters'[i] = letters[i]
        BY <2>11 DEF ThreadsInv, ListFits
      <3>5. ListCounts'
        BY <3>2, <3>4 DEF ThreadsInv, ListCounts
      <3> QED
        BY <3>3, <3>5
    <2>13. /\ sending' \in [Senders -> Sending] /\ sending'[s] = NoSending
           /\ \A r \in Senders : r # s => sending'[r] = sending[r]
      BY <1>1, ThreadsTypes, NoSendingTyped DEF SendIs
    <2>14. SendersKnown'
      BY <1>1, <2>13, NoSendingTyped DEF ThreadsInv, SendersKnown, SenderKnown
    <2>15. ThreadsTypeOK' /\ Len(letters') <= MaxLetters
      BY <1>1, <2>4, <2>5, <2>8, <2>13 DEF ThreadsInv, ThreadsTypeOK, Letter
    <2> QED
      BY <2>9, <2>10, <2>12, <2>14, <2>15 DEF ThreadsInv
  <1> QED
    BY <1>3, <1>4 DEF PostsMessage

LEMMA ThOpens ==
  ASSUME ThreadsInv, NEW u \in Users, NEW w \in Users \union {Nobody}, OpensThread(u, w)
  PROVE  ThreadsInv'
  <1> DEFINE new == {i \in DOMAIN letters : letters[i].sender # u /\ InThread(u, w, letters[i])}
             v == [open |-> TRUE, with |-> w, upto |-> Len(letters)]
  <1>1. /\ opens < MaxOpens /\ opens' = opens + 1 /\ page' = [page EXCEPT ![u] = v]
        /\ fetched' = fetched \union new
        /\ UNCHANGED <<tie, letters, sending, listed, gap, ties>>
    BY DEF OpensThread
  <1>2. opens' \in 0..MaxOpens
    BY <1>1, ThreadsBounds DEF ThreadsInv, ThreadsTypeOK
  <1>3. /\ page' \in [Users -> [open: BOOLEAN, with: Users \union {Nobody}, upto: 0..MaxLetters]]
        /\ page'[u] = v /\ \A y \in Users : y # u => page'[y] = page[y]
    BY <1>1, ThreadsTypes
  <1>4. fetched' \subseteq 1..MaxLetters /\ fetched \subseteq fetched'
    BY <1>1, ThreadsTypes
  <1>5. PagesFetched'
    <2> SUFFICES ASSUME NEW y \in Users, page'[y].open, NEW i \in DOMAIN letters,
                        IsFor(y, page'[y].with, letters[i])
                 PROVE  i \in fetched' \union gap
      BY <1>1 DEF PagesFetched, IsFor, InThread
    <2>1. CASE y = u
      BY <1>1, <1>3, <2>1 DEF IsFor
    <2>2. CASE y # u
      BY <1>3, <1>4, <2>2 DEF ThreadsInv, PagesFetched
    <2> QED
      BY <2>1, <2>2
  <1>6. ReadWasFetched'
    BY <1>1, <1>4 DEF ThreadsInv, ReadWasFetched
  <1>7. ListFits' /\ ListCounts' /\ SendersKnown'
    BY <1>1 DEF ThreadsInv, ListFits, IsFor, InThread, ListCounts, SendersKnown, SenderKnown
  <1>8. ThreadsTypeOK' /\ Len(letters') <= MaxLetters
    BY <1>1, <1>2, <1>3, <1>4 DEF ThreadsInv, ThreadsTypeOK
  <1> QED
    BY <1>5, <1>6, <1>7, <1>8 DEF ThreadsInv

\* A page is closed; what it held may have been read.
LEMMA ThCloses ==
  ASSUME ThreadsInv, NEW u \in Users, MarksAsRead(u) \/ LeavesThread(u)
  PROVE  ThreadsInv'
  <1>1. /\ page[u].open /\ page' = [page EXCEPT ![u] = NoPage]
        /\ UNCHANGED <<tie, sending, listed, fetched, gap, ties, opens>>
    BY DEF MarksAsRead, LeavesThread
  <1>2. /\ page' \in [Users -> [open: BOOLEAN, with: Users \union {Nobody}, upto: 0..MaxLetters]]
        /\ page'[u].open = FALSE /\ \A y \in Users : y # u => page'[y] = page[y]
    <2>1. NoPage \in [open: BOOLEAN, with: Users \union {Nobody}, upto: 0..MaxLetters]
          /\ NoPage.open = FALSE
      BY ThreadsBounds DEF NoPage
    <2> QED
      BY <1>1, <2>1, ThreadsTypes
  <1>3. \A i \in DOMAIN letters : letters[i] \in Letter
    BY ThreadsTypes
  <1>4. /\ DOMAIN letters' = DOMAIN letters /\ letters' \in Seq(Letter)
        /\ Len(letters') = Len(letters)
        /\ \A i \in DOMAIN letters :
             /\ letters'[i].pupil = letters[i].pupil /\ letters'[i].tutor = letters[i].tutor
             /\ letters'[i].sender = letters[i].sender
             /\ letters[i].read => letters'[i].read
             /\ letters'[i].read => letters[i].read \/ IsFor(u, page[u].with, letters[i])
    <2>1. CASE LeavesThread(u)
      <3>1. letters' = letters
        BY <2>1 DEF LeavesThread
      <3> QED
        BY <3>1, ThreadsTypes
    <2>2. CASE MarksAsRead(u)
      <3>1. letters' = [i \in DOMAIN letters |->
                          IF i \in UnreadIn(u, page[u].with)
                          THEN [letters[i] EXCEPT !.read = TRUE] ELSE letters[i]]
        BY <2>2 DEF MarksAsRead
      <3>2. DOMAIN letters' = 1..Len(letters) /\ Len(letters) \in Nat
            /\ DOMAIN letters = 1..Len(letters)
        BY <3>1, ThreadsTypes
      <3>3. ASSUME NEW i \in DOMAIN letters
            PROVE  /\ letters'[i] \in Letter
                   /\ letters'[i].pupil = letters[i].pupil
                   /\ letters'[i].tutor = letters[i].tutor
                   /\ letters'[i].sender = letters[i].sender
                   /\ letters[i].read => letters'[i].read
                   /\ letters'[i].read => letters[i].read \/ IsFor(u, page[u].with, letters[i])
        <4>1. CASE i \in UnreadIn(u, page[u].with)
          <5>1. letters'[i] = [letters[i] EXCEPT !.read = TRUE]
            BY <3>1, <4>1
          <5>2. IsFor(u, page[u].with, letters[i])
            BY <4>1 DEF UnreadIn, IsFor
          <5> QED
            BY <1>3, <5>1, <5>2 DEF Letter
        <4>2. CASE i \notin UnreadIn(u, page[u].with)
          <5>1. letters'[i] = letters[i]
            BY <3>1, <4>2
          <5> QED
            BY <1>3, <5>1
        <4> QED
          BY <4>1, <4>2
      <3>4. letters' \in Seq(Letter) /\ Len(letters') = Len(letters)
        <4>1. letters' \in [1..Len(letters) -> Letter]
          BY <3>1, <3>2, <3>3
        <4>2. letters' \in Seq(Letter)
          BY <3>2, <4>1 DEF Seq
        <4> QED
          BY <3>2, <4>2, LenProperties
      <3> QED
        BY <3>2, <3>3, <3>4
    <2> QED
      BY <2>1, <2>2
  <1>5. \A y \in Users, w \in Users \union {Nobody}, i \in DOMAIN letters :
          IsFor(y, w, letters[i])' <=> IsFor(y, w, letters[i])
    BY <1>4 DEF IsFor, InThread
  <1>6. PagesFetched'
    <2> SUFFICES ASSUME NEW y \in Users, page'[y].open, NEW i \in DOMAIN letters,
                        IsFor(y, page[y].with, letters[i])'
                 PROVE  i \in fetched \union gap
      BY <1>1, <1>4 DEF PagesFetched
    <2>1. y # u /\ page'[y] = page[y] /\ page[y].with \in Users \union {Nobody}
      BY <1>2, ThreadsTypes
    <2>2. IsFor(y, page[y].with, letters[i])
      BY <1>4, <2>1 DEF IsFor, InThread
    <2> QED
      BY <2>1, <2>2 DEF ThreadsInv, PagesFetched
  <1>7. ReadWasFetched'
    <2>1. ASSUME NEW i \in DOMAIN letters, letters'[i].read PROVE i \in fetched \union gap
      <3>1. CASE letters[i].read
        BY <3>1 DEF ThreadsInv, ReadWasFetched
      <3>2. CASE IsFor(u, page[u].with, letters[i])
        BY <1>1, <3>2 DEF ThreadsInv, PagesFetched
      <3> QED
        BY <1>4, <2>1, <3>1, <3>2
    <2> QED
      BY <1>1, <1>4, <2>1 DEF ReadWasFetched
  <1>8. ListFits'
    <2> SUFFICES ASSUME listed.pc \in {"asked", "shown"} PROVE ListFits'
      BY <1>1 DEF ListFits
    <2>1. /\ listed.by \in Advisers /\ listed.upto <= Len(letters)
          /\ listed.waiting \subseteq 1..listed.upto
          /\ \A i \in listed.waiting :
               IsFor(listed.by, Nobody, letters[i]) /\ letters[i].pupil \in listed.pupils
          /\ \A i \in 1..listed.upto :
               IsFor(listed.by, Nobody, letters[i]) /\ ~ letters[i].read => i \in listed.waiting
      BY DEF ThreadsInv, ListFits
    <2>2. \A i \in 1..listed.upto : i \in DOMAIN letters
      <3>1. listed.upto \in Nat
        BY ThreadsBounds DEF ThreadsInv, ThreadsTypeOK
      <3>2. Len(letters) \in Nat /\ DOMAIN letters = 1..Len(letters)
        BY ThreadsTypes
      <3> QED
        BY <2>1, <3>1, <3>2
    <2>3. \A i \in 1..listed.upto :
            /\ IsFor(listed.by, Nobody, letters[i])' <=> IsFor(listed.by, Nobody, letters[i])
            /\ letters'[i].pupil = letters[i].pupil
            /\ letters[i].read => letters'[i].read
      BY <1>1, <1>4, <2>2 DEF IsFor, InThread
    <2> QED
      BY <1>1, <1>4, <2>1, <2>3 DEF ListFits
  <1>9. ListCounts'
    <2> SUFFICES ASSUME listed.pc = "shown" PROVE ListCounts'
      BY <1>1 DEF ListCounts
    <2>1. \A i \in listed.waiting : i \in DOMAIN letters
      <3>1. listed.upto \in Nat
        BY ThreadsBounds DEF ThreadsInv, ThreadsTypeOK
      <3>2. Len(letters) \in Nat /\ DOMAIN letters = 1..Len(letters)
        BY ThreadsTypes
      <3>3. listed.upto <= Len(letters) /\ listed.waiting \subseteq 1..listed.upto
        BY DEF ThreadsInv, ListFits
      <3> QED
        BY <3>1, <3>2, <3>3
    <2> QED
      BY <1>1, <1>4, <2>1 DEF ThreadsInv, ListCounts
  <1>10. SendersKnown'
    BY <1>1, SendersStay
  <1>11. ThreadsTypeOK' /\ Len(letters') <= MaxLetters
    BY <1>1, <1>2, <1>4 DEF ThreadsInv, ThreadsTypeOK, Letter
  <1> QED
    BY <1>6, <1>7, <1>8, <1>9, <1>10, <1>11 DEF ThreadsInv

ListRow == [pc: {"none", "asked", "shown"}, by: Advisers \union {Nobody},
            pupils: SUBSET Pupils, waiting: SUBSET (1..MaxLetters),
            upto: 0..MaxLetters, unread: SUBSET (1..MaxLetters)]

LEMMA ThAsks ==
  ASSUME ThreadsInv, NEW a \in Advisers, AsksConversations(a)
  PROVE  ThreadsInv'
  <1> DEFINE P == {p \in Pupils : \E i \in DOMAIN letters :
                                    letters[i].tutor = a /\ letters[i].pupil = p}
             W == UnreadIn(a, Nobody)
  <1>1. /\ opens < MaxOpens /\ opens' = opens + 1
        /\ UNCHANGED <<tie, letters, sending, page, fetched, gap, ties>>
        /\ listed' = [NoList EXCEPT !.pc = "asked", !.by = a, !.upto = Len(letters),
                                    !.pupils = P, !.waiting = W]
    BY DEF AsksConversations
  <1>2. opens' \in 0..MaxOpens
    BY <1>1, ThreadsBounds DEF ThreadsInv, ThreadsTypeOK
  <1>3. W \subseteq DOMAIN letters
        /\ \A i \in W : IsFor(a, Nobody, letters[i]) /\ letters[i].pupil \in P
    <2>1. ASSUME NEW i \in W PROVE IsFor(a, Nobody, letters[i]) /\ letters[i].pupil \in P
      <3>1. i \in DOMAIN letters /\ IsFor(a, Nobody, letters[i]) /\ letters[i] \in Letter
        BY ThreadsTypes DEF UnreadIn, IsFor
      <3>2. letters[i].tutor = a /\ letters[i].pupil \in Pupils
        BY <3>1, ThreadsBounds DEF IsFor, InThread, Letter
      <3> QED
        BY <3>1, <3>2
    <2> QED
      BY <2>1 DEF UnreadIn
  <1>4. \A i \in DOMAIN letters : IsFor(a, Nobody, letters[i]) /\ ~ letters[i].read => i \in W
    BY DEF UnreadIn, IsFor
  <1>5. W \subseteq 1..MaxLetters /\ P \subseteq Pupils /\ Len(letters) \in 0..MaxLetters
        /\ DOMAIN letters = 1..Len(letters)
    BY <1>3, ThreadsTypes
  <1> HIDE DEF W, P
  <1>6. /\ listed' \in ListRow /\ listed'.pc = "asked" /\ listed'.by = a
        /\ listed'.upto = Len(letters) /\ listed'.pupils = P /\ listed'.waiting = W
    BY <1>1, <1>5, ThreadsBounds DEF NoList, ListRow
  <1>7. ListFits'
    <2>1. Len(letters) <= Len(letters)
      BY <1>5
    <2> QED
      BY <1>1, <1>3, <1>4, <1>5, <1>6, <2>1 DEF ListFits, IsFor, InThread
  <1>8. ListCounts'
    BY <1>6 DEF ListCounts
  <1>9. PagesFetched' /\ ReadWasFetched' /\ SendersKnown'
    BY <1>1 DEF ThreadsInv, PagesFetched, IsFor, InThread, ReadWasFetched, SendersKnown,
       SenderKnown
  <1>10. ThreadsTypeOK' /\ Len(letters') <= MaxLetters
    BY <1>1, <1>2, <1>6 DEF ThreadsInv, ThreadsTypeOK, ListRow
  <1> QED
    BY <1>7, <1>8, <1>9, <1>10 DEF ThreadsInv

LEMMA ThShows ==
  ASSUME ThreadsInv, ShowsConversations
  PROVE  ThreadsInv'
  <1> DEFINE R == {i \in UnreadIn(listed.by, Nobody) : letters[i].pupil \in listed.pupils}
  <1>1. /\ listed.pc = "asked" /\ listed' = [listed EXCEPT !.pc = "shown", !.unread = R]
        /\ UNCHANGED <<tie, letters, sending, page, fetched, gap, ties, opens>>
    BY DEF ShowsConversations
  <1>2. R \subseteq 1..MaxLetters /\ R \subseteq DOMAIN letters
    BY ThreadsTypes DEF UnreadIn
  <1>3. listed \in ListRow /\ DOMAIN letters = 1..Len(letters) /\ Len(letters) \in Nat
    BY ThreadsTypes DEF ThreadsInv, ThreadsTypeOK, ListRow
  <1>4. /\ listed.by \in Advisers /\ listed.upto <= Len(letters)
        /\ listed.waiting \subseteq 1..listed.upto
        /\ \A i \in listed.waiting :
             IsFor(listed.by, Nobody, letters[i]) /\ letters[i].pupil \in listed.pupils
        /\ \A i \in 1..listed.upto :
             IsFor(listed.by, Nobody, letters[i]) /\ ~ letters[i].read => i \in listed.waiting
    BY <1>1 DEF ThreadsInv, ListFits
  <1>5. \A i \in listed.waiting : ~ letters[i].read => i \in R
    <2>1. \A i \in listed.waiting : i \in DOMAIN letters
      <3>1. listed.upto \in Nat
        BY <1>3, ThreadsBounds DEF ListRow
      <3> QED
        BY <1>3, <1>4, <3>1
    <2> QED
      BY <1>4, <2>1 DEF UnreadIn, IsFor
  <1>6. \A i \in R : i <= listed.upto => i \in listed.waiting
    <2>1. listed.upto \in Nat
      BY <1>3, ThreadsBounds DEF ListRow
    <2>2. \A i \in R : i \in 1..Len(letters) /\ (i <= listed.upto => i \in 1..listed.upto)
      BY <1>2, <1>3, <2>1
    <2>3. \A i \in R : IsFor(listed.by, Nobody, letters[i]) /\ ~ letters[i].read
      BY DEF UnreadIn, IsFor
    <2> QED
      BY <1>4, <2>2, <2>3
  <1> HIDE DEF R
  <1>7. /\ listed' \in ListRow /\ listed'.pc = "shown" /\ listed'.by = listed.by
        /\ listed'.upto = listed.upto /\ listed'.pupils = listed.pupils
        /\ listed'.waiting = listed.waiting /\ listed'.unread = R
    BY <1>1, <1>2, <1>3 DEF ListRow
  <1>8. ListFits'
    BY <1>1, <1>4, <1>7 DEF ListFits, IsFor, InThread
  <1>9. ListCounts'
    BY <1>1, <1>5, <1>6, <1>7 DEF ListCounts
  <1>10. PagesFetched' /\ ReadWasFetched' /\ SendersKnown'
    BY <1>1 DEF ThreadsInv, PagesFetched, IsFor, InThread, ReadWasFetched, SendersKnown,
       SenderKnown
  <1>11. ThreadsTypeOK' /\ Len(letters') <= MaxLetters
    BY <1>1, <1>7 DEF ThreadsInv, ThreadsTypeOK, ListRow
  <1> QED
    BY <1>8, <1>9, <1>10, <1>11 DEF ThreadsInv

LEMMA ThreadsContinue ==
  ASSUME ThreadsInv, [ThreadsNext]_threadsVars
  PROVE  ThreadsInv'
  <1>1. CASE UNCHANGED threadsVars
    <2>1. UNCHANGED <<tie, letters, sending, page, listed, fetched, gap, ties, opens>>
      BY <1>1 DEF threadsVars
    <2>2. ThreadsTypeOK'
      BY <2>1 DEF ThreadsInv, ThreadsTypeOK
    <2> QED
      BY <2>1, <2>2, LettersStay, SendersStay DEF ThreadsInv
  <1>2. ASSUME NEW p \in Pupils, TieMoves(p) PROVE ThreadsInv'
    BY <1>2, ThTieMoves
  <1>3. ASSUME NEW s \in Senders, NEW u \in Users, NEW p \in Pupils,
               NEW a \in Advisers \union {Nobody}, BeginsToSend(s, u, p, a)
        PROVE  ThreadsInv'
    BY <1>3, ThBegins
  <1>4. ASSUME NEW s \in Senders, ReadsActive(s) \/ ReadsBooked(s) \/ PostsMessage(s)
        PROVE  ThreadsInv'
    BY <1>4, ThReadsActive, ThReadsBooked, ThPosts
  <1>5. ASSUME NEW u \in Users, NEW w \in Users \union {Nobody}, OpensThread(u, w)
        PROVE  ThreadsInv'
    BY <1>5, ThOpens
  <1>6. ASSUME NEW u \in Users, MarksAsRead(u) \/ LeavesThread(u) PROVE ThreadsInv'
    BY <1>6, ThCloses
  <1>7. ASSUME NEW a \in Advisers, AsksConversations(a) PROVE ThreadsInv'
    BY <1>7, ThAsks
  <1> QED
    BY <1>1, <1>2, <1>3, <1>4, <1>5, <1>6, <1>7, ThShows DEF ThreadsNext

LEMMA ThreadsHold == ThreadsSpec => []ThreadsInv
  BY ThreadsBegin, ThreadsContinue, PTL DEF ThreadsSpec

\* The ties, the messages and the pages keep their types.
THEOREM ThreadsTyped == ThreadsSpec => []ThreadsTypeOK
  <1>1. ThreadsInv => ThreadsTypeOK
    BY DEF ThreadsInv
  <1> QED
    BY <1>1, ThreadsHold, PTL

\* A message on its way is between people who belonged together, nothing is marked
\* as read that its receiver has not fetched or that came after she did, and a list
\* of conversations counts what waited.
THEOREM MessagesDo == ThreadsSpec => []MessagesArrive
  <1>1. ThreadsInv => MessagesArrive
    <2> SUFFICES ASSUME ThreadsInv PROVE MessagesArrive
      OBVIOUS
    <2>1. ASSUME NEW s \in Senders, sending[s].pc = "post"
          PROVE  Receiver(sending[s]) \subseteq sending[s].hers
      <3>1. sending[s].found \subseteq sending[s].hers
        BY <2>1 DEF ThreadsInv, SendersKnown, SenderKnown
      <3> QED
        BY <3>1 DEF Receiver
    <2> QED
      BY <2>1 DEF ThreadsInv, MessagesArrive, GoesToHers
  <1> QED
    BY <1>1, ThreadsHold, PTL

-----------------------------------------------------------------------------
(* Part 5: the article.  Unless changes have crossed, the newest version is  *)
(* the article or somebody is about to add it; the public list shows it or   *)
(* somebody is about to clear the cache.                                     *)

DraftKnown(q) ==
    /\ q.pc = "version" => q.text \in Texts
    /\ q.pc = "write" /\ q.to = "PUBLISHED" => q.who = "admin"
    /\ q.pc = "keep" /\ ~ q.old => q.text = Shown
DraftsKnown == \A e \in Editors : DraftKnown(draft[e])

VersionsKept == ~ jumbled /\ blog.exists =>
    /\ \A e \in Editors : draft[e].pc = "version" => draft[e].text = blog.text
    /\ \/ \E e \in Editors : draft[e].pc \in {"delete", "version"}
       \/ versions # <<>> /\ versions[Len(versions)] = blog.text

FirstAlone == changes = 0 => \A e \in Editors : draft[e].pc \in {"idle", "keep"}

Clearing(q) == q.pc = "clear" \/ (q.pc = "version" /\ blog.exists)
ShelfCurrent == shelf.kept /\ ~ shelf.old =>
    shelf.shows = Shown \/ \E e \in Editors : Clearing(draft[e])

BlogsInv ==
    /\ BlogsTypeOK /\ (blog.exists => blog.text \in Texts)
    /\ DraftsKnown /\ VersionsKept /\ ShelfCurrent /\ PublishedByAdmin /\ FirstAlone

BlogRow == [exists: BOOLEAN, status: BlogStatus, text: Texts \union {NoText}, author: Writers]
ShelfRow == [kept: BOOLEAN, shows: Texts \union {NoText}, old: BOOLEAN]

LEMMA NoDraftTyped ==
  NoDraft \in Draft /\ NoDraft.pc = "idle" /\ NoDraft.old = FALSE /\ NoDraft.to = "same"
  BY DEF NoDraft, Draft, Writers

LEMMA BlogsTypes ==
  ASSUME BlogsInv
  PROVE  /\ blog \in BlogRow /\ versions \in Seq(Texts) /\ shelf \in ShelfRow
         /\ draft \in [Editors -> Draft] /\ \A e \in Editors : draft[e] \in Draft
         /\ approved \in BOOLEAN /\ jumbled \in BOOLEAN
         /\ changes \in 0..MaxChanges /\ lists \in 0..MaxLists /\ breaks \in 0..MaxBreaks
         /\ MaxChanges \in Nat /\ MaxLists \in Nat /\ MaxBreaks \in Nat
  BY BlogsAssumption DEF BlogsInv, BlogsTypeOK, BlogRow, ShelfRow

LEMMA BlogsTypesMake ==
  ASSUME /\ blog \in BlogRow /\ versions \in Seq(Texts) /\ shelf \in ShelfRow
         /\ draft \in [Editors -> Draft]
         /\ approved \in BOOLEAN /\ jumbled \in BOOLEAN
         /\ changes \in 0..MaxChanges /\ lists \in 0..MaxLists /\ breaks \in 0..MaxBreaks
  PROVE  BlogsTypeOK
  BY DEF BlogsTypeOK, BlogRow, ShelfRow

LEMMA BlogsBegin == BlogsInit => BlogsInv
  <1> SUFFICES ASSUME BlogsInit PROVE BlogsInv
    OBVIOUS
  <1>1. \A e \in Editors : draft[e] = NoDraft
    BY DEF BlogsInit
  <1>2. ~ blog.exists /\ ~ shelf.kept
    BY DEF BlogsInit, NoBlog, EmptyShelf
  <1>3. blog \in BlogRow /\ shelf \in ShelfRow
    BY DEF BlogsInit, NoBlog, EmptyShelf, BlogRow, ShelfRow, BlogStatus, Writers
  <1>4. draft \in [Editors -> Draft] /\ versions \in Seq(Texts)
    BY NoDraftTyped, EmptySeq DEF BlogsInit
  <1>5. changes \in 0..MaxChanges /\ lists \in 0..MaxLists /\ breaks \in 0..MaxBreaks
    BY BlogsAssumption DEF BlogsInit
  <1>6. approved \in BOOLEAN /\ jumbled \in BOOLEAN
    BY DEF BlogsInit
  <1>7. BlogsTypeOK
    BY <1>3, <1>4, <1>5, <1>6 DEF BlogsTypeOK, BlogRow, ShelfRow
  <1>8. DraftsKnown
    BY <1>1, NoDraftTyped DEF DraftsKnown, DraftKnown
  <1>9. VersionsKept /\ ShelfCurrent /\ PublishedByAdmin /\ FirstAlone
    BY <1>1, <1>2, NoDraftTyped DEF VersionsKept, ShelfCurrent, PublishedByAdmin, FirstAlone
  <1> QED
    BY <1>2, <1>7, <1>8, <1>9 DEF BlogsInv

\* One request takes a step; the others keep theirs, but for lists that are now old.
OneDraft(e, q) == /\ draft' \in [Editors -> Draft] /\ draft'[e] = q
                  /\ \A d \in Editors : d # e => draft'[d] = draft[d]
Outdates(e, q) ==
    /\ draft' \in [Editors -> Draft] /\ draft'[e] = q
    /\ \A d \in Editors : d # e =>
         /\ draft'[d].pc = draft[d].pc /\ draft'[d].text = draft[d].text
         /\ draft'[d].to = draft[d].to /\ draft'[d].who = draft[d].who
         /\ draft'[d].pc = "keep" => draft'[d].old

LEMMA DraftMoves ==
  ASSUME BlogsInv, NEW e \in Editors, NEW q \in Draft, DraftIs(e, q)
  PROVE  OneDraft(e, q)
  BY BlogsTypes DEF DraftIs, OneDraft

LEMMA DraftsAge ==
  ASSUME BlogsInv, NEW e \in Editors, NEW q \in Draft, Outdated(e, q)
  PROVE  Outdates(e, q)
  <1>1. draft' = [d \in Editors |->
                   IF d = e THEN q ELSE [draft[d] EXCEPT !.old = draft[d].pc = "keep"]]
    BY DEF Outdated
  <1>2. ASSUME NEW d \in Editors, d # e
        PROVE  /\ draft'[d] \in Draft
               /\ draft'[d].pc = draft[d].pc /\ draft'[d].text = draft[d].text
               /\ draft'[d].to = draft[d].to /\ draft'[d].who = draft[d].who
               /\ draft'[d].pc = "keep" => draft'[d].old
    <2>1. PICK b \in BOOLEAN : b = (draft[d].pc = "keep")
      OBVIOUS
    <2>2. draft'[d] = [draft[d] EXCEPT !.old = b] /\ draft[d] \in Draft
      BY <1>1, <1>2, <2>1, BlogsTypes
    <2>3. /\ draft'[d] \in Draft
          /\ draft'[d].pc = draft[d].pc /\ draft'[d].text = draft[d].text
          /\ draft'[d].to = draft[d].to /\ draft'[d].who = draft[d].who
          /\ draft'[d].old = b
      BY <2>2 DEF Draft
    <2> QED
      BY <2>1, <2>3
  <1>3. draft'[e] = q
    BY <1>1
  <1>4. draft' \in [Editors -> Draft]
    <2>1. \A d \in Editors : draft'[d] \in Draft
      BY <1>2, <1>3
    <2> QED
      BY <1>1, <2>1
  <1> QED
    BY <1>2, <1>3, <1>4 DEF Outdates

\* The article is written by request e, which then adds a version or clears the cache.
LEMMA Written ==
  ASSUME BlogsInv, NEW e \in Editors, NEW q \in Draft, Outdates(e, q),
         q.pc \in {"version", "clear"}, blog' \in BlogRow, blog'.exists,
         blog'.text \in Texts, q.pc = "version" => q.text = blog'.text,
         \/ blog'.text = blog.text /\ blog.exists /\ draft[e].pc \notin {"delete", "version"}
            /\ (~ jumbled' => ~ jumbled)
         \/ q.pc = "version"
            /\ (~ jumbled' => ~ \E d \in Editors \ {e} : draft[d].pc = "version"),
         UNCHANGED <<versions, shelf>>
  PROVE  DraftsKnown' /\ VersionsKept' /\ ShelfCurrent'
  <1>1. ASSUME NEW d \in Editors PROVE DraftKnown(draft[d])'
    <2>1. CASE d = e
      BY <2>1 DEF Outdates, DraftKnown
    <2>2. CASE d # e
      BY <2>2 DEF Outdates, DraftKnown, BlogsInv, DraftsKnown
    <2> QED
      BY <2>1, <2>2
  <1>2. DraftsKnown'
    BY <1>1 DEF DraftsKnown
  <1>3. VersionsKept'
    <2> SUFFICES ASSUME ~ jumbled' PROVE VersionsKept'
      BY DEF VersionsKept
    <2>1. CASE q.pc = "version" /\ ~ \E d \in Editors \ {e} : draft[d].pc = "version"
      BY <2>1 DEF VersionsKept, Outdates
    <2>2. CASE blog'.text = blog.text /\ blog.exists /\ draft[e].pc \notin {"delete", "version"}
               /\ ~ jumbled
      BY <2>2 DEF BlogsInv, VersionsKept, Outdates
    <2> QED
      BY <2>1, <2>2
  <1>4. Clearing(draft[e])'
    BY DEF Clearing, Outdates
  <1>5. ShelfCurrent'
    BY <1>4 DEF ShelfCurrent
  <1> QED
    BY <1>2, <1>3, <1>5

\* A step that leaves the article and its versions alone.
LEMMA DraftOnly ==
  ASSUME BlogsInv, NEW e \in Editors, NEW q \in Draft, OneDraft(e, q),
         DraftKnown(q), q.pc # "version", draft[e].pc \notin {"version", "delete"},
         UNCHANGED <<blog, versions, jumbled, approved>>
  PROVE  /\ DraftsKnown' /\ VersionsKept' /\ PublishedByAdmin'
         /\ (shelf' = shelf /\ draft[e].pc # "clear" => ShelfCurrent')
  <1>1. Shown' = Shown
    BY DEF Shown
  <1>2. ASSUME NEW d \in Editors PROVE DraftKnown(draft[d])'
    <2>1. CASE d = e
      BY <1>1, <2>1 DEF OneDraft, DraftKnown
    <2>2. CASE d # e
      BY <1>1, <2>2 DEF OneDraft, DraftKnown, BlogsInv, DraftsKnown
    <2> QED
      BY <2>1, <2>2
  <1>3. VersionsKept'
    BY DEF BlogsInv, VersionsKept, OneDraft
  <1>4. ASSUME shelf' = shelf, draft[e].pc # "clear" PROVE ShelfCurrent'
    <2>1. \A d \in Editors : Clearing(draft[d]) => Clearing(draft[d])'
      BY <1>4 DEF Clearing, OneDraft
    <2> QED
      BY <1>1, <1>4, <2>1 DEF BlogsInv, ShelfCurrent
  <1> QED
    BY <1>2, <1>3, <1>4 DEF BlogsInv, DraftsKnown, PublishedByAdmin

LEMMA StaysAlone ==
  ASSUME BlogsInv, NEW e \in Editors, NEW q \in Draft, OneDraft(e, q) \/ Outdates(e, q),
         \/ changes' # 0
         \/ changes' = changes /\ (q.pc \in {"idle", "keep"} \/ draft[e].pc \notin {"idle", "keep"})
  PROVE  FirstAlone'
  BY DEF BlogsInv, FirstAlone, OneDraft, Outdates

LEMMA Counts ==
  ASSUME BlogsInv, OneChange
  PROVE  changes' \in 0..MaxChanges /\ changes' # 0
  BY BlogsTypes DEF OneChange

LEMMA CreateBlogKeeps ==
  ASSUME BlogsInv, NEW e \in Editors, NEW w \in Writers, NEW x \in Texts, CreateBlog(e, w, x)
  PROVE  BlogsInv'
  <1> DEFINE q == [NoDraft EXCEPT !.pc = "version", !.text = x]
  <1>1. q \in Draft /\ q.pc = "version" /\ q.text = x
    BY DEF NoDraft, Draft, Writers
  <1> HIDE DEF q
  <1>2. Outdates(e, q)
    BY <1>1, DraftsAge DEF CreateBlog, q
  <1>3. blog' \in BlogRow /\ blog'.exists /\ blog'.text = x
    BY DEF CreateBlog, BlogRow, BlogStatus
  <1>4. blog'.status = "PUBLISHED" <=> w = "admin"
    BY DEF CreateBlog
  <1>5. ~ \E d \in Editors \ {e} : draft[d].pc = "version"
    BY DEF CreateBlog, BlogsInv, FirstAlone
  <1>6. UNCHANGED <<versions, shelf, jumbled, lists, breaks>> /\ OneChange /\ approved' = (w = "admin")
    BY DEF CreateBlog
  <1>7. DraftsKnown' /\ VersionsKept' /\ ShelfCurrent'
    BY <1>1, <1>2, <1>3, <1>5, <1>6, Written
  <1>8. FirstAlone' /\ changes' \in 0..MaxChanges
    BY <1>1, <1>2, <1>6, Counts, StaysAlone
  <1>9. PublishedByAdmin'
    BY <1>4, <1>6 DEF PublishedByAdmin
  <1>10. BlogsTypeOK'
    <2>1. draft' \in [Editors -> Draft]
      BY <1>2 DEF Outdates
    <2>2. approved' \in BOOLEAN
      BY <1>6
    <2> QED
      BY <1>3, <1>6, <1>8, <2>1, <2>2, BlogsTypes DEF BlogsTypeOK, BlogRow, ShelfRow
  <1> QED
    BY <1>3, <1>7, <1>8, <1>9, <1>10 DEF BlogsInv

\* A request that is opened.
LEMMA Opens ==
  ASSUME BlogsInv, NEW e \in Editors, NEW q \in Draft, DraftIs(e, q), AtRest(e), OneChange,
         q.pc = "write", DraftKnown(q),
         UNCHANGED <<blog, versions, shelf, approved, jumbled, lists, breaks>>
  PROVE  BlogsInv'
  <1>1. OneDraft(e, q)
    BY DraftMoves
  <1>2. DraftsKnown' /\ VersionsKept' /\ PublishedByAdmin' /\ ShelfCurrent'
    BY <1>1, DraftOnly DEF AtRest
  <1>3. FirstAlone' /\ changes' \in 0..MaxChanges
    BY <1>1, Counts, StaysAlone
  <1>4. BlogsTypeOK'
    BY <1>1, <1>3, BlogsTypes DEF BlogsTypeOK, BlogRow, ShelfRow, OneDraft
  <1> QED
    BY <1>2, <1>3, <1>4 DEF BlogsInv

LEMMA OpensEditKeeps ==
  ASSUME BlogsInv, NEW e \in Editors, NEW w \in Writers, NEW x \in Texts \union {NoText},
         NEW s \in BlogStatus \union {"same"}, OpensEdit(e, w, x, s)
  PROVE  BlogsInv'
  <1>1. Granted(w, s) \in BlogStatus \union {"same"}
    BY DEF Granted, BlogStatus
  <1>2. Granted(w, s) = "PUBLISHED" => w = "admin"
    BY DEF Granted, OpensEdit
  <1> DEFINE q == [NoDraft EXCEPT !.pc = "write", !.who = w, !.text = x, !.to = Granted(w, s)]
  <1>3. q \in Draft /\ q.pc = "write" /\ q.who = w /\ q.to = Granted(w, s)
    BY <1>1 DEF NoDraft, Draft
  <1>4. DraftIs(e, q)
    BY DEF OpensEdit
  <1> HIDE DEF q
  <1>5. DraftKnown(q)
    BY <1>2, <1>3 DEF DraftKnown
  <1> QED
    BY <1>3, <1>4, <1>5, Opens DEF OpensEdit

LEMMA OpensRestoreKeeps ==
  ASSUME BlogsInv, NEW e \in Editors, NEW w \in Writers, NEW v \in DOMAIN versions,
         OpensRestore(e, w, v)
  PROVE  BlogsInv'
  <1>1. versions[v] \in Texts
    BY BlogsTypes
  <1> DEFINE q == [NoDraft EXCEPT !.pc = "write", !.who = w, !.text = versions[v]]
  <1>2. q \in Draft /\ q.pc = "write" /\ q.to = "same"
    BY <1>1 DEF NoDraft, Draft
  <1>3. DraftIs(e, q)
    BY DEF OpensRestore
  <1> HIDE DEF q
  <1>4. DraftKnown(q)
    BY <1>2 DEF DraftKnown
  <1> QED
    BY <1>2, <1>3, <1>4, Opens DEF OpensRestore

LEMMA WritesBlogKeeps ==
  ASSUME BlogsInv, NEW e \in Editors, WritesBlog(e)
  PROVE  BlogsInv'
  <1>1. /\ draft[e] \in Draft /\ draft[e].pc = "write" /\ DraftKnown(draft[e])
        /\ UNCHANGED <<versions, shelf, changes, lists, breaks>>
    BY BlogsTypes DEF WritesBlog, BlogsInv, DraftsKnown
  <1>2. CASE ~ blog.exists
    <2>1. DraftIs(e, NoDraft) /\ UNCHANGED <<blog, approved, jumbled>>
      BY <1>2 DEF WritesBlog
    <2>2. OneDraft(e, NoDraft) /\ DraftKnown(NoDraft)
      BY <2>1, DraftMoves, NoDraftTyped DEF DraftKnown
    <2>3. DraftsKnown' /\ VersionsKept' /\ PublishedByAdmin' /\ ShelfCurrent'
      BY <1>1, <2>1, <2>2, DraftOnly, NoDraftTyped
    <2>4. FirstAlone'
      BY <1>1, <2>2, StaysAlone, NoDraftTyped
    <2>5. BlogsTypeOK'
      BY <1>1, <2>1, <2>2, BlogsTypes DEF BlogsTypeOK, BlogRow, ShelfRow, OneDraft
    <2> QED
      BY <1>2, <2>1, <2>3, <2>4, <2>5 DEF BlogsInv
  <1>3. CASE blog.exists
    <2>1. blog \in BlogRow /\ blog.text \in Texts
      BY <1>3, BlogsTypes DEF BlogsInv
    <2>2. Says(draft[e].text) \in Texts
      BY <1>1, <2>1 DEF Says, Draft
    <2>3. Stands(draft[e].to) \in BlogStatus
      BY <1>1, <2>1 DEF Stands, Draft, BlogRow
    <2>4. /\ blog' \in BlogRow /\ blog'.exists
          /\ blog'.text = Says(draft[e].text) /\ blog'.status = Stands(draft[e].to)
      BY <1>3, <2>1, <2>2, <2>3 DEF WritesBlog, BlogRow
    <2>5. /\ approved' = (blog'.status = "PUBLISHED"
                          /\ (approved \/ (draft[e].to = "PUBLISHED" /\ draft[e].who = "admin")))
          /\ jumbled' = (jumbled \/ Pending(e))
      BY <1>3 DEF WritesBlog
    <2> DEFINE q == [draft[e] EXCEPT !.pc = "version", !.text = blog'.text,
                                     !.who = "admin", !.to = "same"]
    <2>6. q \in Draft /\ q.pc = "version" /\ q.text = blog'.text
      BY <1>1, <2>2, <2>4 DEF Draft, Writers
    <2>7. Outdated(e, q)
      BY <1>3 DEF WritesBlog
    <2> HIDE DEF q
    <2>8. Outdates(e, q)
      BY <2>6, <2>7, DraftsAge
    <2>9. DraftsKnown' /\ VersionsKept' /\ ShelfCurrent'
      BY <1>1, <2>2, <2>4, <2>5, <2>6, <2>8, Written DEF Pending
    <2>10. FirstAlone'
      BY <1>1, <2>6, <2>8, StaysAlone
    <2>11. PublishedByAdmin'
      BY <1>1, <1>3, <2>4, <2>5 DEF PublishedByAdmin, BlogsInv, Stands, DraftKnown
    <2>12. approved' \in BOOLEAN /\ jumbled' \in BOOLEAN
      BY <2>5
    <2>13. BlogsTypeOK'
      BY <1>1, <2>4, <2>8, <2>12, BlogsTypes DEF BlogsTypeOK, BlogRow, ShelfRow, Outdates
    <2> QED
      BY <2>2, <2>4, <2>9, <2>10, <2>11, <2>13 DEF BlogsInv
  <1> QED
    BY <1>2, <1>3

LEMMA SetsStatusKeeps ==
  ASSUME BlogsInv, NEW e \in Editors, NEW s \in BlogStatus, NEW reason \in BOOLEAN,
         SetsStatus(e, s, reason)
  PROVE  BlogsInv'
  <1>1. blog \in BlogRow /\ blog.exists /\ blog.text \in Texts
    BY BlogsTypes DEF SetsStatus, BlogsInv
  <1>2. /\ blog' \in BlogRow /\ blog'.exists /\ blog'.text = blog.text /\ blog'.status = s
    BY <1>1 DEF SetsStatus, BlogRow
  <1>3. PICK p \in {"version", "clear"} :
          p = IF s = "REJECTED" /\ reason THEN "version" ELSE "clear"
    OBVIOUS
  <1> DEFINE q == [NoDraft EXCEPT !.pc = p, !.text = blog.text]
  <1>4. q \in Draft /\ q.pc = p /\ q.text = blog.text
    BY <1>1 DEF NoDraft, Draft, Writers
  <1>5. Outdated(e, q)
    BY <1>3 DEF SetsStatus
  <1> HIDE DEF q
  <1>6. Outdates(e, q)
    BY <1>4, <1>5, DraftsAge
  <1>7. /\ UNCHANGED <<versions, shelf, jumbled, lists, breaks>> /\ OneChange
        /\ approved' = (s = "PUBLISHED") /\ draft[e].pc = "idle"
    BY DEF SetsStatus, AtRest
  <1>8. DraftsKnown' /\ VersionsKept' /\ ShelfCurrent'
    BY <1>1, <1>2, <1>4, <1>6, <1>7, Written
  <1>9. FirstAlone' /\ changes' \in 0..MaxChanges
    BY <1>4, <1>6, <1>7, Counts, StaysAlone
  <1>10. PublishedByAdmin' /\ approved' \in BOOLEAN
    BY <1>2, <1>7 DEF PublishedByAdmin
  <1>11. BlogsTypeOK'
    BY <1>2, <1>6, <1>7, <1>9, <1>10, BlogsTypes DEF BlogsTypeOK, BlogRow, ShelfRow, Outdates
  <1> QED
    BY <1>1, <1>2, <1>8, <1>9, <1>10, <1>11 DEF BlogsInv

LEMMA AddsVersionKeeps ==
  ASSUME BlogsInv, NEW e \in Editors, AddsVersion(e)
  PROVE  BlogsInv'
  <1>1. /\ draft[e] \in Draft /\ draft[e].pc = "version" /\ DraftKnown(draft[e])
        /\ UNCHANGED <<blog, shelf, approved, jumbled, changes, lists, breaks>>
    BY BlogsTypes DEF AddsVersion, BlogsInv, DraftsKnown
  <1>2. Shown' = Shown
    BY <1>1 DEF Shown
  <1>3. PICK q \in Draft : /\ DraftIs(e, q) /\ q.pc \in {"idle", "clear"}
                           /\ (blog.exists => q.pc = "clear")
    <2> DEFINE r == [NoDraft EXCEPT !.pc = "clear"]
    <2>1. r \in Draft /\ r.pc = "clear"
      BY DEF NoDraft, Draft, Writers
    <2>2. blog.exists => DraftIs(e, r)
      BY DEF AddsVersion
    <2>3. ~ blog.exists => DraftIs(e, NoDraft)
      BY DEF AddsVersion
    <2> HIDE DEF r
    <2> QED
      BY <2>1, <2>2, <2>3, NoDraftTyped
  <1>4. OneDraft(e, q)
    BY <1>3, DraftMoves
  <1>5. versions' \in Seq(Texts) /\ (blog.exists => /\ versions' # <<>>
                                                    /\ versions'[Len(versions')] = draft[e].text)
    <2>1. draft[e].text \in Texts /\ versions \in Seq(Texts)
      BY <1>1, BlogsTypes DEF DraftKnown
    <2>2. blog.exists => versions' = Append(versions, draft[e].text)
      BY DEF AddsVersion
    <2>3. ~ blog.exists => versions' = versions
      BY DEF AddsVersion
    <2> QED
      BY <2>1, <2>2, <2>3
  <1>6. DraftsKnown'
    <2>1. ASSUME NEW d \in Editors PROVE DraftKnown(draft[d])'
      <3>1. CASE d = e
        BY <1>3, <1>4, <3>1 DEF OneDraft, DraftKnown
      <3>2. CASE d # e
        BY <1>2, <1>4, <3>2 DEF OneDraft, DraftKnown, BlogsInv, DraftsKnown
      <3> QED
        BY <3>1, <3>2
    <2> QED
      BY <2>1 DEF DraftsKnown
  <1>7. VersionsKept'
    BY <1>1, <1>3, <1>4, <1>5 DEF BlogsInv, VersionsKept, OneDraft
  <1>8. \A d \in Editors : Clearing(draft[d]) => Clearing(draft[d])'
    BY <1>1, <1>3, <1>4 DEF Clearing, OneDraft
  <1>9. ShelfCurrent'
    BY <1>1, <1>2, <1>8 DEF BlogsInv, ShelfCurrent
  <1>10. FirstAlone'
    BY <1>1, <1>4, StaysAlone
  <1>11. BlogsTypeOK'
    BY <1>1, <1>4, <1>5, BlogsTypes DEF BlogsTypeOK, BlogRow, ShelfRow, OneDraft
  <1> QED
    BY <1>1, <1>6, <1>7, <1>9, <1>10, <1>11 DEF BlogsInv, PublishedByAdmin

LEMMA DropsVersionsKeeps ==
  ASSUME BlogsInv, NEW e \in Editors, DropsVersions(e)
  PROVE  BlogsInv'
  <1> DEFINE q == [NoDraft EXCEPT !.pc = "delete"]
  <1>1. q \in Draft /\ q.pc = "delete"
    BY DEF NoDraft, Draft, Writers
  <1>2. DraftIs(e, q)
    BY DEF DropsVersions
  <1> HIDE DEF q
  <1>3. OneDraft(e, q)
    BY <1>1, <1>2, DraftMoves
  <1>4. /\ versions' = <<>> /\ UNCHANGED <<blog, shelf, approved, jumbled, lists, breaks>>
        /\ OneChange /\ draft[e].pc = "idle"
    BY DEF DropsVersions, AtRest
  <1>5. Shown' = Shown
    BY <1>4 DEF Shown
  <1>6. DraftsKnown'
    <2>1. ASSUME NEW d \in Editors PROVE DraftKnown(draft[d])'
      <3>1. CASE d = e
        BY <1>1, <1>3, <3>1 DEF OneDraft, DraftKnown
      <3>2. CASE d # e
        BY <1>3, <1>5, <3>2 DEF OneDraft, DraftKnown, BlogsInv, DraftsKnown
      <3> QED
        BY <3>1, <3>2
    <2> QED
      BY <2>1 DEF DraftsKnown
  <1>7. VersionsKept'
    BY <1>1, <1>3, <1>4 DEF BlogsInv, VersionsKept, OneDraft
  <1>8. \A d \in Editors : Clearing(draft[d]) => Clearing(draft[d])'
    BY <1>3, <1>4 DEF Clearing, OneDraft
  <1>9. ShelfCurrent'
    BY <1>4, <1>5, <1>8 DEF BlogsInv, ShelfCurrent
  <1>10. FirstAlone' /\ changes' \in 0..MaxChanges
    BY <1>1, <1>3, <1>4, Counts, StaysAlone
  <1>11. versions' \in Seq(Texts)
    BY <1>4
  <1>12. BlogsTypeOK'
    BY <1>3, <1>4, <1>10, <1>11, BlogsTypes DEF BlogsTypeOK, BlogRow, ShelfRow, OneDraft
  <1> QED
    BY <1>4, <1>6, <1>7, <1>9, <1>10, <1>12 DEF BlogsInv, PublishedByAdmin

LEMMA DropsBlogKeeps ==
  ASSUME BlogsInv, NEW e \in Editors, DropsBlog(e)
  PROVE  BlogsInv'
  <1>1. /\ draft[e] \in Draft /\ draft[e].pc = "delete"
        /\ UNCHANGED <<shelf, jumbled, changes, lists, breaks>>
    BY BlogsTypes DEF DropsBlog
  <1>2. CASE blog.exists
    <2> DEFINE q == [NoDraft EXCEPT !.pc = "clear"]
    <2>1. q \in Draft /\ q.pc = "clear"
      BY DEF NoDraft, Draft, Writers
    <2>2. Outdated(e, q) /\ blog' = NoBlog /\ versions' = <<>> /\ approved' = FALSE
      BY <1>2 DEF DropsBlog
    <2> HIDE DEF q
    <2>3. Outdates(e, q)
      BY <2>1, <2>2, DraftsAge
    <2>4. blog' \in BlogRow /\ ~ blog'.exists
      BY <2>2 DEF NoBlog, BlogRow, BlogStatus, Writers
    <2>5. DraftsKnown'
      <3>1. ASSUME NEW d \in Editors PROVE DraftKnown(draft[d])'
        <4>1. CASE d = e
          BY <2>1, <2>3, <4>1 DEF Outdates, DraftKnown
        <4>2. CASE d # e
          BY <2>3, <4>2 DEF Outdates, DraftKnown, BlogsInv, DraftsKnown
        <4> QED
          BY <4>1, <4>2
      <3> QED
        BY <3>1 DEF DraftsKnown
    <2>6. VersionsKept' /\ PublishedByAdmin'
      BY <2>4 DEF VersionsKept, PublishedByAdmin
    <2>7. Clearing(draft[e])'
      BY <2>1, <2>3 DEF Clearing, Outdates
    <2>8. ShelfCurrent'
      BY <2>7 DEF ShelfCurrent
    <2>9. FirstAlone'
      BY <1>1, <2>1, <2>3, StaysAlone
    <2>10. versions' \in Seq(Texts) /\ approved' \in BOOLEAN
      BY <2>2, EmptySeq
    <2>11. BlogsTypeOK'
      BY <1>1, <2>3, <2>4, <2>10, BlogsTypes DEF BlogsTypeOK, BlogRow, ShelfRow, Outdates
    <2> QED
      BY <2>4, <2>5, <2>6, <2>8, <2>9, <2>11 DEF BlogsInv
  <1>3. CASE ~ blog.exists
    <2>1. DraftIs(e, NoDraft) /\ UNCHANGED <<blog, versions, approved>>
      BY <1>3 DEF DropsBlog
    <2>2. OneDraft(e, NoDraft)
      BY <2>1, DraftMoves, NoDraftTyped
    <2>3. Shown' = Shown
      BY <2>1 DEF Shown
    <2>4. DraftsKnown'
      <3>1. ASSUME NEW d \in Editors PROVE DraftKnown(draft[d])'
        <4>1. CASE d = e
          BY <2>2, <4>1, NoDraftTyped DEF OneDraft, DraftKnown
        <4>2. CASE d # e
          BY <2>2, <2>3, <4>2 DEF OneDraft, DraftKnown, BlogsInv, DraftsKnown
        <4> QED
          BY <4>1, <4>2
      <3> QED
        BY <3>1 DEF DraftsKnown
    <2>5. VersionsKept' /\ PublishedByAdmin'
      BY <1>3, <2>1 DEF VersionsKept, PublishedByAdmin
    <2>6. \A d \in Editors : Clearing(draft[d]) => Clearing(draft[d])'
      BY <1>1, <2>1, <2>2 DEF Clearing, OneDraft
    <2>7. ShelfCurrent'
      BY <1>1, <2>3, <2>6 DEF BlogsInv, ShelfCurrent
    <2>8. FirstAlone'
      BY <1>1, <2>2, StaysAlone, NoDraftTyped
    <2>9. BlogsTypeOK'
      BY <1>1, <2>1, <2>2, BlogsTypes DEF BlogsTypeOK, BlogRow, ShelfRow, OneDraft
    <2> QED
      BY <1>3, <2>1, <2>4, <2>5, <2>7, <2>8, <2>9 DEF BlogsInv
  <1> QED
    BY <1>2, <1>3

LEMMA ClearsCachesKeeps ==
  ASSUME BlogsInv, NEW e \in Editors, NEW found \in BOOLEAN, ClearsCaches(e, found)
  PROVE  BlogsInv'
  <1>1. /\ DraftIs(e, NoDraft) /\ draft[e].pc = "clear"
        /\ UNCHANGED <<blog, versions, approved, jumbled, changes, lists, breaks>>
    BY DEF ClearsCaches
  <1>2. OneDraft(e, NoDraft) /\ DraftKnown(NoDraft)
    BY <1>1, DraftMoves, NoDraftTyped DEF DraftKnown
  <1>3. DraftsKnown' /\ VersionsKept' /\ PublishedByAdmin'
    BY <1>1, <1>2, DraftOnly, NoDraftTyped
  <1>4. shelf' \in ShelfRow /\ (shelf'.kept => shelf'.old)
    <2>1. CASE found
      BY <2>1 DEF ClearsCaches, EmptyShelf, ShelfRow
    <2>2. CASE ~ found
      <3>1. shelf' = [shelf EXCEPT !.old = shelf.kept] /\ shelf \in ShelfRow /\ shelf.kept \in BOOLEAN
        BY <2>2, BlogsTypes DEF ClearsCaches, ShelfRow
      <3> QED
        BY <3>1 DEF ShelfRow
    <2> QED
      BY <2>1, <2>2
  <1>5. ShelfCurrent'
    BY <1>4 DEF ShelfCurrent
  <1>6. FirstAlone'
    BY <1>1, <1>2, StaysAlone, NoDraftTyped
  <1>7. BlogsTypeOK'
    BY <1>1, <1>2, <1>4, BlogsTypes DEF BlogsTypeOK, BlogRow, ShelfRow, OneDraft
  <1> QED
    BY <1>1, <1>3, <1>5, <1>6, <1>7 DEF BlogsInv

LEMMA ReadsListKeeps ==
  ASSUME BlogsInv, NEW e \in Editors, ReadsList(e)
  PROVE  BlogsInv'
  <1>1. Shown \in Texts \union {NoText}
    BY DEF Shown, BlogsInv
  <1> DEFINE q == [NoDraft EXCEPT !.pc = "keep", !.text = Shown]
  <1>2. q \in Draft /\ q.pc = "keep" /\ q.text = Shown
    BY <1>1 DEF NoDraft, Draft, Writers
  <1>3. DraftIs(e, q) /\ draft[e].pc = "idle"
    BY DEF ReadsList, AtRest
  <1>4. UNCHANGED <<blog, versions, shelf, approved, jumbled, changes, breaks>>
    BY DEF ReadsList
  <1>5. lists' \in 0..MaxLists
    BY BlogsTypes DEF ReadsList
  <1> HIDE DEF q
  <1>6. OneDraft(e, q) /\ DraftKnown(q)
    BY <1>2, <1>3, DraftMoves DEF DraftKnown
  <1>7. DraftsKnown' /\ VersionsKept' /\ PublishedByAdmin' /\ ShelfCurrent'
    BY <1>2, <1>3, <1>4, <1>6, DraftOnly
  <1>8. FirstAlone'
    BY <1>2, <1>4, <1>6, StaysAlone
  <1>9. BlogsTypeOK'
    BY <1>4, <1>5, <1>6, BlogsTypes DEF BlogsTypeOK, BlogRow, ShelfRow, OneDraft
  <1> QED
    BY <1>4, <1>7, <1>8, <1>9 DEF BlogsInv

LEMMA KeepsListKeeps ==
  ASSUME BlogsInv, NEW e \in Editors, KeepsList(e)
  PROVE  BlogsInv'
  <1>1. /\ DraftIs(e, NoDraft) /\ draft[e].pc = "keep"
        /\ UNCHANGED <<blog, versions, approved, jumbled, changes, lists, breaks>>
        /\ draft[e] \in Draft /\ DraftKnown(draft[e])
    BY BlogsTypes DEF KeepsList, BlogsInv, DraftsKnown
  <1>2. OneDraft(e, NoDraft) /\ DraftKnown(NoDraft)
    BY <1>1, DraftMoves, NoDraftTyped DEF DraftKnown
  <1>3. DraftsKnown' /\ VersionsKept' /\ PublishedByAdmin'
    BY <1>1, <1>2, DraftOnly, NoDraftTyped
  <1>4. shelf' \in ShelfRow /\ shelf'.shows = draft[e].text /\ shelf'.old = draft[e].old
    BY <1>1 DEF KeepsList, ShelfRow, Draft
  <1>5. Shown' = Shown
    BY <1>1 DEF Shown
  <1>6. ShelfCurrent'
    BY <1>1, <1>4, <1>5 DEF ShelfCurrent, DraftKnown
  <1>7. FirstAlone'
    BY <1>1, <1>2, StaysAlone, NoDraftTyped
  <1>8. BlogsTypeOK'
    BY <1>1, <1>2, <1>4, BlogsTypes DEF BlogsTypeOK, BlogRow, ShelfRow, OneDraft
  <1> QED
    BY <1>1, <1>3, <1>6, <1>7, <1>8 DEF BlogsInv

LEMMA ListExpiresKeeps ==
  ASSUME BlogsInv, ListExpires
  PROVE  BlogsInv'
  <1>1. UNCHANGED <<blog, versions, draft, approved, jumbled, changes, lists, breaks>>
    BY DEF ListExpires
  <1>2. shelf' \in ShelfRow /\ ~ shelf'.kept
    BY DEF ListExpires, EmptyShelf, ShelfRow
  <1>3. DraftsKnown' /\ VersionsKept' /\ PublishedByAdmin' /\ FirstAlone'
    BY <1>1 DEF BlogsInv, DraftsKnown, DraftKnown, Shown, VersionsKept, PublishedByAdmin, FirstAlone
  <1>4. ShelfCurrent'
    BY <1>2 DEF ShelfCurrent
  <1>5. BlogsTypeOK'
    BY <1>1, <1>2, BlogsTypes DEF BlogsTypeOK, BlogRow, ShelfRow
  <1> QED
    BY <1>1, <1>3, <1>4, <1>5 DEF BlogsInv

LEMMA BreaksKeeps ==
  ASSUME BlogsInv, NEW e \in Editors, Breaks(e)
  PROVE  BlogsInv'
  <1>1. /\ DraftIs(e, NoDraft) /\ draft[e].pc \in {"version", "delete", "clear"}
        /\ UNCHANGED <<blog, versions, approved, changes, lists>>
        /\ jumbled' = (jumbled \/ draft[e].pc # "clear")
    BY DEF Breaks
  <1>2. OneDraft(e, NoDraft)
    BY <1>1, DraftMoves, NoDraftTyped
  <1>3. Shown' = Shown
    BY <1>1 DEF Shown
  <1>4. DraftsKnown'
    <2>1. ASSUME NEW d \in Editors PROVE DraftKnown(draft[d])'
      <3>1. CASE d = e
        BY <1>2, <3>1, NoDraftTyped DEF OneDraft, DraftKnown
      <3>2. CASE d # e
        BY <1>2, <1>3, <3>2 DEF OneDraft, DraftKnown, BlogsInv, DraftsKnown
      <3> QED
        BY <3>1, <3>2
    <2> QED
      BY <2>1 DEF DraftsKnown
  <1>5. VersionsKept'
    BY <1>1, <1>2, NoDraftTyped DEF BlogsInv, VersionsKept, OneDraft
  <1>6. shelf' \in ShelfRow /\ (shelf'.kept => shelf'.old)
    <2>1. shelf' = [shelf EXCEPT !.old = shelf.kept] /\ shelf \in ShelfRow /\ shelf.kept \in BOOLEAN
      BY BlogsTypes DEF Breaks, ShelfRow
    <2> QED
      BY <2>1 DEF ShelfRow
  <1>7. ShelfCurrent'
    BY <1>6 DEF ShelfCurrent
  <1>8. FirstAlone'
    BY <1>1, <1>2, StaysAlone, NoDraftTyped
  <1>9. jumbled' \in BOOLEAN /\ breaks' \in 0..MaxBreaks
    <2>1. jumbled' \in BOOLEAN
      BY <1>1
    <2>2. breaks' \in 0..MaxBreaks
      BY BlogsTypes DEF Breaks
    <2> QED
      BY <2>1, <2>2
  <1>10. BlogsTypeOK'
    BY <1>1, <1>2, <1>6, <1>9, BlogsTypes DEF BlogsTypeOK, BlogRow, ShelfRow, OneDraft
  <1> QED
    BY <1>1, <1>4, <1>5, <1>7, <1>8, <1>10 DEF BlogsInv, PublishedByAdmin

LEMMA BlogsContinue == BlogsInv /\ [BlogsNext]_blogsVars => BlogsInv'
  <1> SUFFICES ASSUME BlogsInv, [BlogsNext]_blogsVars PROVE BlogsInv'
    OBVIOUS
  <1>1. CASE \E e \in Editors, w \in Writers, x \in Texts : CreateBlog(e, w, x)
    BY <1>1, CreateBlogKeeps
  <1>2. CASE \E e \in Editors, w \in Writers, x \in Texts \union {NoText},
                s \in BlogStatus \union {"same"} : OpensEdit(e, w, x, s)
    BY <1>2, OpensEditKeeps
  <1>3. CASE \E e \in Editors, w \in Writers, v \in DOMAIN versions : OpensRestore(e, w, v)
    BY <1>3, OpensRestoreKeeps
  <1>4. CASE \E e \in Editors, s \in BlogStatus, reason \in BOOLEAN : SetsStatus(e, s, reason)
    BY <1>4, SetsStatusKeeps
  <1>5. CASE \E e \in Editors, found \in BOOLEAN : ClearsCaches(e, found)
    BY <1>5, ClearsCachesKeeps
  <1>6. CASE \E e \in Editors : WritesBlog(e) \/ AddsVersion(e) \/ DropsVersions(e)
                                \/ DropsBlog(e) \/ ReadsList(e) \/ KeepsList(e) \/ Breaks(e)
    BY <1>6, WritesBlogKeeps, AddsVersionKeeps, DropsVersionsKeeps, DropsBlogKeeps,
       ReadsListKeeps, KeepsListKeeps, BreaksKeeps
  <1>7. CASE ListExpires
    BY <1>7, ListExpiresKeeps
  <1>8. CASE UNCHANGED blogsVars
    BY <1>8 DEF blogsVars, BlogsInv, BlogsTypeOK, DraftsKnown, DraftKnown, Shown, VersionsKept,
       ShelfCurrent, Clearing, PublishedByAdmin, FirstAlone
  <1> QED
    BY <1>1, <1>2, <1>3, <1>4, <1>5, <1>6, <1>7, <1>8 DEF BlogsNext

LEMMA BlogsHold == BlogsSpec => []BlogsInv
  BY BlogsBegin, BlogsContinue, PTL DEF BlogsSpec

\* The article, its versions, the cached list and the requests have their types.
THEOREM BlogsTyped == BlogsSpec => []BlogsTypeOK
  <1>1. BlogsInv => BlogsTypeOK
    BY DEF BlogsInv
  <1> QED
    BY <1>1, BlogsHold, PTL

\* The article, its newest version and the public list agree once the requests
\* are done (unless changes crossed or the cache kept an old list), and what is
\* published an admin has published, whatever edits and restorations overlap.
THEOREM BlogKept == BlogsSpec => []BlogIsKept
  <1>1. ASSUME BlogsInv PROVE BlogIsKept
    <2>1. NewestIsLive
      BY <1>1 DEF NewestIsLive, NoneWriting, BlogsInv, VersionsKept
    <2>2. ListIsCurrent
      <3>1. NoneWriting => \A e \in Editors : ~ Clearing(draft[e])
        BY DEF NoneWriting, Clearing
      <3> QED
        BY <1>1, <3>1 DEF ListIsCurrent, BlogsInv, ShelfCurrent
    <2> QED
      BY <1>1, <2>1, <2>2 DEF BlogIsKept, BlogsInv
  <1> QED
    BY <1>1, BlogsHold, PTL

-----------------------------------------------------------------------------
(* Part 6: the mails.  Of each kind one pass at most is between the read of  *)
(* the events and the row, unless the kind is unsure; the mails a pass may   *)
(* still send are bounded by the passes.                                     *)

\* A pass that has read the events of kind t, and one that may mail it yet.
At(q, t) == q.pc \in {"users", "send", "record"} /\ Types[q.rule] = t
WillMail(q) == q.pc = "send" \/ (q.pc = "users" /\ ~ q.sent)

MailedSoFar(t) == t \notin unsure =>
    /\ mailed[t] <= 1
    /\ mailed[t] # 0 => \/ event[t] # "none"
                        \/ \E p \in Workers : pass[p].pc = "record" /\ At(pass[p], t)
    /\ \A p \in Workers : At(pass[p], t) /\ WillMail(pass[p]) => mailed[t] = 0
    /\ \A p, q \in Workers : At(pass[p], t) /\ At(pass[q], t) => p = q
SentOnce == \A t \in Type : MailedSoFar(t)

MayReach(q, i) == q.pc # "idle" /\ (q.rule < i \/ (q.rule = i /\ q.pc # "record"))
Ahead(i) == {p \in Workers : MayReach(pass[p], i)}
MailsBounded == \A i \in 1..4 : mailed[Types[i]] + Cardinality(Ahead(i)) <= passes

Decided == {p \in Workers : pass[p].pc = "send"}
Heeded == user.out => stray + Cardinality(Decided) <= decided

OutreachInv == OutreachTypeOK /\ SentOnce /\ MailsBounded /\ Heeded

LEMMA FourTypes ==
  /\ \A i \in 1..4 : Types[i] \in Type
  /\ \A t \in Type : \E i \in 1..4 : Types[i] = t
  /\ \A i, j \in 1..4 : Types[i] = Types[j] => i = j
  <1>1. /\ Types[1] = "mcq_academic" /\ Types[2] = "mcq_friction"
        /\ Types[3] = "breakup" /\ Types[4] = "booking_nudge" /\ DOMAIN Types = 1..4
    BY DEF Types
  <1>2. \A i \in 1..4 : i = 1 \/ i = 2 \/ i = 3 \/ i = 4
    OBVIOUS
  <1> QED
    BY <1>1, <1>2 DEF Type

LEMMA NoPassTyped == NoPass \in Pass /\ NoPass.pc = "idle" /\ NoPass.rule = 1
  BY DEF NoPass, Pass

LEMMA OutreachTypes ==
  ASSUME OutreachInv
  PROVE  /\ age \in 0..Oldest /\ user \in [complete: BOOLEAN, out: BOOLEAN, booked: BOOLEAN]
         /\ event \in [Type -> {"none", "sent", "answered"}]
         /\ pass \in [Workers -> Pass] /\ \A p \in Workers : pass[p] \in Pass
         /\ jobs \subseteq Job /\ inbox \subseteq Type
         /\ mailed \in [Type -> Nat] /\ \A t \in Type : mailed[t] \in Nat
         /\ unsure \subseteq Type /\ stray \in Nat /\ decided \in Nat
         /\ passes \in 0..MaxPasses /\ refusals \in 0..MaxRefusals /\ faults \in 0..MaxFaults
         /\ MaxPasses \in Nat /\ MaxRefusals \in Nat /\ MaxFaults \in Nat
         /\ IsFiniteSet(Workers)
  BY OutreachAssumption DEF OutreachInv, OutreachTypeOK

\* Only pass p changes.
OnePass(p, q) == /\ pass' \in [Workers -> Pass] /\ pass'[p] = q
                 /\ \A o \in Workers : o # p => pass'[o] = pass[o]

LEMMA PassMoves ==
  ASSUME OutreachInv, NEW p \in Workers, NEW q \in Pass, pass' = [pass EXCEPT ![p] = q]
  PROVE  OnePass(p, q)
  BY OutreachTypes DEF OnePass

LEMMA NextRuleIs ==
  ASSUME OutreachInv, NEW p \in Workers, NextRule(p)
  PROVE  \E q \in Pass : /\ OnePass(p, q)
                         /\ q.pc = "idle" \/ (q.pc = "events" /\ q.rule = pass[p].rule + 1)
  <1>1. pass[p] \in Pass
    BY OutreachTypes
  <1>2. CASE pass[p].rule = 4
    <2>1. pass' = [pass EXCEPT ![p] = NoPass]
      BY <1>2 DEF NextRule
    <2> QED
      BY <2>1, NoPassTyped, PassMoves
  <1>3. CASE pass[p].rule # 4
    <2>1. PICK r \in 1..4 : r = pass[p].rule + 1
      BY <1>1, <1>3 DEF Pass
    <2> DEFINE q == [NoPass EXCEPT !.pc = "events", !.rule = r]
    <2>2. q \in Pass /\ q.pc = "events" /\ q.rule = r
      BY DEF NoPass, Pass
    <2>3. pass' = [pass EXCEPT ![p] = q]
      BY <1>3, <2>1 DEF NextRule
    <2> HIDE DEF q
    <2> QED
      BY <2>1, <2>2, <2>3, PassMoves
  <1> QED
    BY <1>2, <1>3

LEMMA OutreachBegins == OutreachInit => OutreachInv
  <1> SUFFICES ASSUME OutreachInit PROVE OutreachInv
    OBVIOUS
  <1>1. \A p \in Workers : pass[p] = NoPass
    BY DEF OutreachInit
  <1>2. \A t \in Type : mailed[t] = 0
    BY DEF OutreachInit
  <1>3. OutreachTypeOK
    BY OutreachAssumption, NoPassTyped DEF OutreachInit, OutreachTypeOK, Oldest
  <1>4. SentOnce
    BY <1>1, <1>2, NoPassTyped DEF SentOnce, MailedSoFar, At, WillMail
  <1>5. MailsBounded
    <2>1. ASSUME NEW i \in 1..4 PROVE mailed[Types[i]] + Cardinality(Ahead(i)) <= passes
      <3>1. Ahead(i) = {}
        BY <1>1, NoPassTyped DEF Ahead, MayReach
      <3>2. Cardinality(Ahead(i)) = 0
        BY <3>1, FS_EmptySet
      <3> QED
        BY <1>2, <3>2, FourTypes DEF OutreachInit
    <2> QED
      BY <2>1 DEF MailsBounded
  <1>6. Heeded
    BY DEF Heeded, OutreachInit
  <1> QED
    BY <1>3, <1>4, <1>5, <1>6 DEF OutreachInv

\* How the two counts follow the passes.
LEMMA FewerAhead ==
  ASSUME OutreachInv, NEW i \in 1..4, NEW S \in SUBSET Ahead(i)
  PROVE  IsFiniteSet(S) /\ Cardinality(S) <= Cardinality(Ahead(i))
         /\ Cardinality(S) \in Nat /\ Cardinality(Ahead(i)) \in Nat
  <1>1. IsFiniteSet(Ahead(i))
    BY OutreachTypes, FS_Subset DEF Ahead
  <1> QED
    BY <1>1, FS_Subset, FS_CardinalityType

LEMMA KeepsAhead ==
  ASSUME OutreachInv, NEW p \in Workers, NEW q \in Pass, OnePass(p, q),
         UNCHANGED <<mailed, passes>>,
         \A i \in 1..4 : MayReach(q, i) => MayReach(pass[p], i)
  PROVE  MailsBounded'
  <1>1. ASSUME NEW i \in 1..4 PROVE (mailed[Types[i]] + Cardinality(Ahead(i)) <= passes)'
    <2>1. Ahead(i)' \subseteq Ahead(i)
      BY DEF Ahead, OnePass
    <2>2. Cardinality(Ahead(i)') <= Cardinality(Ahead(i))
          /\ Cardinality(Ahead(i)') \in Nat /\ Cardinality(Ahead(i)) \in Nat
      BY <2>1, FewerAhead
    <2>3. mailed[Types[i]] \in Nat /\ passes \in Nat
      BY OutreachTypes, FourTypes
    <2>4. mailed[Types[i]] + Cardinality(Ahead(i)) <= passes
      BY DEF OutreachInv, MailsBounded
    <2> QED
      BY <2>2, <2>3, <2>4
  <1> QED
    BY <1>1 DEF MailsBounded

LEMMA KeepsDecided ==
  ASSUME OutreachInv, NEW p \in Workers, NEW q \in Pass, OnePass(p, q),
         user'.out = user.out, UNCHANGED <<stray, decided>>,
         q.pc = "send" => pass[p].pc = "send" \/ ~ user.out
  PROVE  Heeded'
  <1> SUFFICES ASSUME user.out PROVE (stray + Cardinality(Decided) <= decided)'
    BY DEF Heeded
  <1>1. Decided' \subseteq Decided
    BY DEF Decided, OnePass
  <1>2. IsFiniteSet(Decided)
    BY OutreachTypes, FS_Subset DEF Decided
  <1>3. /\ Cardinality(Decided') <= Cardinality(Decided)
        /\ Cardinality(Decided') \in Nat /\ Cardinality(Decided) \in Nat
    BY <1>1, <1>2, FS_Subset, FS_CardinalityType
  <1>4. stray \in Nat /\ decided \in Nat /\ stray + Cardinality(Decided) <= decided
    BY OutreachTypes DEF OutreachInv, Heeded
  <1> QED
    BY <1>3, <1>4

\* A pass that is over with its rule, or has not read its events yet.
LEMMA LeavesRule ==
  ASSUME OutreachInv, NEW p \in Workers, NEW q \in Pass, OnePass(p, q),
         q.pc \in {"idle", "events"}, mailed' = mailed, unsure \subseteq unsure',
         \A t \in Type : event[t] # "none" => event'[t] # "none",
         pass[p].pc = "record" => \/ event'[Types[pass[p].rule]] # "none"
                                  \/ Types[pass[p].rule] \in unsure'
  PROVE  SentOnce'
  <1> SUFFICES ASSUME NEW t \in Type, t \notin unsure' PROVE MailedSoFar(t)'
    BY DEF SentOnce, MailedSoFar
  <1>1. MailedSoFar(t) /\ t \notin unsure
    BY DEF OutreachInv, SentOnce
  <1>2. \A o \in Workers : At(pass'[o], t) => At(pass[o], t) /\ pass'[o] = pass[o] /\ o # p
    BY DEF At, OnePass
  <1>3. mailed'[t] # 0 => event'[t] # "none" \/ \E o \in Workers : pass'[o].pc = "record" /\ At(pass'[o], t)
    <2> SUFFICES ASSUME mailed[t] # 0, event'[t] = "none"
                 PROVE \E o \in Workers : pass'[o].pc = "record" /\ At(pass'[o], t)
      OBVIOUS
    <2>1. PICK o \in Workers : pass[o].pc = "record" /\ At(pass[o], t)
      BY <1>1 DEF MailedSoFar
    <2>2. o # p
      BY <2>1 DEF At
    <2> QED
      BY <2>1, <2>2 DEF OnePass
  <1> QED
    BY <1>1, <1>2, <1>3 DEF MailedSoFar

\* A step that ends the rule of pass p, or has just begun it.
LEMMA RuleEnds ==
  ASSUME OutreachInv, NEW p \in Workers, pass[p].pc # "idle", NextRule(p),
         UNCHANGED <<mailed, passes, stray, decided, user>>, unsure \subseteq unsure',
         \A t \in Type : event[t] # "none" => event'[t] # "none",
         pass[p].pc = "record" => \/ event'[TypeOf(p)] # "none"
                                  \/ TypeOf(p) \in unsure'
  PROVE  /\ SentOnce' /\ MailsBounded' /\ Heeded'
         /\ pass' \in [Workers -> Pass]
  <1>1. PICK q \in Pass : /\ OnePass(p, q)
                          /\ q.pc = "idle" \/ (q.pc = "events" /\ q.rule = pass[p].rule + 1)
    BY NextRuleIs
  <1>2. SentOnce'
    BY <1>1, LeavesRule DEF TypeOf
  <1>3. ASSUME NEW i \in 1..4, MayReach(q, i) PROVE MayReach(pass[p], i)
    <2>1. pass[p].rule \in 1..4 /\ q.rule \in 1..4
      BY OutreachTypes DEF Pass
    <2> QED
      BY <1>1, <1>3, <2>1 DEF MayReach
  <1>4. MailsBounded'
    BY <1>1, <1>3, KeepsAhead
  <1>5. Heeded'
    BY <1>1, KeepsDecided
  <1> QED
    BY <1>1, <1>2, <1>4, <1>5 DEF OnePass

LEMMA PassBeginsKeeps ==
  ASSUME OutreachInv, NEW p \in Workers, PassBegins(p)
  PROVE  OutreachInv'
  <1>1. /\ pass[p] \in Pass /\ pass[p].pc = "idle" /\ passes < MaxPasses /\ passes' = passes + 1
        /\ UNCHANGED <<age, user, event, jobs, inbox, mailed, unsure, stray, decided,
                       refusals, faults>>
    BY OutreachTypes DEF PassBegins, mail, told
  <1> DEFINE q == [pass[p] EXCEPT !.pc = "events"]
  <1>2. q \in Pass /\ q.pc = "events"
    BY <1>1 DEF Pass
  <1>3. pass' = [pass EXCEPT ![p] = q]
    BY DEF PassBegins
  <1> HIDE DEF q
  <1>4. OnePass(p, q)
    BY <1>2, <1>3, PassMoves
  <1>5. SentOnce'
    BY <1>1, <1>2, <1>4, LeavesRule
  <1>6. Heeded'
    BY <1>1, <1>2, <1>4, KeepsDecided
  <1>7. ASSUME NEW i \in 1..4 PROVE (mailed[Types[i]] + Cardinality(Ahead(i)) <= passes)'
    <2>1. Ahead(i)' \subseteq Ahead(i) \union {p}
      BY <1>4 DEF Ahead, OnePass
    <2>2. IsFiniteSet(Ahead(i)) /\ Cardinality(Ahead(i)) \in Nat
      BY FewerAhead
    <2>3. /\ IsFiniteSet(Ahead(i) \union {p})
          /\ Cardinality(Ahead(i) \union {p}) <= Cardinality(Ahead(i)) + 1
          /\ Cardinality(Ahead(i) \union {p}) \in Nat
      BY <2>2, FS_AddElement, FS_CardinalityType
    <2>4. Cardinality(Ahead(i)') <= Cardinality(Ahead(i) \union {p}) /\ Cardinality(Ahead(i)') \in Nat
      BY <2>1, <2>3, FS_Subset, FS_CardinalityType
    <2>5. mailed[Types[i]] \in Nat /\ passes \in Nat /\ mailed[Types[i]] + Cardinality(Ahead(i)) <= passes
      BY OutreachTypes, FourTypes DEF OutreachInv, MailsBounded
    <2> QED
      BY <1>1, <2>2, <2>3, <2>4, <2>5
  <1>8. MailsBounded'
    BY <1>7 DEF MailsBounded
  <1>9. passes' \in 0..MaxPasses
    BY <1>1, OutreachTypes
  <1>10. OutreachTypeOK'
    BY <1>1, <1>4, <1>9, OutreachTypes DEF OutreachTypeOK, OnePass
  <1> QED
    BY <1>5, <1>6, <1>8, <1>10 DEF OutreachInv

LEMMA ReadsEventsKeeps ==
  ASSUME OutreachInv, NEW p \in Workers, ReadsEvents(p)
  PROVE  OutreachInv'
  <1>1. /\ pass[p] \in Pass /\ pass[p].pc = "events"
        /\ UNCHANGED <<age, user, event, jobs, inbox, mailed, stray, decided, passes,
                       refusals, faults>>
    BY OutreachTypes DEF ReadsEvents, mail, counts
  <1>2. PICK b \in BOOLEAN : b = Excluded(TypeOf(p))
    BY DEF Excluded
  <1> DEFINE q == [pass[p] EXCEPT !.pc = "users", !.sent = b]
              T == Types[pass[p].rule]
  <1>3. q \in Pass /\ q.pc = "users" /\ q.sent = b /\ q.rule = pass[p].rule
    BY <1>1 DEF Pass
  <1>4. pass' = [pass EXCEPT ![p] = q]
    BY <1>2 DEF ReadsEvents
  <1> HIDE DEF q
  <1>5. OnePass(p, q)
    BY <1>3, <1>4, PassMoves
  <1>6. T \in Type /\ T = TypeOf(p)
    BY <1>1, FourTypes DEF Pass, TypeOf
  <1>7. /\ unsure' \in {unsure, unsure \union {T}}
        /\ T \notin unsure' => \A o \in Workers : o # p => ~ At(pass[o], T)
    BY <1>6 DEF ReadsEvents, TypeOf, At
  <1>8. ~ b => event[T] = "none"
    BY <1>2, <1>6 DEF Excluded
  <1>9. SentOnce'
    <2> SUFFICES ASSUME NEW t \in Type, t \notin unsure' PROVE MailedSoFar(t)'
      BY DEF SentOnce, MailedSoFar
    <2>1. MailedSoFar(t) /\ t \notin unsure
      BY <1>7 DEF OutreachInv, SentOnce
    <2>2. CASE t # T
      <3>1. ~ At(pass'[p], t) /\ ~ At(pass[p], t)
        BY <1>1, <1>3, <1>5, <2>2 DEF At, OnePass
      <3> QED
        BY <1>1, <1>5, <2>1, <3>1 DEF MailedSoFar, OnePass
    <2>3. CASE t = T
      <3>1. \A o \in Workers : At(pass'[o], t) => o = p
        BY <1>5, <1>7, <2>3 DEF OnePass
      <3>2. \A o \in Workers : ~ At(pass[o], t)
        BY <1>1, <1>7, <2>3 DEF At
      <3>3. mailed[t] # 0 => event[t] # "none"
        BY <2>1, <3>2 DEF MailedSoFar
      <3>4. WillMail(pass'[p]) => ~ b
        BY <1>3, <1>5 DEF WillMail, OnePass
      <3> QED
        BY <1>1, <1>8, <2>1, <2>3, <3>1, <3>3, <3>4 DEF MailedSoFar
    <2> QED
      BY <2>2, <2>3
  <1>10. MailsBounded'
    BY <1>1, <1>3, <1>5, KeepsAhead DEF MayReach
  <1>11. Heeded'
    BY <1>1, <1>3, <1>5, KeepsDecided
  <1>12. OutreachTypeOK'
    BY <1>1, <1>5, <1>6, <1>7, OutreachTypes DEF OutreachTypeOK, OnePass
  <1> QED
    BY <1>9, <1>10, <1>11, <1>12 DEF OutreachInv

LEMMA ReadsUsersKeeps ==
  ASSUME OutreachInv, NEW p \in Workers, ReadsUsers(p)
  PROVE  OutreachInv'
  <1>1. /\ pass[p] \in Pass /\ pass[p].pc = "users"
        /\ UNCHANGED <<age, user, event, jobs, inbox, mailed, unsure, stray, decided, passes,
                       refusals, faults>>
    BY OutreachTypes DEF ReadsUsers, mail, told, counts
  <1>2. CASE ~ (~ pass[p].sent /\ Due(TypeOf(p)))
    <2>1. NextRule(p)
      BY <1>2 DEF ReadsUsers
    <2>2. SentOnce' /\ MailsBounded' /\ Heeded' /\ pass' \in [Workers -> Pass]
      BY <1>1, <2>1, RuleEnds
    <2>3. OutreachTypeOK'
      BY <1>1, <2>2, OutreachTypes DEF OutreachTypeOK
    <2> QED
      BY <2>2, <2>3 DEF OutreachInv
  <1>3. CASE ~ pass[p].sent /\ Due(TypeOf(p))
    <2> DEFINE q == [pass[p] EXCEPT !.pc = "send"]
    <2>1. q \in Pass /\ q.pc = "send" /\ q.rule = pass[p].rule
      BY <1>1 DEF Pass
    <2>2. pass' = [pass EXCEPT ![p] = q]
      BY <1>3 DEF ReadsUsers
    <2> HIDE DEF q
    <2>3. OnePass(p, q)
      BY <2>1, <2>2, PassMoves
    <2>4. ~ user.out
      BY <1>3 DEF Due
    <2>5. \A t : At(q, t) <=> At(pass[p], t)
      BY <1>1, <2>1 DEF At
    <2>6. WillMail(pass[p])
      BY <1>1, <1>3 DEF WillMail
    <2>7. ASSUME NEW t \in Type, t \notin unsure' PROVE MailedSoFar(t)'
      <3>1. MailedSoFar(t) /\ t \notin unsure
        BY <1>1, <2>7 DEF OutreachInv, SentOnce
      <3>2. \A o \in Workers : (At(pass'[o], t) <=> At(pass[o], t))
                               /\ (WillMail(pass'[o]) => WillMail(pass[o]))
                               /\ (pass[o].pc = "record" => pass'[o].pc = "record")
        BY <1>1, <2>3, <2>5, <2>6 DEF OnePass
      <3> QED
        BY <1>1, <3>1, <3>2 DEF MailedSoFar
    <2>8. SentOnce'
      BY <2>7 DEF SentOnce, MailedSoFar
    <2>9. MailsBounded'
      BY <1>1, <2>1, <2>3, KeepsAhead DEF MayReach
    <2>10. Heeded'
      BY <1>1, <2>1, <2>3, <2>4, KeepsDecided
    <2>11. OutreachTypeOK'
      BY <1>1, <2>3, OutreachTypes DEF OutreachTypeOK, OnePass
    <2> QED
      BY <2>8, <2>9, <2>10, <2>11 DEF OutreachInv
  <1> QED
    BY <1>2, <1>3

LEMMA OneFewer ==
  ASSUME NEW S, NEW R, IsFiniteSet(S), NEW x \in S, R \subseteq S \ {x}
  PROVE  IsFiniteSet(R) /\ Cardinality(R) \in Nat /\ Cardinality(S) \in Nat
         /\ Cardinality(R) + 1 <= Cardinality(S)
  <1>1. /\ IsFiniteSet(S \ {x}) /\ Cardinality(S \ {x}) = Cardinality(S) - 1
        /\ Cardinality(S \ {x}) \in Nat /\ Cardinality(S) \in Nat
    BY FS_RemoveElement, FS_CardinalityType
  <1>2. IsFiniteSet(R) /\ Cardinality(R) <= Cardinality(S \ {x}) /\ Cardinality(R) \in Nat
    BY <1>1, FS_Subset, FS_CardinalityType
  <1> QED
    BY <1>1, <1>2

LEMMA SendsMailKeeps ==
  ASSUME OutreachInv, NEW p \in Workers, SendsMail(p)
  PROVE  OutreachInv'
  <1> DEFINE T == Types[pass[p].rule]
  <1>1. /\ pass[p] \in Pass /\ pass[p].pc = "send" /\ T = TypeOf(p)
        /\ jobs' = jobs \union {[type |-> T, nr |-> mailed[T] + 1, tries |-> 3]}
        /\ mailed' = [mailed EXCEPT ![T] = mailed[T] + 1]
        /\ stray' = IF user.out THEN stray + 1 ELSE stray
        /\ UNCHANGED <<age, user, event, inbox, unsure, decided, passes, refusals, faults>>
    BY OutreachTypes DEF SendsMail, counts, TypeOf
  <1> DEFINE q == [pass[p] EXCEPT !.pc = "record"]
  <1>2. q \in Pass /\ q.pc = "record" /\ q.rule = pass[p].rule
    BY <1>1 DEF Pass
  <1>3. pass' = [pass EXCEPT ![p] = q]
    BY DEF SendsMail
  <1>4. PICK j \in 1..4 : j = pass[p].rule
    BY <1>1 DEF Pass
  <1>5. T \in Type /\ T = Types[j]
    BY <1>4, FourTypes
  <1> HIDE DEF q
  <1>6. OnePass(p, q)
    BY <1>2, <1>3, PassMoves
  <1> HIDE DEF T
  <1>7. /\ mailed[T] \in Nat /\ mailed' \in [Type -> Nat] /\ mailed'[T] = mailed[T] + 1
        /\ \A t \in Type : t # T => mailed'[t] = mailed[t]
    BY <1>1, <1>5, OutreachTypes
  <1>8. /\ \A t : At(q, t) <=> At(pass[p], t)
        /\ At(pass[p], T) /\ WillMail(pass[p]) /\ ~ WillMail(q)
    BY <1>1, <1>2 DEF At, WillMail, T
  <1>9. SentOnce'
    <2> SUFFICES ASSUME NEW t \in Type, t \notin unsure' PROVE MailedSoFar(t)'
      BY DEF SentOnce, MailedSoFar
    <2>1. MailedSoFar(t) /\ t \notin unsure
      BY <1>1 DEF OutreachInv, SentOnce
    <2>2. \A o \in Workers : (At(pass'[o], t) <=> At(pass[o], t))
                             /\ (WillMail(pass'[o]) => WillMail(pass[o]) /\ o # p)
                             /\ (pass[o].pc = "record" => pass'[o].pc = "record")
      BY <1>1, <1>6, <1>8 DEF OnePass
    <2>3. CASE t # T
      BY <1>1, <1>7, <2>1, <2>2, <2>3 DEF MailedSoFar
    <2>4. CASE t = T
      <3>1. mailed[T] = 0 /\ mailed'[T] = 1
        BY <1>7, <1>8, <2>1, <2>4 DEF MailedSoFar
      <3>2. pass'[p].pc = "record" /\ At(pass'[p], T)
        BY <1>2, <1>6, <1>8 DEF OnePass
      <3>3. \A o \in Workers : At(pass'[o], T) => o = p
        BY <1>8, <2>1, <2>2, <2>4 DEF MailedSoFar
      <3>4. \A o \in Workers : ~ (At(pass'[o], T) /\ WillMail(pass'[o]))
        BY <2>2, <2>4, <3>3
      <3> QED
        BY <2>4, <3>1, <3>2, <3>3, <3>4 DEF MailedSoFar
    <2> QED
      BY <2>3, <2>4
  <1>10. ASSUME NEW i \in 1..4 PROVE (mailed[Types[i]] + Cardinality(Ahead(i)) <= passes)'
    <2>1. /\ mailed[Types[i]] \in Nat /\ passes \in Nat /\ Types[i] \in Type
          /\ mailed[Types[i]] + Cardinality(Ahead(i)) <= passes
      BY OutreachTypes, FourTypes DEF OutreachInv, MailsBounded
    <2>2. IsFiniteSet(Ahead(i))
      BY FewerAhead
    <2>3. CASE i = j
      <3>1. p \in Ahead(i)
        BY <1>1, <1>4, <2>3 DEF Ahead, MayReach
      <3>2. Ahead(i)' \subseteq Ahead(i) \ {p}
        BY <1>2, <1>4, <1>6, <2>3 DEF Ahead, OnePass, MayReach
      <3>3. /\ Cardinality(Ahead(i)') \in Nat /\ Cardinality(Ahead(i)) \in Nat
            /\ Cardinality(Ahead(i)') + 1 <= Cardinality(Ahead(i))
        BY <2>2, <3>1, <3>2, OneFewer
      <3> QED
        BY <1>1, <1>5, <1>7, <2>1, <2>3, <3>3
    <2>4. CASE i # j
      <3>1. Types[i] # T
        BY <1>5, <2>4, FourTypes
      <3>2. \A k \in 1..4 : MayReach(q, k) => MayReach(pass[p], k)
        BY <1>1, <1>2 DEF MayReach
      <3>3. Ahead(i)' \subseteq Ahead(i)
        BY <1>6, <3>2 DEF Ahead, OnePass
      <3>4. /\ Cardinality(Ahead(i)') <= Cardinality(Ahead(i))
            /\ Cardinality(Ahead(i)') \in Nat /\ Cardinality(Ahead(i)) \in Nat
        BY <3>3, FewerAhead
      <3> QED
        BY <1>1, <1>7, <2>1, <3>1, <3>4
    <2> QED
      BY <2>3, <2>4
  <1>11. MailsBounded'
    BY <1>10 DEF MailsBounded
  <1>12. Heeded'
    <2> SUFFICES ASSUME user.out PROVE (stray + Cardinality(Decided) <= decided)'
      BY <1>1 DEF Heeded
    <2>1. p \in Decided /\ IsFiniteSet(Decided)
      BY <1>1, OutreachTypes, FS_Subset DEF Decided
    <2>2. Decided' \subseteq Decided \ {p}
      BY <1>2, <1>6 DEF Decided, OnePass
    <2>3. /\ Cardinality(Decided') \in Nat /\ Cardinality(Decided) \in Nat
          /\ Cardinality(Decided') + 1 <= Cardinality(Decided)
      BY <2>1, <2>2, OneFewer
    <2>4. stray \in Nat /\ decided \in Nat /\ stray + Cardinality(Decided) <= decided
      BY OutreachTypes DEF OutreachInv, Heeded
    <2> QED
      BY <1>1, <2>3, <2>4
  <1>13. mailed[T] + 1 \in 1..(2 * MaxPasses)
    <2>1. p \in Ahead(j) /\ IsFiniteSet(Ahead(j))
      BY <1>1, <1>4, FewerAhead DEF Ahead, MayReach
    <2>2. Cardinality(Ahead(j)) \in Nat /\ Cardinality({}) + 1 <= Cardinality(Ahead(j))
      BY <2>1, OneFewer
    <2>3. mailed[T] + Cardinality(Ahead(j)) <= passes /\ passes \in 0..MaxPasses /\ MaxPasses \in Nat
      BY <1>5, OutreachTypes DEF OutreachInv, MailsBounded
    <2>4. Cardinality({}) = 0
      BY FS_EmptySet
    <2> QED
      BY <1>7, <2>2, <2>3, <2>4
  <1>14. [type |-> T, nr |-> mailed[T] + 1, tries |-> 3] \in Job
    BY <1>5, <1>13 DEF Job
  <1>15. jobs' \subseteq Job
    BY <1>1, <1>14, OutreachTypes
  <1>16. stray' \in Nat
    BY <1>1, OutreachTypes
  <1>17. OutreachTypeOK'
    BY <1>1, <1>6, <1>7, <1>15, <1>16, OutreachTypes DEF OutreachTypeOK, OnePass
  <1> QED
    BY <1>9, <1>11, <1>12, <1>17 DEF OutreachInv

LEMMA RecordsMailKeeps ==
  ASSUME OutreachInv, NEW p \in Workers, RecordsMail(p)
  PROVE  OutreachInv'
  <1>1. /\ pass[p] \in Pass /\ pass[p].pc = "record" /\ NextRule(p) /\ event' = Recorded(TypeOf(p))
        /\ UNCHANGED <<age, user, jobs, inbox, mailed, unsure, stray, decided, passes,
                       refusals, faults>>
    BY OutreachTypes DEF RecordsMail, mail, told, counts
  <1>2. TypeOf(p) \in Type
    BY <1>1, FourTypes DEF TypeOf, Pass
  <1>3. /\ event' \in [Type -> {"none", "sent", "answered"}] /\ event'[TypeOf(p)] # "none"
        /\ \A t \in Type : event[t] # "none" => event'[t] # "none"
    BY <1>1, <1>2, OutreachTypes DEF Recorded
  <1>4. SentOnce' /\ MailsBounded' /\ Heeded' /\ pass' \in [Workers -> Pass]
    BY <1>1, <1>3, RuleEnds
  <1>5. OutreachTypeOK'
    BY <1>1, <1>3, <1>4, OutreachTypes DEF OutreachTypeOK
  <1> QED
    BY <1>4, <1>5 DEF OutreachInv

LEMMA RuleFailsKeeps ==
  ASSUME OutreachInv, NEW p \in Workers, RuleFails(p)
  PROVE  OutreachInv'
  <1>1. /\ pass[p] \in Pass /\ pass[p].pc # "idle" /\ NextRule(p)
        /\ unsure' = IF pass[p].pc = "record" THEN unsure \union {TypeOf(p)} ELSE unsure
        /\ UNCHANGED <<age, user, event, jobs, inbox, mailed, stray, decided, passes, refusals>>
    BY OutreachTypes DEF RuleFails, mail
  <1>2. TypeOf(p) \in Type
    BY <1>1, FourTypes DEF TypeOf, Pass
  <1>3. SentOnce' /\ MailsBounded' /\ Heeded' /\ pass' \in [Workers -> Pass]
    BY <1>1, RuleEnds
  <1>4. faults' \in 0..MaxFaults
    BY OutreachTypes DEF RuleFails
  <1>5. OutreachTypeOK'
    BY <1>1, <1>2, <1>3, <1>4, OutreachTypes DEF OutreachTypeOK
  <1> QED
    BY <1>3, <1>5 DEF OutreachInv

LEMMA OutreachStopsKeeps ==
  ASSUME OutreachInv, OutreachStops
  PROVE  OutreachInv'
  <1>1. /\ pass' = [p \in Workers |-> NoPass]
        /\ unsure' = unsure \union {TypeOf(p) : p \in {q \in Workers : pass[q].pc = "record"}}
        /\ UNCHANGED <<age, user, event, jobs, inbox, mailed, stray, decided, passes, refusals>>
    BY DEF OutreachStops, mail
  <1>2. pass' \in [Workers -> Pass] /\ \A p \in Workers : pass'[p].pc = "idle"
    BY <1>1, NoPassTyped
  <1>3. \A p \in Workers : TypeOf(p) \in Type
    BY OutreachTypes, FourTypes DEF TypeOf, Pass
  <1>4. unsure \subseteq unsure' /\ unsure' \subseteq Type
    BY <1>1, <1>3, OutreachTypes
  <1>5. SentOnce'
    <2> SUFFICES ASSUME NEW t \in Type, t \notin unsure' PROVE MailedSoFar(t)'
      BY DEF SentOnce, MailedSoFar
    <2>1. MailedSoFar(t) /\ t \notin unsure
      BY <1>4 DEF OutreachInv, SentOnce
    <2>2. ~ \E p \in Workers : pass[p].pc = "record" /\ At(pass[p], t)
      BY <1>1 DEF At, TypeOf
    <2>3. \A p \in Workers : ~ At(pass'[p], t)
      BY <1>2 DEF At
    <2> QED
      BY <1>1, <2>1, <2>2, <2>3 DEF MailedSoFar
  <1>6. MailsBounded'
    <2>1. ASSUME NEW i \in 1..4 PROVE (mailed[Types[i]] + Cardinality(Ahead(i)) <= passes)'
      <3>1. Ahead(i)' \subseteq Ahead(i)
        BY <1>2 DEF Ahead, MayReach
      <3>2. Cardinality(Ahead(i)') <= Cardinality(Ahead(i))
            /\ Cardinality(Ahead(i)') \in Nat /\ Cardinality(Ahead(i)) \in Nat
        BY <3>1, FewerAhead
      <3>3. /\ mailed[Types[i]] \in Nat /\ passes \in Nat
            /\ mailed[Types[i]] + Cardinality(Ahead(i)) <= passes
        BY OutreachTypes, FourTypes DEF OutreachInv, MailsBounded
      <3> QED
        BY <1>1, <3>2, <3>3
    <2> QED
      BY <2>1 DEF MailsBounded
  <1>7. Heeded'
    <2> SUFFICES ASSUME user.out PROVE (stray + Cardinality(Decided) <= decided)'
      BY <1>1 DEF Heeded
    <2>1. Decided' \subseteq Decided /\ IsFiniteSet(Decided)
      BY <1>2, OutreachTypes, FS_Subset DEF Decided
    <2>2. /\ Cardinality(Decided') <= Cardinality(Decided)
          /\ Cardinality(Decided') \in Nat /\ Cardinality(Decided) \in Nat
      BY <2>1, FS_Subset, FS_CardinalityType
    <2>3. stray \in Nat /\ decided \in Nat /\ stray + Cardinality(Decided) <= decided
      BY OutreachTypes DEF OutreachInv, Heeded
    <2> QED
      BY <1>1, <2>2, <2>3
  <1>8. faults' \in 0..MaxFaults
    BY OutreachTypes DEF OutreachStops
  <1>9. OutreachTypeOK'
    BY <1>1, <1>2, <1>4, <1>8, OutreachTypes DEF OutreachTypeOK
  <1> QED
    BY <1>5, <1>6, <1>7, <1>9 DEF OutreachInv

\* A step that no pass takes.
LEMMA PassesWait ==
  ASSUME OutreachInv, UNCHANGED <<pass, mailed, unsure, passes>>,
         \A t \in Type : event[t] # "none" => event'[t] # "none"
  PROVE  /\ SentOnce' /\ MailsBounded'
         /\ (user'.out = user.out /\ UNCHANGED <<stray, decided>> => Heeded')
  <1>1. ASSUME NEW t \in Type PROVE MailedSoFar(t)'
    BY DEF OutreachInv, SentOnce, MailedSoFar
  <1>2. \A i \in 1..4 : Ahead(i)' = Ahead(i)
    BY DEF Ahead
  <1>3. Decided' = Decided
    BY DEF Decided
  <1> QED
    BY <1>1, <1>2, <1>3 DEF OutreachInv, SentOnce, MailsBounded, Heeded

LEMMA QueueKeeps ==
  ASSUME OutreachInv, NEW j \in jobs, JobSucceeds(j) \/ JobFails(j)
  PROVE  OutreachInv'
  <1>1. UNCHANGED <<age, user, event, pass, mailed, unsure, stray, decided, passes, faults>>
    BY DEF JobSucceeds, JobFails, told, counts
  <1>2. j \in Job
    BY OutreachTypes
  <1>3. j.tries # 1 => [j EXCEPT !.tries = @ - 1] \in Job
    <2> SUFFICES ASSUME j.tries # 1 PROVE [j EXCEPT !.tries = @ - 1] \in Job
      OBVIOUS
    <2>1. PICK k \in 1..3 : k = j.tries - 1
      BY <1>2 DEF Job
    <2>2. [j EXCEPT !.tries = k] \in Job
      BY <1>2 DEF Job
    <2> QED
      BY <2>1, <2>2
  <1>4. jobs' \subseteq Job /\ inbox' \subseteq Type /\ refusals' \in 0..MaxRefusals
    <2>1. j.type \in Type
      BY <1>2 DEF Job
    <2>2. jobs' \subseteq Job
      BY <1>3, OutreachTypes DEF JobSucceeds, JobFails
    <2>3. inbox' \subseteq Type
      BY <2>1, OutreachTypes DEF JobSucceeds, JobFails
    <2>4. refusals' \in 0..MaxRefusals
      BY OutreachTypes DEF JobSucceeds, JobFails, counts
    <2> QED
      BY <2>2, <2>3, <2>4
  <1>5. SentOnce' /\ MailsBounded' /\ Heeded'
    BY <1>1, PassesWait
  <1>6. OutreachTypeOK'
    BY <1>1, <1>4, OutreachTypes DEF OutreachTypeOK
  <1> QED
    BY <1>5, <1>6 DEF OutreachInv

LEMMA UserKeeps ==
  ASSUME OutreachInv, Ages \/ CompletesOnboarding \/ Books
  PROVE  OutreachInv'
  <1>1. UNCHANGED <<event, pass, jobs, inbox, mailed, unsure, stray, decided, passes, refusals, faults>>
    BY DEF Ages, CompletesOnboarding, Books, mail, told, counts
  <1>2. age' \in 0..Oldest
    BY OutreachTypes DEF Ages, CompletesOnboarding, Books, Oldest
  <1>3. user' \in [complete: BOOLEAN, out: BOOLEAN, booked: BOOLEAN] /\ user'.out = user.out
    BY OutreachTypes DEF Ages, CompletesOnboarding, Books
  <1>4. SentOnce' /\ MailsBounded' /\ Heeded'
    BY <1>1, <1>3, PassesWait
  <1>5. OutreachTypeOK'
    BY <1>1, <1>2, <1>3, OutreachTypes DEF OutreachTypeOK
  <1> QED
    BY <1>4, <1>5 DEF OutreachInv

LEMMA RecordAnswerKeeps ==
  ASSUME OutreachInv, NEW t \in Type, RecordAnswer(t)
  PROVE  OutreachInv'
  <1>1. UNCHANGED <<age, user, pass, jobs, inbox, mailed, unsure, stray, decided, passes,
                    refusals, faults>>
    BY DEF RecordAnswer, mail, told, counts
  <1>2. /\ event' \in [Type -> {"none", "sent", "answered"}]
        /\ \A s \in Type : event[s] # "none" => event'[s] # "none"
    BY OutreachTypes DEF RecordAnswer
  <1>3. SentOnce' /\ MailsBounded' /\ Heeded'
    BY <1>1, <1>2, PassesWait
  <1>4. OutreachTypeOK'
    BY <1>1, <1>2, OutreachTypes DEF OutreachTypeOK
  <1> QED
    BY <1>3, <1>4 DEF OutreachInv

LEMMA SetOptOutKeeps ==
  ASSUME OutreachInv, NEW resubscribe \in BOOLEAN, SetOptOut(resubscribe)
  PROVE  OutreachInv'
  <1>1. UNCHANGED <<age, event, pass, jobs, inbox, mailed, unsure, passes, refusals, faults>>
    BY DEF SetOptOut, mail, counts
  <1>2. user' \in [complete: BOOLEAN, out: BOOLEAN, booked: BOOLEAN]
    <2>1. PICK b \in BOOLEAN : b = ~ resubscribe
      OBVIOUS
    <2>2. user' = [user EXCEPT !.out = b]
      BY <2>1 DEF SetOptOut
    <2> QED
      BY <2>2, OutreachTypes
  <1>3. IsFiniteSet(Decided) /\ Cardinality(Decided) \in Nat
    BY OutreachTypes, FS_Subset, FS_CardinalityType DEF Decided
  <1>4. stray' = 0 /\ decided' = Cardinality(Decided) /\ Decided' = Decided
    BY <1>1 DEF SetOptOut, Decided
  <1>5. SentOnce' /\ MailsBounded'
    BY <1>1, PassesWait
  <1>6. Heeded'
    BY <1>3, <1>4 DEF Heeded
  <1>7. stray' \in Nat /\ decided' \in Nat
    BY <1>3, <1>4
  <1>8. OutreachTypeOK'
    BY <1>1, <1>2, <1>7, OutreachTypes DEF OutreachTypeOK
  <1> QED
    BY <1>5, <1>6, <1>8 DEF OutreachInv

LEMMA OutreachContinues == OutreachInv /\ [OutreachNext]_outreachVars => OutreachInv'
  <1> SUFFICES ASSUME OutreachInv, [OutreachNext]_outreachVars PROVE OutreachInv'
    OBVIOUS
  <1>1. CASE \E p \in Workers : Passing(p)
    BY <1>1, PassBeginsKeeps, ReadsEventsKeeps, ReadsUsersKeeps, SendsMailKeeps,
       RecordsMailKeeps, RuleFailsKeeps DEF Passing
  <1>2. CASE OutreachStops
    BY <1>2, OutreachStopsKeeps
  <1>3. CASE \E j \in jobs : JobSucceeds(j) \/ JobFails(j)
    BY <1>3, QueueKeeps
  <1>4. CASE Ages \/ CompletesOnboarding \/ Books
    BY <1>4, UserKeeps
  <1>5. CASE \E t \in Type : RecordAnswer(t)
    BY <1>5, RecordAnswerKeeps
  <1>6. CASE \E resubscribe \in BOOLEAN : SetOptOut(resubscribe)
    BY <1>6, SetOptOutKeeps
  <1>7. CASE UNCHANGED outreachVars
    <2>1. UNCHANGED <<age, user, event, pass, jobs, inbox, mailed, unsure, stray, decided,
                      passes, refusals, faults>>
      BY <1>7 DEF outreachVars
    <2>2. SentOnce' /\ MailsBounded' /\ Heeded'
      BY <2>1, PassesWait
    <2> QED
      BY <2>1, <2>2 DEF OutreachInv, OutreachTypeOK
  <1> QED
    BY <1>1, <1>2, <1>3, <1>4, <1>5, <1>6, <1>7 DEF OutreachNext

LEMMA OutreachHolds == OutreachSpec => []OutreachInv
  BY OutreachBegins, OutreachContinues, PTL DEF OutreachSpec

\* The passes, the rows of the mails and the queue have their types; no kind of
\* mail is put into the queue more often than there were passes.
THEOREM OutreachTyped == OutreachSpec => []OutreachTypeOK
  <1>1. OutreachInv => OutreachTypeOK
    BY DEF OutreachInv
  <1> QED
    BY <1>1, OutreachHolds, PTL

\* Each kind of mail is sent once, unless two passes were at it or its row was
\* not written, and after the opt-out no more than passes had decided before.
THEOREM MailWanted == OutreachSpec => []MailIsWanted
  <1>1. ASSUME OutreachInv PROVE MailIsWanted
    <2>1. MailedOnce
      BY <1>1, OutreachTypes DEF MailedOnce, OutreachInv, SentOnce, MailedSoFar
    <2>2. OptOutIsHeeded
      <3>1. IsFiniteSet(Decided) /\ Cardinality(Decided) \in Nat
        BY <1>1, OutreachTypes, FS_Subset, FS_CardinalityType DEF Decided
      <3>2. stray \in Nat /\ decided \in Nat
        BY <1>1, OutreachTypes
      <3> QED
        BY <1>1, <3>1, <3>2 DEF OptOutIsHeeded, OutreachInv, Heeded
    <2> QED
      BY <2>1, <2>2 DEF MailIsWanted
  <1> QED
    BY <1>1, OutreachHolds, PTL

-----------------------------------------------------------------------------
(* Part 7: the reminders.  A pass that will remind of a lesson looked at the *)
(* hour of its window; once that hour's job has begun, the lesson has been   *)
(* reminded or a pass of that hour will do it.                               *)

\* What a pass has found stands in the window of the hour it has read.
InTime(q, l) == promised[l] # NoHour => q.at = lesson[l].start - q.ahead
JobFits(q) ==
    /\ q.pc = "idle" => q = NoJob
    /\ q.at <= hour
    /\ q.pc \in {"recent", "send", "record"} =>
         \A l \in q.todo : lesson[l].status # "none" /\ InTime(q, l)
    /\ q.pc = "record" => /\ q.one \in Lessons /\ reminded[<<q.one, q.ahead>>] > 0
                          /\ lesson[q.one].status # "none" /\ InTime(q, q.one)
    /\ q.pc \in {"send", "record"} /\ ~ twice =>
         \A l \in q.todo : promised[l] # NoHour => reminded[<<l, q.ahead>>] = 0
JobsFit == \A j \in Jobs : JobFits(job[j])

Sends(q) == q.pc \in {"send", "record"}
OneSends == ~ twice => \A i, j \in Jobs :
    Sends(job[i]) /\ Sends(job[j]) /\ job[i].ahead = job[j].ahead => i = j

LessonFits(l) ==
    /\ lesson[l].status = "none" =>
         promised[l] = NoHour /\ \A k \in Kinds : reminded[<<l, k>>] = 0
    /\ promised[l] # NoHour =>
         promised[l] <= hour /\ (hour <= lesson[l].start => lesson[l].status = "scheduled")
LessonsFit == \A l \in Lessons : LessonFits(l)

Noticed(l, k) == \E h \in notice[<<l, k>>] : h >= lesson[l].start - k
BeingNoticed(l, k) == \E j \in Jobs :
    job[j].pc = "record" /\ job[j].one = l /\ job[j].ahead = k
OneReminder(l, k) ==
    /\ notice[<<l, k>>] # {} => reminded[<<l, k>>] > 0
    /\ promised[l] # NoHour /\ ~ twice =>
         /\ reminded[<<l, k>>] <= 1
         /\ reminded[<<l, k>>] > 0 => Noticed(l, k) \/ BeingNoticed(l, k)
OneEach == \A l \in Lessons, k \in Kinds : OneReminder(l, k)

\* The pass has lesson l still before it in the check that looks k hours ahead.
WillRemind(q, l, k) ==
    \/ q.pc = "find" /\ q.ahead <= k
    \/ q.pc # "idle" /\ q.ahead < k
    \/ q.pc \in {"recent", "send", "record"} /\ q.ahead = k /\ l \in q.todo
Owed(l, k, h) ==
    /\ promised[l] # NoHour /\ promised[l] < h /\ h = lesson[l].start - k
    /\ h \notin lapsed /\ (hour > h \/ (hour = h /\ fired))
Assured(l, k, h) ==
    \/ reminded[<<l, k>>] > 0
    \/ \E j \in Jobs : job[j].at = h /\ WillRemind(job[j], l, k)
NoneForgotten == \A l \in Lessons, k \in Kinds, h \in Hours : Owed(l, k, h) => Assured(l, k, h)

RemindersInv ==
    RemindersTypeOK /\ JobsFit /\ OneSends /\ LessonsFit /\ OneEach /\ NoneForgotten

LessonRow == [status: {"none", "scheduled", "over"}, start: Hours]

LEMMA NoJobTyped ==
  /\ NoJob \in Job1 /\ NoJob.pc = "idle" /\ NoJob.ahead = 1 /\ NoJob.todo = {}
  /\ NoJob.at = 0 /\ 1 \in Kinds /\ LongAhead \in Kinds /\ LongAhead \in Nat /\ LongAhead > 1
  /\ \A k \in Kinds : k \in Nat /\ k >= 1 /\ (k = 1 \/ k = LongAhead)
  /\ 0 \in Hours /\ LastHour \in Nat
  BY RemindersAssumption DEF NoJob, Job1, Kinds, Hours

LEMMA RemindersTypes ==
  ASSUME RemindersInv
  PROVE  /\ hour \in Hours /\ hour \in Nat /\ fired \in BOOLEAN
         /\ lesson \in [Lessons -> LessonRow] /\ \A l \in Lessons : lesson[l] \in LessonRow
         /\ notice \in [Lessons \X Kinds -> SUBSET Hours]
         /\ job \in [Jobs -> Job1] /\ \A j \in Jobs : job[j] \in Job1
         /\ reminded \in [Lessons \X Kinds -> Nat]
         /\ \A l \in Lessons, k \in Kinds : reminded[<<l, k>>] \in Nat
         /\ promised \in [Lessons -> Hours \union {NoHour}]
         /\ \A l \in Lessons : promised[l] # NoHour => promised[l] \in Nat
         /\ lapsed \subseteq Hours /\ twice \in BOOLEAN
         /\ moves \in 0..MaxMoves /\ lapses \in 0..MaxLapses
         /\ MaxMoves \in Nat /\ MaxLapses \in Nat
  BY RemindersAssumption DEF RemindersInv, RemindersTypeOK, LessonRow, Hours

\* Only pass j changes.
OneJob(j, q) == /\ job' \in [Jobs -> Job1] /\ job'[j] = q
                /\ \A i \in Jobs : i # j => job'[i] = job[i]

LEMMA JobMoves ==
  ASSUME RemindersInv, NEW j \in Jobs, NEW q \in Job1, job' = [job EXCEPT ![j] = q]
  PROVE  OneJob(j, q)
  BY RemindersTypes DEF OneJob

LEMMA CheckEndsIs ==
  ASSUME RemindersInv, NEW j \in Jobs, NEW ok \in BOOLEAN, CheckEnds(j, ok)
  PROVE  \E q \in Job1 : /\ OneJob(j, q) /\ ~ Sends(q) /\ q.todo = {}
                         /\ \/ ok /\ job[j].ahead = 1 /\ q.pc = "find"
                               /\ q.ahead = LongAhead /\ q.at = job[j].at
                            \/ ~ (ok /\ job[j].ahead = 1) /\ q = NoJob
  <1>1. job[j] \in Job1
    BY RemindersTypes
  <1>2. CASE ok /\ job[j].ahead = 1
    <2> DEFINE q == [job[j] EXCEPT !.pc = "find", !.ahead = LongAhead,
                                   !.todo = {}, !.one = NoHour]
    <2>1. /\ q \in Job1 /\ q.pc = "find" /\ q.ahead = LongAhead /\ q.at = job[j].at
          /\ q.todo = {}
      BY <1>1, NoJobTyped DEF Job1
    <2>2. job' = [job EXCEPT ![j] = q]
      BY <1>2 DEF CheckEnds
    <2> HIDE DEF q
    <2> QED
      BY <1>2, <2>1, <2>2, JobMoves DEF Sends
  <1>3. CASE ~ (ok /\ job[j].ahead = 1)
    <2>1. job' = [job EXCEPT ![j] = NoJob]
      BY <1>3 DEF CheckEnds
    <2> QED
      BY <1>3, <2>1, NoJobTyped, JobMoves DEF Sends
  <1> QED
    BY <1>2, <1>3

LEMMA RemindersBegin == RemindersInit => RemindersInv
  <1> SUFFICES ASSUME RemindersInit PROVE RemindersInv
    OBVIOUS
  <1>1. /\ \A j \in Jobs : job[j] = NoJob
        /\ \A l \in Lessons : lesson[l] = [status |-> "none", start |-> 0] /\ promised[l] = NoHour
        /\ \A l \in Lessons, k \in Kinds : notice[<<l, k>>] = {} /\ reminded[<<l, k>>] = 0
        /\ hour = 0
    BY DEF RemindersInit
  <1>2. RemindersTypeOK
    <2>1. hour \in Hours /\ fired \in BOOLEAN /\ lapsed \subseteq Hours /\ twice \in BOOLEAN
      BY NoJobTyped DEF RemindersInit
    <2>0. moves \in 0..MaxMoves /\ lapses \in 0..MaxLapses
      BY RemindersAssumption DEF RemindersInit
    <2>2. lesson \in [Lessons -> [status: {"none", "scheduled", "over"}, start: Hours]]
      BY NoJobTyped DEF RemindersInit
    <2>3. notice \in [Lessons \X Kinds -> SUBSET Hours] /\ reminded \in [Lessons \X Kinds -> Nat]
      BY DEF RemindersInit
    <2>4. job \in [Jobs -> Job1] /\ promised \in [Lessons -> Hours \union {NoHour}]
      BY NoJobTyped DEF RemindersInit
    <2> QED
      BY <2>1, <2>2, <2>3, <2>4, <2>0 DEF RemindersTypeOK
  <1>3. JobsFit /\ OneSends
    BY <1>1, NoJobTyped DEF JobsFit, JobFits, OneSends, Sends
  <1>4. LessonsFit
    BY <1>1 DEF LessonsFit, LessonFits
  <1>5. OneEach /\ NoneForgotten
    BY <1>1 DEF OneEach, OneReminder, NoneForgotten, Owed
  <1> QED
    BY <1>2, <1>3, <1>4, <1>5 DEF RemindersInv

\* What the steps of the passes leave alone.
SamePlans == UNCHANGED <<hour, lesson, promised, moves>>

LEMMA PlansStay ==
  ASSUME RemindersInv, SamePlans, UNCHANGED reminded
  PROVE  LessonsFit'
  BY DEF SamePlans, RemindersInv, LessonsFit, LessonFits

\* A pass that only looks, or is over: nothing is sent and nothing recorded.
LEMMA JobTurns ==
  ASSUME RemindersInv, NEW j \in Jobs, NEW q \in Job1, OneJob(j, q), SamePlans,
         UNCHANGED <<reminded, notice>>, twice' \in BOOLEAN, twice => twice',
         JobFits(q)', job[j].pc = "record" => twice' \/ q = job[j],
         ~ twice' /\ Sends(q) /\ ~ Sends(job[j]) =>
             \A i \in Jobs : i # j => ~ (Sends(job[i]) /\ job[i].ahead = q.ahead),
         Sends(q) /\ Sends(job[j]) => q.ahead = job[j].ahead
  PROVE  JobsFit' /\ OneSends' /\ LessonsFit' /\ OneEach'
  <1>1. ASSUME NEW i \in Jobs PROVE JobFits(job[i])'
    <2>1. CASE i = j
      BY <2>1 DEF OneJob, JobFits, InTime
    <2>2. CASE i # j
      <3>1. job'[i] = job[i] /\ JobFits(job[i])
        BY <2>2 DEF OneJob, RemindersInv, JobsFit
      <3> QED
        BY <3>1 DEF JobFits, InTime, SamePlans
    <2> QED
      BY <2>1, <2>2
  <1>2. OneSends'
    BY DEF OneSends, RemindersInv, OneJob, Sends
  <1>3. ASSUME NEW l \in Lessons, NEW k \in Kinds PROVE OneReminder(l, k)'
    <2>1. OneReminder(l, k)
      BY DEF RemindersInv, OneEach
    <2>2. ~ twice' /\ BeingNoticed(l, k) => BeingNoticed(l, k)'
      BY DEF BeingNoticed, OneJob
    <2>3. Noticed(l, k)' <=> Noticed(l, k)
      BY DEF Noticed, SamePlans
    <2> QED
      BY <2>1, <2>2, <2>3 DEF OneReminder, SamePlans
  <1> QED
    BY <1>1, <1>2, <1>3, PlansStay DEF JobsFit, OneEach

\* The lessons a pass of that hour will remind of stay so, or are reminded.
LEMMA StillAssured ==
  ASSUME RemindersInv, NEW j \in Jobs, NEW q \in Job1, OneJob(j, q), SamePlans,
         fired' = fired, lapsed \subseteq lapsed', NEW h0 \in Hours, job[j].at = h0,
         \A l \in Lessons, k \in Kinds : reminded[<<l, k>>] > 0 => reminded'[<<l, k>>] > 0,
         \A l \in Lessons, k \in Kinds :
            WillRemind(job[j], l, k) /\ Owed(l, k, h0) /\ h0 \notin lapsed'
            => reminded'[<<l, k>>] > 0 \/ (q.at = h0 /\ WillRemind(q, l, k))
  PROVE  NoneForgotten'
  <1> SUFFICES ASSUME NEW l \in Lessons, NEW k \in Kinds, NEW h \in Hours, Owed(l, k, h)'
               PROVE  Assured(l, k, h)'
    BY DEF NoneForgotten
  <1>1. Owed(l, k, h) /\ h \notin lapsed'
    BY DEF Owed, SamePlans
  <1>2. Assured(l, k, h)
    BY <1>1 DEF RemindersInv, NoneForgotten
  <1>3. CASE reminded[<<l, k>>] > 0
    BY <1>3 DEF Assured
  <1>4. ASSUME NEW i \in Jobs, job[i].at = h, WillRemind(job[i], l, k) PROVE Assured(l, k, h)'
    <2>1. CASE i # j
      <3>1. job'[i] = job[i]
        BY <2>1 DEF OneJob
      <3> QED
        BY <1>4, <3>1 DEF Assured, WillRemind
    <2>2. CASE i = j
      <3>1. reminded'[<<l, k>>] > 0 \/ (q.at = h /\ WillRemind(q, l, k))
        BY <1>1, <1>4, <2>2
      <3>2. job'[j] = q
        BY DEF OneJob
      <3> QED
        BY <3>1, <3>2 DEF Assured, WillRemind
    <2> QED
      BY <2>1, <2>2
  <1> QED
    BY <1>2, <1>3, <1>4 DEF Assured

LEMMA CronFiresKeeps ==
  ASSUME RemindersInv, NEW j \in Jobs, CronFires(j)
  PROVE  RemindersInv'
  <1>1. /\ job[j] = NoJob /\ ~ fired /\ fired' = TRUE
        /\ UNCHANGED <<hour, lesson, notice, reminded, promised, lapsed, twice, moves, lapses>>
    BY DEF CronFires, lessonHistory, RemindersInv, JobsFit, JobFits
  <1>2. PICK q \in Job1 : /\ q = [NoJob EXCEPT !.pc = "find", !.at = hour]
                          /\ q.pc = "find" /\ q.at = hour /\ q.ahead = 1
    <2> DEFINE r == [NoJob EXCEPT !.pc = "find", !.at = hour]
    <2>1. r \in Job1 /\ r.pc = "find" /\ r.at = hour /\ r.ahead = 1
      BY RemindersTypes, NoJobTyped DEF NoJob, Job1
    <2> QED
      BY <2>1
  <1>3. job' = [job EXCEPT ![j] = q]
    <2>1. job' = [job EXCEPT ![j] = [job[j] EXCEPT !.pc = "find", !.at = hour]]
      BY DEF CronFires
    <2> QED
      BY <1>1, <1>2, <2>1
  <1>4. OneJob(j, q)
    BY <1>2, <1>3, JobMoves
  <1>5. JobFits(q)'
    BY <1>1, <1>2, RemindersTypes DEF JobFits
  <1>6. JobsFit' /\ OneSends' /\ LessonsFit' /\ OneEach'
    BY <1>1, <1>2, <1>4, <1>5, JobTurns, NoJobTyped, RemindersTypes DEF SamePlans, Sends
  <1>7. NoneForgotten'
    <2> SUFFICES ASSUME NEW l \in Lessons, NEW k \in Kinds, NEW h \in Hours, Owed(l, k, h)'
                 PROVE  Assured(l, k, h)'
      BY DEF NoneForgotten
    <2>1. CASE h = hour
      <3>1. WillRemind(q, l, k)
        BY <1>2, NoJobTyped DEF WillRemind
      <3> QED
        BY <1>2, <1>4, <2>1, <3>1 DEF Assured, OneJob, WillRemind
    <2>2. CASE h # hour
      <3>1. Owed(l, k, h)
        BY <1>1, <2>2 DEF Owed
      <3>2. Assured(l, k, h)
        BY <3>1 DEF RemindersInv, NoneForgotten
      <3>3. \A i \in Jobs : WillRemind(job[i], l, k) => i # j
        BY <1>1, NoJobTyped DEF WillRemind
      <3> QED
        BY <1>1, <1>4, <3>2, <3>3 DEF Assured, OneJob, WillRemind
    <2> QED
      BY <2>1, <2>2
  <1>8. RemindersTypeOK'
    BY <1>1, <1>4, RemindersTypes DEF RemindersTypeOK, OneJob, LessonRow
  <1> QED
    BY <1>6, <1>7, <1>8 DEF RemindersInv

LEMMA CronMissedKeeps ==
  ASSUME RemindersInv, CronMissed
  PROVE  RemindersInv'
  <1>1. /\ fired' = TRUE /\ lapsed' = lapsed \union {hour} /\ lapses < MaxLapses /\ lapses' = lapses + 1
        /\ UNCHANGED <<hour, lesson, notice, job, reminded, promised, twice, moves>>
    BY DEF CronMissed
  <1>2. JobsFit' /\ OneSends' /\ LessonsFit' /\ OneEach'
    BY <1>1 DEF RemindersInv, JobsFit, JobFits, InTime, OneSends, Sends, LessonsFit, LessonFits,
       OneEach, OneReminder, Noticed, BeingNoticed
  <1>3. NoneForgotten'
    <2> SUFFICES ASSUME NEW l \in Lessons, NEW k \in Kinds, NEW h \in Hours, Owed(l, k, h)'
                 PROVE  Assured(l, k, h)'
      BY DEF NoneForgotten
    <2>1. Owed(l, k, h)
      BY <1>1 DEF Owed
    <2> QED
      BY <1>1, <2>1 DEF RemindersInv, NoneForgotten, Assured, WillRemind
  <1>4. lapsed' \subseteq Hours /\ lapses' \in 0..MaxLapses
    BY <1>1, RemindersTypes
  <1>5. RemindersTypeOK'
    BY <1>1, <1>4, RemindersTypes DEF RemindersTypeOK, LessonRow
  <1> QED
    BY <1>2, <1>3, <1>5 DEF RemindersInv

LEMMA FindsSessionsKeeps ==
  ASSUME RemindersInv, NEW j \in Jobs, FindsSessions(j)
  PROVE  RemindersInv'
  <1>1. /\ job[j] \in Job1 /\ job[j].pc = "find" /\ JobFits(job[j])
        /\ lapsed' = IF job[j].at = hour THEN lapsed ELSE lapsed \union {job[j].at}
        /\ UNCHANGED <<hour, fired, lesson, notice, reminded, promised, twice, moves, lapses>>
    BY RemindersTypes DEF FindsSessions, RemindersInv, JobsFit
  <1>2. PICK S \in SUBSET Lessons : S = {l \in Lessons : InWindow(l, job[j].ahead)}
    OBVIOUS
  <1>3. PICK q \in Job1 :
          /\ q = [job[j] EXCEPT !.pc = "recent", !.at = hour, !.todo = S]
          /\ q.pc = "recent" /\ q.at = hour /\ q.todo = S /\ q.ahead = job[j].ahead
    <2> DEFINE r == [job[j] EXCEPT !.pc = "recent", !.at = hour, !.todo = S]
    <2>1. r \in Job1 /\ r.pc = "recent" /\ r.at = hour /\ r.todo = S /\ r.ahead = job[j].ahead
      BY <1>1, RemindersTypes DEF Job1
    <2> QED
      BY <2>1
  <1>4. job' = [job EXCEPT ![j] = q]
    BY <1>2, <1>3 DEF FindsSessions
  <1>5. OneJob(j, q)
    BY <1>3, <1>4, JobMoves
  <1>6. job[j].ahead \in Kinds /\ job[j].ahead \in Nat /\ hour \in Nat /\ job[j].at \in Hours
    BY <1>1, RemindersTypes, NoJobTyped DEF Job1
  <1>7. ASSUME NEW l \in S PROVE lesson[l].status # "none" /\ InTime(q, l)
    <2>1. lesson[l].status = "scheduled" /\ lesson[l].start = hour + job[j].ahead
      BY <1>2 DEF InWindow
    <2> QED
      BY <1>3, <1>6, <2>1 DEF InTime
  <1>8. JobFits(q)'
    <2>1. \A l \in S : InTime(q, l)'
      BY <1>1, <1>7 DEF InTime
    <2>2. hour' = hour /\ lesson' = lesson /\ hour <= hour
      BY <1>1, <1>6
    <2> QED
      BY <1>3, <1>7, <2>1, <2>2 DEF JobFits
  <1>9. JobsFit' /\ OneSends' /\ LessonsFit' /\ OneEach'
    BY <1>1, <1>3, <1>5, <1>8, JobTurns, RemindersTypes DEF SamePlans, Sends
  <1>10. ASSUME NEW l \in Lessons, NEW k \in Kinds, WillRemind(job[j], l, k),
                Owed(l, k, job[j].at), job[j].at \notin lapsed'
         PROVE  q.at = job[j].at /\ WillRemind(q, l, k)
    <2>1. job[j].at = hour
      BY <1>1, <1>10
    <2>2. k \in Nat /\ k >= 1 /\ lesson[l].start \in Nat
      BY NoJobTyped, RemindersTypes DEF LessonRow, Hours
    <2>3. promised[l] # NoHour /\ hour = lesson[l].start - k
      BY <1>10, <2>1 DEF Owed
    <2>4. lesson[l].status = "scheduled" /\ lesson[l].start = hour + k
      BY <1>6, <2>2, <2>3 DEF RemindersInv, LessonsFit, LessonFits
    <2>5. job[j].ahead <= k
      BY <1>1, <1>6, <1>10, <2>2 DEF WillRemind
    <2>6. job[j].ahead = k => l \in S
      BY <1>2, <2>4 DEF InWindow
    <2>7. job[j].ahead = k \/ job[j].ahead < k
      BY <1>6, <2>2, <2>5
    <2> QED
      BY <1>3, <2>1, <2>6, <2>7 DEF WillRemind
  <1>11. lapsed \subseteq lapsed' /\ lapsed' \subseteq Hours
    BY <1>1, <1>6, RemindersTypes
  <1>12. NoneForgotten'
    <2>1. PICK h0 \in Hours : h0 = job[j].at
      BY <1>6
    <2>2. \A l \in Lessons, k \in Kinds :
            WillRemind(job[j], l, k) /\ Owed(l, k, h0) /\ h0 \notin lapsed'
            => q.at = h0 /\ WillRemind(q, l, k)
      BY <1>10, <2>1
    <2> QED
      BY <1>1, <1>5, <1>11, <2>1, <2>2, StillAssured DEF SamePlans
  <1>13. RemindersTypeOK'
    BY <1>1, <1>5, <1>11, RemindersTypes DEF RemindersTypeOK, OneJob, LessonRow
  <1> QED
    BY <1>9, <1>12, <1>13 DEF RemindersInv

LEMMA ReadsRecentKeeps ==
  ASSUME RemindersInv, NEW j \in Jobs, ReadsRecent(j)
  PROVE  RemindersInv'
  <1>1. /\ job[j] \in Job1 /\ job[j].pc = "recent" /\ JobFits(job[j])
        /\ UNCHANGED <<hour, fired, lesson, notice, reminded, promised, lapsed, moves, lapses>>
    BY RemindersTypes DEF ReadsRecent, RemindersInv, JobsFit
  <1>2. PICK left \in SUBSET Lessons :
          left = {l \in job[j].todo : ~ Recent(l, job[j].ahead, job[j].at)}
    BY <1>1 DEF Job1
  <1>3. /\ twice' = (twice \/ \E i \in Jobs \ {j} :
                       job[i].pc \in {"send", "record"} /\ job[i].ahead = job[j].ahead)
        /\ left = {} => CheckEnds(j, TRUE)
        /\ left # {} => job' = [job EXCEPT ![j].pc = "send", ![j].todo = left]
    BY <1>2 DEF ReadsRecent
  <1>4. twice' \in BOOLEAN /\ (twice => twice')
    BY <1>3, RemindersTypes
  <1>5. PICK h0 \in Hours : h0 = job[j].at
    BY <1>1 DEF Job1
  <1>6. job[j].ahead \in Kinds /\ job[j].ahead \in Nat /\ h0 \in Nat /\ hour \in Nat
    <2>1. job[j].ahead \in Kinds
      BY <1>1 DEF Job1
    <2>2. h0 \in Nat
      BY DEF Hours
    <2> QED
      BY <2>1, <2>2, RemindersTypes, NoJobTyped
  \* What was reminded of lately has been reminded of.
  <1>7. ASSUME NEW l \in job[j].todo, l \notin left PROVE reminded[<<l, job[j].ahead>>] > 0
    <2>1. l \in Lessons
      BY <1>1 DEF Job1
    <2>2. Recent(l, job[j].ahead, job[j].at)
      BY <1>2, <1>7
    <2>3. notice[<<l, job[j].ahead>>] # {}
      BY <2>2 DEF Recent
    <2> QED
      BY <1>6, <2>1, <2>3 DEF RemindersInv, OneEach, OneReminder
  <1>8. CASE left = {}
    <2>1. PICK q \in Job1 : /\ OneJob(j, q) /\ ~ Sends(q) /\ q.todo = {}
                            /\ \/ job[j].ahead = 1 /\ q.pc = "find"
                                  /\ q.ahead = LongAhead /\ q.at = job[j].at
                               \/ job[j].ahead # 1 /\ q = NoJob
      BY <1>3, <1>8, CheckEndsIs
    <2>2. q.at <= hour /\ (q.pc = "idle" => q = NoJob) /\ q.pc \in {"idle", "find"}
      BY <1>1, <1>6, <2>1, NoJobTyped DEF JobFits
    <2>3. JobFits(q)'
      BY <1>1, <2>2 DEF JobFits
    <2>4. JobsFit' /\ OneSends' /\ LessonsFit' /\ OneEach'
      BY <1>1, <1>4, <2>1, <2>3, JobTurns DEF SamePlans
    <2>5. ASSUME NEW l \in Lessons, NEW k \in Kinds, WillRemind(job[j], l, k)
          PROVE  reminded[<<l, k>>] > 0 \/ (q.at = h0 /\ WillRemind(q, l, k))
      <3>1. CASE job[j].ahead = k
        <4>1. l \in job[j].todo
          BY <1>1, <1>6, <2>5, <3>1 DEF WillRemind
        <4> QED
          BY <1>7, <1>8, <3>1, <4>1
      <3>2. CASE job[j].ahead # k
        <4>1. job[j].ahead < k /\ k \in Nat
          BY <1>1, <2>5, <3>2, NoJobTyped DEF WillRemind
        <4>2. job[j].ahead = 1 /\ k = LongAhead
          BY <1>6, <4>1, NoJobTyped
        <4> QED
          BY <1>5, <2>1, <4>1, <4>2 DEF WillRemind
      <3> QED
        BY <3>1, <3>2
    <2>6. NoneForgotten'
      BY <1>1, <1>5, <2>1, <2>5, StillAssured DEF SamePlans
    <2>7. RemindersTypeOK'
      BY <1>1, <1>4, <2>1, RemindersTypes DEF RemindersTypeOK, OneJob, LessonRow
    <2> QED
      BY <2>4, <2>6, <2>7 DEF RemindersInv
  <1>9. CASE left # {}
    <2>1. PICK q \in Job1 :
            /\ q = [job[j] EXCEPT !.pc = "send", !.todo = left]
            /\ q.pc = "send" /\ q.at = job[j].at /\ q.todo = left /\ q.ahead = job[j].ahead
      <3> DEFINE r == [job[j] EXCEPT !.pc = "send", !.todo = left]
      <3>1. r \in Job1 /\ r.pc = "send" /\ r.at = job[j].at /\ r.todo = left
            /\ r.ahead = job[j].ahead
        BY <1>1 DEF Job1
      <3> QED
        BY <3>1
    <2>2. OneJob(j, q)
      <3>1. job' = [job EXCEPT ![j] = q]
        BY <1>3, <1>9, <2>1
      <3> QED
        BY <3>1, JobMoves
    <2>3. ASSUME NEW l \in left PROVE lesson[l].status # "none" /\ InTime(q, l)
      BY <1>1, <1>2, <2>1 DEF JobFits, InTime
    <2>4. ASSUME NEW l \in left, promised[l] # NoHour, ~ twice'
          PROVE  reminded[<<l, q.ahead>>] = 0
      <3>1. l \in Lessons /\ ~ twice /\ reminded[<<l, q.ahead>>] \in Nat /\ q.ahead \in Kinds
        BY <1>4, <1>6, <2>1, <2>4, RemindersTypes
      <3>2. OneReminder(l, q.ahead)
        BY <3>1 DEF RemindersInv, OneEach
      <3>3. ~ BeingNoticed(l, q.ahead)
        BY <1>1, <1>3, <2>1, <2>4 DEF BeingNoticed
      <3>4. ~ Noticed(l, q.ahead)
        <4>1. q.at = lesson[l].start - q.ahead
          BY <2>3, <2>4 DEF InTime
        <4>2. ~ \E h \in notice[<<l, q.ahead>>] : h >= h0 - 2
          BY <1>2, <1>5, <2>1 DEF Recent
        <4>3. \A h \in notice[<<l, q.ahead>>] : h \in Nat
          BY <3>1, RemindersTypes DEF Hours
        <4> QED
          BY <1>5, <1>6, <2>1, <4>1, <4>2, <4>3 DEF Noticed
      <3> QED
        BY <2>4, <3>1, <3>2, <3>3, <3>4 DEF OneReminder
    <2>5. JobFits(q)'
      <3>1. \A l \in left : InTime(q, l)'
        BY <1>1, <2>3 DEF InTime
      <3>2. q.at <= hour
        BY <1>1, <2>1 DEF JobFits
      <3> QED
        BY <1>1, <2>1, <2>3, <2>4, <3>1, <3>2 DEF JobFits
    <2>6. JobsFit' /\ OneSends' /\ LessonsFit' /\ OneEach'
      BY <1>1, <1>3, <1>4, <2>1, <2>2, <2>5, JobTurns DEF SamePlans, Sends
    <2>7. ASSUME NEW l \in Lessons, NEW k \in Kinds, WillRemind(job[j], l, k)
          PROVE  reminded[<<l, k>>] > 0 \/ (q.at = h0 /\ WillRemind(q, l, k))
      <3>1. CASE job[j].ahead = k
        <4>1. l \in job[j].todo
          BY <1>1, <1>6, <2>7, <3>1 DEF WillRemind
        <4> QED
          BY <1>5, <1>7, <2>1, <3>1, <4>1 DEF WillRemind
      <3>2. CASE job[j].ahead # k
        BY <1>1, <1>5, <2>1, <2>7, <3>2 DEF WillRemind
      <3> QED
        BY <3>1, <3>2
    <2>8. NoneForgotten'
      BY <1>1, <1>5, <2>2, <2>7, StillAssured DEF SamePlans
    <2>9. RemindersTypeOK'
      BY <1>1, <1>4, <2>2, RemindersTypes DEF RemindersTypeOK, OneJob, LessonRow
    <2> QED
      BY <2>6, <2>8, <2>9 DEF RemindersInv
  <1> QED
    BY <1>8, <1>9

LEMMA PassFailsKeeps ==
  ASSUME RemindersInv, NEW j \in Jobs, PassFails(j)
  PROVE  RemindersInv'
  <1>1. /\ job[j] \in Job1 /\ job[j].pc # "idle" /\ CheckEnds(j, FALSE)
        /\ lapsed' = lapsed \union {job[j].at} /\ twice' = (twice \/ job[j].pc = "record")
        /\ lapses < MaxLapses /\ lapses' = lapses + 1
        /\ UNCHANGED <<hour, fired, lesson, notice, reminded, promised, moves>>
    BY RemindersTypes DEF PassFails
  <1>2. twice' \in BOOLEAN /\ (twice => twice')
    BY <1>1, RemindersTypes
  <1>3. OneJob(j, NoJob)
    BY <1>1, CheckEndsIs
  <1>4. PICK h0 \in Hours : h0 = job[j].at
    BY <1>1 DEF Job1
  <1>5. JobFits(NoJob)'
    BY <1>1, NoJobTyped, RemindersTypes DEF JobFits
  <1>6. JobsFit' /\ OneSends' /\ LessonsFit' /\ OneEach'
    BY <1>1, <1>2, <1>3, <1>5, JobTurns, NoJobTyped DEF SamePlans, Sends
  <1>7. NoneForgotten'
    BY <1>1, <1>3, <1>4, StillAssured, NoJobTyped DEF SamePlans
  <1>8. lapsed' \subseteq Hours /\ lapses' \in 0..MaxLapses
    BY <1>1, <1>4, RemindersTypes
  <1>9. RemindersTypeOK'
    BY <1>1, <1>2, <1>3, <1>8, RemindersTypes DEF RemindersTypeOK, OneJob, LessonRow
  <1> QED
    BY <1>6, <1>7, <1>9 DEF RemindersInv

LEMMA SendsReminderKeeps ==
  ASSUME RemindersInv, NEW j \in Jobs, NEW l0 \in Lessons, SendsReminder(j, l0)
  PROVE  RemindersInv'
  <1>1. /\ job[j] \in Job1 /\ job[j].pc = "send" /\ l0 \in job[j].todo /\ JobFits(job[j])
        /\ UNCHANGED <<hour, fired, lesson, notice, promised, lapsed, twice, moves, lapses>>
    BY RemindersTypes DEF SendsReminder, RemindersInv, JobsFit
  <1>2. PICK k0 \in Kinds : k0 = job[j].ahead
    BY <1>1 DEF Job1
  <1>3. PICK q \in Job1 :
          /\ q = [job[j] EXCEPT !.pc = "record", !.one = l0, !.todo = job[j].todo \ {l0}]
          /\ q.pc = "record" /\ q.at = job[j].at /\ q.one = l0 /\ q.ahead = k0
          /\ q.todo = job[j].todo \ {l0}
    <2> DEFINE r == [job[j] EXCEPT !.pc = "record", !.one = l0, !.todo = job[j].todo \ {l0}]
    <2>1. r \in Job1 /\ r.pc = "record" /\ r.at = job[j].at /\ r.one = l0 /\ r.ahead = k0
          /\ r.todo = job[j].todo \ {l0}
      BY <1>1, <1>2 DEF Job1
    <2> QED
      BY <2>1
  <1>4. OneJob(j, q)
    <2>1. job' = [job EXCEPT ![j] = q]
      BY <1>3 DEF SendsReminder
    <2> QED
      BY <2>1, JobMoves
  <1>5. /\ reminded' \in [Lessons \X Kinds -> Nat]
        /\ reminded'[<<l0, k0>>] = reminded[<<l0, k0>>] + 1 /\ reminded[<<l0, k0>>] \in Nat
        /\ \A l \in Lessons, k \in Kinds : <<l, k>> # <<l0, k0>> =>
              reminded'[<<l, k>>] = reminded[<<l, k>>]
    <2>1. reminded' = [reminded EXCEPT ![<<l0, k0>>] = reminded[<<l0, k0>>] + 1]
      BY <1>2 DEF SendsReminder
    <2> QED
      BY <2>1, RemindersTypes
  <1>6. reminded'[<<l0, k0>>] > 0
        /\ \A l \in Lessons, k \in Kinds : reminded[<<l, k>>] > 0 => reminded'[<<l, k>>] > 0
    BY <1>5
  <1>7. lesson[l0].status # "none" /\ InTime(q, l0)
    BY <1>1, <1>2, <1>3 DEF JobFits, InTime
  <1>8. ~ twice => \A i \in Jobs : i # j /\ Sends(job[i]) => job[i].ahead # k0
    BY <1>1, <1>2 DEF RemindersInv, OneSends, Sends
  <1>9. ASSUME NEW i \in Jobs PROVE JobFits(job[i])'
    <2>1. CASE i = j
      <3>1. job'[j] = q
        BY <1>4 DEF OneJob
      <3>2. q.at <= hour /\ \A l \in q.todo : lesson[l].status # "none" /\ InTime(q, l)
        BY <1>1, <1>2, <1>3 DEF JobFits, InTime
      <3>3. ASSUME ~ twice, NEW l \in q.todo, promised[l] # NoHour PROVE reminded'[<<l, k0>>] = 0
        <4>1. l \in Lessons /\ l # l0 /\ reminded[<<l, k0>>] = 0
          BY <1>1, <1>2, <1>3, <3>3 DEF JobFits, Job1
        <4> QED
          BY <1>5, <4>1
      <3> QED
        BY <1>1, <1>3, <1>6, <1>7, <2>1, <3>1, <3>2, <3>3 DEF JobFits, InTime
    <2>2. CASE i # j
      <3>1. job'[i] = job[i] /\ JobFits(job[i]) /\ job[i] \in Job1
        BY <1>4, <2>2, RemindersTypes DEF OneJob, RemindersInv, JobsFit
      <3>2. job[i].pc = "record" => reminded'[<<job[i].one, job[i].ahead>>] > 0
        BY <1>6, <3>1 DEF JobFits, Job1
      <3>3. ASSUME ~ twice, Sends(job[i]), NEW l \in job[i].todo, promised[l] # NoHour
            PROVE  reminded'[<<l, job[i].ahead>>] = 0
        <4>1. job[i].ahead # k0 /\ l \in Lessons /\ job[i].ahead \in Kinds
          BY <1>8, <2>2, <3>1, <3>3 DEF Job1
        <4>2. reminded[<<l, job[i].ahead>>] = 0
          BY <3>1, <3>3 DEF JobFits, Sends
        <4> QED
          BY <1>5, <4>1, <4>2
      <3> QED
        BY <1>1, <3>1, <3>2, <3>3 DEF JobFits, InTime, Sends
    <2> QED
      BY <2>1, <2>2
  <1>10. OneSends'
    <2>1. \A i \in Jobs : /\ Sends(job'[i]) <=> Sends(job[i])
                          /\ job'[i].ahead = job[i].ahead
      BY <1>1, <1>2, <1>3, <1>4 DEF OneJob, Sends
    <2>2. \A i \in Jobs : Sends(job[i])' <=> Sends(job'[i])
      BY DEF Sends
    <2> QED
      BY <1>1, <2>1, <2>2 DEF OneSends, RemindersInv
  <1>11. LessonsFit'
    <2>1. ASSUME NEW l \in Lessons PROVE LessonFits(l)'
      <3>1. LessonFits(l)
        BY DEF RemindersInv, LessonsFit
      <3>2. lesson[l].status = "none" => \A k \in Kinds : reminded'[<<l, k>>] = 0
        BY <1>5, <1>7, <3>1 DEF LessonFits
      <3> QED
        BY <1>1, <3>1, <3>2 DEF LessonFits
    <2> QED
      BY <2>1 DEF LessonsFit
  <1>12. ASSUME NEW l \in Lessons, NEW k \in Kinds PROVE OneReminder(l, k)'
    <2>1. OneReminder(l, k)
      BY DEF RemindersInv, OneEach
    <2>2. CASE <<l, k>> = <<l0, k0>>
      <3>1. BeingNoticed(l, k)'
        BY <1>3, <1>4, <2>2 DEF BeingNoticed, OneJob
      <3>2. promised[l0] # NoHour /\ ~ twice => reminded[<<l0, k0>>] = 0
        BY <1>1, <1>2 DEF JobFits
      <3>3. promised[l0] # NoHour /\ ~ twice => reminded'[<<l0, k0>>] <= 1
        BY <1>5, <3>2
      <3> QED
        BY <1>1, <1>6, <2>2, <3>1, <3>3 DEF OneReminder
    <2>3. CASE <<l, k>> # <<l0, k0>>
      <3>1. BeingNoticed(l, k) => BeingNoticed(l, k)'
        BY <1>1, <1>4 DEF BeingNoticed, OneJob
      <3>2. Noticed(l, k)' <=> Noticed(l, k)
        BY <1>1 DEF Noticed
      <3>3. reminded'[<<l, k>>] = reminded[<<l, k>>]
        BY <1>5, <2>3
      <3> QED
        BY <1>1, <2>1, <3>1, <3>2, <3>3 DEF OneReminder
    <2> QED
      BY <2>2, <2>3
  <1>13. NoneForgotten'
    <2>1. PICK h0 \in Hours : h0 = job[j].at
      BY <1>1 DEF Job1
    <2>2. ASSUME NEW l \in Lessons, NEW k \in Kinds, WillRemind(job[j], l, k)
          PROVE  reminded'[<<l, k>>] > 0 \/ (q.at = h0 /\ WillRemind(q, l, k))
      BY <1>1, <1>2, <1>3, <1>6, <2>1, <2>2 DEF WillRemind
    <2> QED
      BY <1>1, <1>4, <1>6, <2>1, <2>2, StillAssured DEF SamePlans
  <1>14. RemindersTypeOK'
    BY <1>1, <1>4, <1>5, RemindersTypes DEF RemindersTypeOK, OneJob, LessonRow
  <1> QED
    BY <1>9, <1>10, <1>11, <1>12, <1>13, <1>14 DEF RemindersInv, JobsFit, OneEach

LEMMA RecordsReminderKeeps ==
  ASSUME RemindersInv, NEW j \in Jobs, RecordsReminder(j)
  PROVE  RemindersInv'
  <1>1. /\ job[j] \in Job1 /\ job[j].pc = "record" /\ JobFits(job[j])
        /\ UNCHANGED <<hour, fired, lesson, reminded, promised, lapsed, twice, moves, lapses>>
    BY RemindersTypes DEF RecordsReminder, RemindersInv, JobsFit, lessonHistory
  <1>2. PICK k0 \in Kinds, l0 \in Lessons : k0 = job[j].ahead /\ l0 = job[j].one
    BY <1>1 DEF Job1, JobFits
  <1>3. k0 \in Nat /\ hour \in Nat /\ hour \in Hours
    BY NoJobTyped, RemindersTypes
  <1>4. /\ notice' \in [Lessons \X Kinds -> SUBSET Hours]
        /\ notice'[<<l0, k0>>] = notice[<<l0, k0>>] \union {hour}
        /\ \A l \in Lessons, k \in Kinds : <<l, k>> # <<l0, k0>> =>
              notice'[<<l, k>>] = notice[<<l, k>>]
    <2>1. notice' = [notice EXCEPT ![<<l0, k0>>] = notice[<<l0, k0>>] \union {hour}]
      BY <1>2 DEF RecordsReminder
    <2> QED
      BY <1>3, <2>1, RemindersTypes
  <1>5. PICK q \in Job1 :
          /\ OneJob(j, q) /\ q.pc # "record" /\ q.at <= hour
          /\ (q.pc = "idle" => q = NoJob) /\ q.pc # "recent"
          /\ q.pc = "send" => q.ahead = k0 /\ q.todo = job[j].todo /\ q.at = job[j].at
          /\ job[j].todo # {} => q.pc = "send"
          /\ job[j].todo = {} /\ k0 = 1 => q.pc = "find" /\ q.ahead = LongAhead /\ q.at = job[j].at
    <2>1. CASE job[j].todo = {}
      <3>1. CheckEnds(j, TRUE)
        BY <2>1 DEF RecordsReminder
      <3>2. PICK r \in Job1 : /\ OneJob(j, r) /\ ~ Sends(r)
                              /\ \/ job[j].ahead = 1 /\ r.pc = "find"
                                    /\ r.ahead = LongAhead /\ r.at = job[j].at
                                 \/ job[j].ahead # 1 /\ r = NoJob
        BY <3>1, CheckEndsIs
      <3>3. job[j].at <= hour /\ NoJob.at <= hour
        BY <1>1, <1>3, NoJobTyped DEF JobFits
      <3> QED
        BY <1>2, <2>1, <3>2, <3>3, NoJobTyped DEF Sends
    <2>2. CASE job[j].todo # {}
      <3> DEFINE r == [job[j] EXCEPT !.pc = "send", !.one = NoHour]
      <3>1. r \in Job1 /\ r.pc = "send" /\ r.ahead = k0 /\ r.todo = job[j].todo /\ r.at = job[j].at
        BY <1>1, <1>2 DEF Job1
      <3>2. job' = [job EXCEPT ![j] = r]
        BY <2>2 DEF RecordsReminder
      <3> HIDE DEF r
      <3> QED
        BY <1>1, <2>2, <3>1, <3>2, JobMoves DEF JobFits
    <2> QED
      BY <2>1, <2>2
  <1>6. JobFits(q)'
    <2>1. CASE q.pc = "send"
      <3>1. \A l \in q.todo : lesson[l].status # "none" /\ InTime(q, l)
        BY <1>1, <1>2, <1>5, <2>1 DEF JobFits, InTime
      <3>2. ~ twice => \A l \in q.todo : promised[l] # NoHour => reminded[<<l, q.ahead>>] = 0
        BY <1>1, <1>2, <1>5, <2>1 DEF JobFits
      <3> QED
        BY <1>1, <1>5, <2>1, <3>1, <3>2 DEF JobFits, InTime
    <2>2. CASE q.pc # "send"
      BY <1>1, <1>5, <2>2 DEF JobFits
    <2> QED
      BY <2>1, <2>2
  <1>7. ASSUME NEW i \in Jobs PROVE JobFits(job[i])'
    <2>1. CASE i = j
      <3>1. job'[i] = q
        BY <1>5, <2>1 DEF OneJob
      <3> QED
        BY <1>6, <3>1 DEF JobFits, InTime
    <2>2. CASE i # j
      <3>1. job'[i] = job[i] /\ JobFits(job[i])
        BY <1>5, <2>2 DEF OneJob, RemindersInv, JobsFit
      <3> QED
        BY <1>1, <3>1 DEF JobFits, InTime
    <2> QED
      BY <2>1, <2>2
  <1>8. OneSends'
    BY <1>1, <1>2, <1>5 DEF OneSends, RemindersInv, OneJob, Sends
  <1>9. LessonsFit'
    BY <1>1, PlansStay DEF SamePlans
  <1>10. ASSUME NEW l \in Lessons, NEW k \in Kinds PROVE OneReminder(l, k)'
    <2>1. OneReminder(l, k)
      BY DEF RemindersInv, OneEach
    <2>2. CASE <<l, k>> = <<l0, k0>>
      <3>1. reminded[<<l, k>>] > 0
        BY <1>1, <1>2, <2>2 DEF JobFits
      <3>2. promised[l] # NoHour => hour >= lesson[l].start - k
        BY <1>1, <1>2, <2>2 DEF JobFits, InTime
      <3>3. promised[l] # NoHour => Noticed(l, k)'
        BY <1>1, <1>4, <2>2, <3>2 DEF Noticed
      <3> QED
        BY <1>1, <2>1, <3>1, <3>3 DEF OneReminder
    <2>3. CASE <<l, k>> # <<l0, k0>>
      <3>1. BeingNoticed(l, k) => BeingNoticed(l, k)'
        BY <1>2, <1>5, <2>3 DEF BeingNoticed, OneJob
      <3>2. Noticed(l, k) => Noticed(l, k)'
        BY <1>1, <1>4, <2>3 DEF Noticed
      <3>3. notice'[<<l, k>>] = notice[<<l, k>>]
        BY <1>4, <2>3
      <3> QED
        BY <1>1, <2>1, <3>1, <3>2, <3>3 DEF OneReminder
    <2> QED
      BY <2>2, <2>3
  <1>11. NoneForgotten'
    <2>1. PICK h0 \in Hours : h0 = job[j].at
      BY <1>1 DEF Job1
    <2>2. ASSUME NEW l \in Lessons, NEW k \in Kinds, WillRemind(job[j], l, k)
          PROVE  q.at = h0 /\ WillRemind(q, l, k)
      <3>1. k0 < k \/ (k0 = k /\ l \in job[j].todo)
        BY <1>1, <1>2, <2>2 DEF WillRemind
      <3>2. k0 < k => k0 = 1 /\ k = LongAhead
        <4>1. (k0 = 1 \/ k0 = LongAhead) /\ (k = 1 \/ k = LongAhead)
          BY NoJobTyped
        <4>2. LongAhead \in Nat /\ LongAhead > 1
          BY NoJobTyped
        <4> QED
          BY <4>1, <4>2
      <3>3. CASE job[j].todo = {}
        BY <1>5, <2>1, <3>1, <3>2, <3>3, NoJobTyped DEF WillRemind
      <3>4. CASE job[j].todo # {}
        BY <1>5, <2>1, <3>1, <3>4 DEF WillRemind
      <3> QED
        BY <3>3, <3>4
    <2> QED
      BY <1>1, <1>5, <2>1, <2>2, StillAssured DEF SamePlans
  <1>12. RemindersTypeOK'
    BY <1>1, <1>4, <1>5, RemindersTypes DEF RemindersTypeOK, OneJob, LessonRow
  <1> QED
    BY <1>7, <1>8, <1>9, <1>10, <1>11, <1>12 DEF RemindersInv, JobsFit, OneEach

\* The clock and the plans: the passes stay as they are.
LEMMA HourPassesKeeps ==
  ASSUME RemindersInv, HourPasses
  PROVE  RemindersInv'
  <1>1. /\ hour < LastHour /\ fired /\ hour' = hour + 1 /\ fired' = FALSE
        /\ hour \in Nat /\ hour' \in Hours
        /\ UNCHANGED <<notice, job, reminded, promised, lapsed, twice, moves>>
    BY RemindersTypes, NoJobTyped DEF HourPasses, lessonHistory, Hours
  <1>2. ASSUME NEW l \in Lessons
        PROVE  /\ lesson'[l] \in LessonRow /\ lesson'[l].start = lesson[l].start
               /\ lesson'[l].status = "none" <=> lesson[l].status = "none"
               /\ (hour' <= lesson[l].start /\ lesson[l].status = "scheduled"
                   => lesson'[l].status = "scheduled")
    <2>1. lesson[l] \in LessonRow /\ lesson[l].start \in Nat
      BY RemindersTypes DEF LessonRow, Hours
    <2>2. lesson'[l] = IF lesson[l].status = "scheduled" /\ lesson[l].start <= hour
                       THEN [lesson[l] EXCEPT !.status = "over"] ELSE lesson[l]
      BY DEF HourPasses
    <2>3. CASE lesson[l].status = "scheduled" /\ lesson[l].start <= hour
      <3>1. lesson'[l] = [lesson[l] EXCEPT !.status = "over"] /\ ~ hour' <= lesson[l].start
        BY <1>1, <2>1, <2>2, <2>3
      <3> QED
        BY <2>1, <2>3, <3>1 DEF LessonRow
    <2>4. CASE ~ (lesson[l].status = "scheduled" /\ lesson[l].start <= hour)
      BY <2>1, <2>2, <2>4
    <2> QED
      BY <2>3, <2>4
  <1>3. lesson' \in [Lessons -> LessonRow]
    <2>1. lesson' = [l \in Lessons |->
                    IF lesson[l].status = "scheduled" /\ lesson[l].start <= hour
                    THEN [lesson[l] EXCEPT !.status = "over"] ELSE lesson[l]]
      BY DEF HourPasses
    <2> QED
      BY <1>2, <2>1
  <1>4. ASSUME NEW j \in Jobs PROVE JobFits(job[j])'
    <2>1. JobFits(job[j]) /\ job'[j] = job[j] /\ job[j] \in Job1
      BY <1>1, RemindersTypes DEF RemindersInv, JobsFit
    <2>2. job[j].at <= hour'
      <3>1. job[j].at \in Nat
        BY <2>1 DEF Job1, Hours
      <3> QED
        BY <1>1, <2>1, <3>1 DEF JobFits
    <2>3. ASSUME NEW l \in Lessons, lesson[l].status # "none", InTime(job[j], l)
          PROVE  lesson'[l].status # "none" /\ InTime(job[j], l)'
      BY <1>1, <1>2, <2>1, <2>3 DEF InTime
    <2>4. job[j].todo \subseteq Lessons
      BY <2>1 DEF Job1
    <2> QED
      BY <1>1, <2>1, <2>2, <2>3, <2>4 DEF JobFits
  <1>5. ASSUME NEW l \in Lessons PROVE LessonFits(l)'
    <2>1. LessonFits(l)
      BY DEF RemindersInv, LessonsFit
    <2>2. promised[l] # NoHour => promised[l] \in Nat
      BY RemindersTypes
    <2>3. lesson[l].start \in Nat
      BY RemindersTypes DEF LessonRow, Hours
    <2> QED
      BY <1>1, <1>2, <2>1, <2>2, <2>3 DEF LessonFits
  <1>6. OneSends' /\ OneEach'
    <2>1. \A l \in Lessons, k \in Kinds : Noticed(l, k)' <=> Noticed(l, k)
      BY <1>1, <1>2 DEF Noticed
    <2>2. \A l \in Lessons, k \in Kinds : BeingNoticed(l, k)' <=> BeingNoticed(l, k)
      BY <1>1 DEF BeingNoticed
    <2>3. \A l \in Lessons, k \in Kinds : OneReminder(l, k)'
      BY <1>1, <2>1, <2>2 DEF RemindersInv, OneEach, OneReminder
    <2> QED
      BY <1>1, <2>3 DEF RemindersInv, OneSends, Sends, OneEach
  <1>7. NoneForgotten'
    <2> SUFFICES ASSUME NEW l \in Lessons, NEW k \in Kinds, NEW h \in Hours, Owed(l, k, h)'
                 PROVE  Assured(l, k, h)'
      BY DEF NoneForgotten
    <2>1. h \in Nat
      BY DEF Hours
    <2>2. Owed(l, k, h)
      BY <1>1, <1>2, <2>1 DEF Owed
    <2> QED
      BY <1>1, <2>2 DEF RemindersInv, NoneForgotten, Assured, WillRemind
  <1>8. lapses' \in 0..MaxLapses
    BY RemindersTypes DEF HourPasses
  <1>9. RemindersTypeOK'
    BY <1>1, <1>3, <1>8, RemindersTypes DEF RemindersTypeOK, LessonRow
  <1> QED
    BY <1>4, <1>5, <1>6, <1>7, <1>9 DEF RemindersInv, JobsFit, LessonsFit

\* A lesson is planned, moved or called off.
LEMMA PlanChanges ==
  ASSUME RemindersInv, NEW l0 \in Lessons, NEW r \in LessonRow, r.status # "none",
         lesson' = [lesson EXCEPT ![l0] = r],
         UNCHANGED <<hour, fired, notice, job, reminded, lapsed, twice, lapses>>,
         moves' \in 0..MaxMoves,
         NEW at \in Hours \union {NoHour}, promised' = [promised EXCEPT ![l0] = at],
         \/ at = NoHour
         \/ /\ at = hour /\ lesson[l0].status = "none"
            /\ r.status = "scheduled" /\ r.start > hour
  PROVE  RemindersInv'
  <1>1. /\ lesson' \in [Lessons -> LessonRow] /\ lesson'[l0] = r
        /\ promised' \in [Lessons -> Hours \union {NoHour}] /\ promised'[l0] = at
        /\ \A l \in Lessons : l # l0 => lesson'[l] = lesson[l] /\ promised'[l] = promised[l]
    BY RemindersTypes
  <1>2. ASSUME NEW j \in Jobs PROVE JobFits(job[j])'
    <2>1. JobFits(job[j]) /\ job'[j] = job[j] /\ job[j] \in Job1
      BY RemindersTypes DEF RemindersInv, JobsFit
    <2>2. ASSUME NEW l \in Lessons, lesson[l].status # "none", InTime(job[j], l)
          PROVE  lesson'[l].status # "none" /\ InTime(job[j], l)' /\ (promised'[l] # NoHour => promised[l] # NoHour)
      <3>1. CASE l = l0
        BY <1>1, <2>2, <3>1 DEF InTime
      <3>2. CASE l # l0
        BY <1>1, <2>1, <2>2, <3>2 DEF InTime
      <3> QED
        BY <3>1, <3>2
    <2>3. job[j].todo \subseteq Lessons
      BY <2>1 DEF Job1
    <2> QED
      BY <2>1, <2>2, <2>3 DEF JobFits
  <1>3. ASSUME NEW l \in Lessons PROVE LessonFits(l)'
    <2>1. LessonFits(l)
      BY DEF RemindersInv, LessonsFit
    <2>2. CASE l = l0
      BY <1>1, <2>2, RemindersTypes DEF LessonFits
    <2>3. CASE l # l0
      BY <1>1, <2>1, <2>3 DEF LessonFits
    <2> QED
      BY <2>2, <2>3
  <1>4. ASSUME NEW l \in Lessons, NEW k \in Kinds PROVE OneReminder(l, k)'
    <2>1. OneReminder(l, k) /\ LessonFits(l)
      BY DEF RemindersInv, OneEach, LessonsFit
    <2>2. BeingNoticed(l, k)' <=> BeingNoticed(l, k)
      BY DEF BeingNoticed
    <2>3. CASE l = l0
      <3>1. promised'[l] # NoHour => reminded[<<l, k>>] = 0
        BY <1>1, <2>1, <2>3 DEF LessonFits
      <3> QED
        BY <2>1, <3>1 DEF OneReminder
    <2>4. CASE l # l0
      <3>1. Noticed(l, k)' <=> Noticed(l, k)
        BY <1>1, <2>4 DEF Noticed
      <3> QED
        BY <1>1, <2>1, <2>2, <2>4, <3>1 DEF OneReminder
    <2> QED
      BY <2>3, <2>4
  <1>5. NoneForgotten'
    <2> SUFFICES ASSUME NEW l \in Lessons, NEW k \in Kinds, NEW h \in Hours, Owed(l, k, h)'
                 PROVE  Assured(l, k, h)'
      BY DEF NoneForgotten
    <2>1. l # l0
      <3> SUFFICES ASSUME l = l0 PROVE FALSE
        OBVIOUS
      <3>1. hour \in Nat /\ h \in Nat
        BY RemindersTypes DEF Hours
      <3>2. hour < h /\ (hour > h \/ hour = h)
        BY <1>1 DEF Owed
      <3> QED
        BY <3>1, <3>2
    <2>2. Owed(l, k, h)
      BY <1>1, <2>1 DEF Owed
    <2> QED
      BY <2>2 DEF RemindersInv, NoneForgotten, Assured, WillRemind
  <1>6. OneSends'
    BY DEF RemindersInv, OneSends, Sends
  <1>7. RemindersTypeOK'
    BY <1>1, RemindersTypes DEF RemindersTypeOK, LessonRow
  <1> QED
    BY <1>2, <1>3, <1>4, <1>5, <1>6, <1>7 DEF RemindersInv, JobsFit, LessonsFit, OneEach

LEMMA PlannedKeeps ==
  ASSUME RemindersInv, NEW l \in Lessons, NEW start \in Hours, Planned(l, start)
  PROVE  RemindersInv'
  <1>1. [status |-> "scheduled", start |-> start] \in LessonRow /\ hour \in Hours
    BY RemindersTypes DEF LessonRow
  <1>2. PICK r \in LessonRow : /\ r = [status |-> "scheduled", start |-> start]
                               /\ r.status = "scheduled" /\ r.start = start
    BY <1>1
  <1>3. PICK at \in Hours \union {NoHour} : at = hour
    BY <1>1
  <1>4. /\ lesson' = [lesson EXCEPT ![l] = r] /\ promised' = [promised EXCEPT ![l] = at]
        /\ lesson[l].status = "none" /\ r.start > hour /\ moves' \in 0..MaxMoves
        /\ UNCHANGED <<hour, fired, notice, job, reminded, lapsed, twice, lapses>>
    BY <1>2, <1>3, RemindersTypes DEF Planned
  <1> QED
    BY <1>2, <1>3, <1>4, PlanChanges

LEMMA ReplannedKeeps ==
  ASSUME RemindersInv, NEW l \in Lessons,
         CalledOff(l) \/ \E start \in Hours : Replanned(l, start)
  PROVE  RemindersInv'
  <1>1. lesson[l] \in LessonRow
    BY RemindersTypes
  <1>2. PICK r \in LessonRow : r.status # "none" /\ lesson' = [lesson EXCEPT ![l] = r]
    <2>1. CASE CalledOff(l)
      <3> DEFINE r == [lesson[l] EXCEPT !.status = "over"]
      <3>1. r \in LessonRow /\ r.status = "over"
        BY <1>1 DEF LessonRow
      <3>2. lesson' = [lesson EXCEPT ![l] = r]
        BY <2>1 DEF CalledOff
      <3> HIDE DEF r
      <3> QED
        BY <3>1, <3>2
    <2>2. ASSUME NEW start \in Hours, Replanned(l, start)
          PROVE  \E r \in LessonRow : r.status # "none" /\ lesson' = [lesson EXCEPT ![l] = r]
      <3> DEFINE r == [lesson[l] EXCEPT !.start = start]
      <3>1. r \in LessonRow /\ r.status = lesson[l].status
        BY <1>1 DEF LessonRow
      <3>2. lesson' = [lesson EXCEPT ![l] = r] /\ lesson[l].status = "scheduled"
        BY <2>2 DEF Replanned
      <3> HIDE DEF r
      <3> QED
        BY <3>1, <3>2
    <2> QED
      BY <2>1, <2>2
  <1>3. /\ promised' = [promised EXCEPT ![l] = NoHour]
        /\ UNCHANGED <<hour, fired, notice, job, reminded, lapsed, twice, lapses>>
    BY DEF CalledOff, Replanned
  <1>4. moves' \in 0..MaxMoves
    BY RemindersTypes DEF CalledOff, Replanned
  <1> QED
    BY <1>2, <1>3, <1>4, PlanChanges

LEMMA RemindersContinue == RemindersInv /\ [RemindersNext]_remindersVars => RemindersInv'
  <1> SUFFICES ASSUME RemindersInv, [RemindersNext]_remindersVars PROVE RemindersInv'
    OBVIOUS
  <1>1. CASE \E j \in Jobs : Reminding(j)
    BY <1>1, CronFiresKeeps, FindsSessionsKeeps, ReadsRecentKeeps, SendsReminderKeeps,
       RecordsReminderKeeps, PassFailsKeeps DEF Reminding
  <1>2. CASE CronMissed \/ HourPasses
    BY <1>2, CronMissedKeeps, HourPassesKeeps
  <1>3. CASE \E l \in Lessons, start \in Hours : Planned(l, start) \/ Replanned(l, start)
    BY <1>3, PlannedKeeps, ReplannedKeeps
  <1>4. CASE \E l \in Lessons : CalledOff(l)
    BY <1>4, ReplannedKeeps
  <1>5. CASE UNCHANGED remindersVars
    <2>1. UNCHANGED <<hour, fired, lesson, notice, job, reminded, promised, lapsed, twice,
                      moves, lapses>>
      BY <1>5 DEF remindersVars
    <2>2. JobsFit' /\ OneSends' /\ LessonsFit' /\ OneEach'
      BY <2>1 DEF RemindersInv, JobsFit, JobFits, InTime, OneSends, Sends, LessonsFit,
         LessonFits, OneEach, OneReminder, Noticed, BeingNoticed
    <2>3. NoneForgotten' /\ RemindersTypeOK'
      BY <2>1 DEF RemindersInv, NoneForgotten, Owed, Assured, WillRemind, RemindersTypeOK
    <2> QED
      BY <2>2, <2>3 DEF RemindersInv
  <1> QED
    BY <1>1, <1>2, <1>3, <1>4, <1>5 DEF RemindersNext

LEMMA RemindersHold == RemindersSpec => []RemindersInv
  BY RemindersBegin, RemindersContinue, PTL DEF RemindersSpec

\* The passes, the lessons and what is recorded of reminders have their types.
THEOREM RemindersTyped == RemindersSpec => []RemindersTypeOK
  <1>1. RemindersInv => RemindersTypeOK
    BY DEF RemindersInv
  <1> QED
    BY <1>1, RemindersHold, PTL

\* A lesson planned in time and not moved has been reminded of when it starts,
\* unless the pass of that hour was missed, failed, slow or is still at work, and
\* once unless two passes crossed, for any number of passes and lessons.
THEOREM RemindedDuly == RemindersSpec => []RemindedInTime
  <1>1. ASSUME RemindersInv PROVE RemindedInTime
    <2> SUFFICES ASSUME NEW l \in Lessons, NEW k \in Kinds
                 PROVE  /\ promised[l] # NoHour /\ promised[l] < lesson[l].start - k
                           /\ hour >= lesson[l].start
                           /\ lesson[l].start - k \notin lapsed \union Unfinished
                           => reminded[<<l, k>>] > 0
                        /\ promised[l] # NoHour /\ ~ twice => reminded[<<l, k>>] <= 1
      BY DEF RemindedInTime
    <2>1. promised[l] # NoHour /\ ~ twice => reminded[<<l, k>>] <= 1
      BY <1>1 DEF RemindersInv, OneEach, OneReminder
    <2>2. ASSUME promised[l] # NoHour, promised[l] < lesson[l].start - k,
                 hour >= lesson[l].start, lesson[l].start - k \notin lapsed \union Unfinished
          PROVE  reminded[<<l, k>>] > 0
      <3>1. lesson[l].start \in Hours
        BY <1>1, RemindersTypes DEF LessonRow
      <3>2. /\ k \in Nat /\ k >= 1 /\ hour \in Nat /\ promised[l] \in Nat
            /\ lesson[l].start \in Nat /\ lesson[l].start <= LastHour /\ LastHour \in Nat
        BY <1>1, <2>2, <3>1, RemindersTypes, NoJobTyped DEF Hours
      <3>3. PICK h \in Hours : h = lesson[l].start - k
        BY <2>2, <3>2 DEF Hours
      <3>4. Owed(l, k, h)
        BY <2>2, <3>2, <3>3 DEF Owed
      <3>5. Assured(l, k, h)
        BY <1>1, <3>4 DEF RemindersInv, NoneForgotten
      <3>6. \A j \in Jobs : job[j].at = h => job[j].pc = "idle"
        BY <2>2, <3>3 DEF Unfinished
      <3> QED
        BY <3>5, <3>6 DEF Assured, WillRemind
    <2> QED
      BY <2>1, <2>2
  <1> QED
    BY <1>1, RemindersHold, PTL

=============================================================================
