------------------------------ MODULE Accounts ------------------------------
(***************************************************************************)
(* The account behind one e-mail address (src/auth): the guard that makes  *)
(* the user at the first request, takes over the role of the token, links  *)
(* or makes the student's profile; sign-up, the onboarding's role picker   *)
(* with its copy of the role at Clerk, self-service onboarding, the        *)
(* parent's children, and what admins do.                                  *)
(*                                                                         *)
(* Every request passes the guard first.  Each read and write that is      *)
(* awaited is a step.  A token keeps the role of the day it was issued.    *)
(*                                                                         *)
(* Left out: passwords, names, verification of the e-mail address, mails,  *)
(* the removal of tutors (Bookings), the one address that is always admin. *)
(***************************************************************************)
EXTENDS Integers, FiniteSets

CONSTANT
    MaxVisits     \* bound on requests about this account

ASSUME AccountsAssumption == MaxVisits \in Nat

VARIABLES
    role,       \* users.role, "none" without a row; "tutor" is admin too
    profiles,   \* rows of app.students of this address or this user
    linked,     \* those with the user's user_id
    children,   \* there are rows with the user as parent_user_id
    paidAs,     \* the role in which something was paid first, or "none"
    clerk,      \* the role in the public metadata at Clerk
    roleWas,    \* every role the user has had: what an old JWT may say
    clerkWas,   \* every role Clerk has had: what an old token may say
    req,        \* the requests
    unruly      \* history: see below

accountsVars == <<role, profiles, linked, children, paidAs, clerk, roleWas,
                  clerkWas, req, unruly>>
rows == <<profiles, linked, children>>
known == <<roleWas, clerkWas>>

Chosen == {"student", "parent"}
Roles == Chosen \union {"tutor"}
AnyRole == Roles \union {"none"}

\* "signup": made with the account, without the address; "family": made by a
\* parent, with the address; "auto": made by the guard or by onboarding.
Profiles == {"signup", "family", "auto"}
WithAddress == profiles \ {"signup"}

\* jwt: the token is the app's own; token: the role it says; saw: the role that
\* was read; then: what is asked; want: the role that is asked for.
Visits == 1..MaxVisits
Visit ==
    [pc: {"new", "done", "create", "sync", "link", "linkWrite", "provision",
          "nothing", "pick", "history", "clerk", "write", "onboard", "profile",
          "child", "signup", "signupProfile", "adminClerk", "adminWrite"},
     jwt: BOOLEAN, token: AnyRole, saw: AnyRole,
     then: {"nothing", "pick", "onboard", "child"}, want: AnyRole]

NewVisit == [pc |-> "new", jwt |-> FALSE, token |-> "none", saw |-> "none",
               then |-> "nothing", want |-> "none"]

\* unruly: a token said what is no longer so, two requests (or a request and a
\* payment) were at work at one time, Clerk failed, an admin set the role, or a parent onboarded as a student
\* or a student added a child.
AccountsTypeOK ==
    /\ role \in AnyRole
    /\ profiles \subseteq Profiles /\ linked \subseteq profiles
    /\ children \in BOOLEAN
    /\ paidAs \in AnyRole
    /\ clerk \in AnyRole
    /\ roleWas \subseteq AnyRole /\ clerkWas \subseteq AnyRole
    /\ req \in [Visits -> Visit]
    /\ unruly \in BOOLEAN

AccountsInit ==
    /\ role = "none"
    /\ profiles = {} /\ linked = {}
    /\ children = FALSE
    /\ paidAs = "none"
    /\ clerk = "none"
    /\ roleWas = {} /\ clerkWas = {"none"}
    /\ req = [r \in Visits |-> NewVisit]
    /\ unruly = FALSE

-----------------------------------------------------------------------------

Working == {r \in Visits : req[r].pc \notin {"new", "done"}}

\* Requests are numbered as they begin.
ReqBegins(r, rec) ==
    /\ req[r].pc = "new" /\ \A q \in Visits : q < r => req[q].pc # "new"
    /\ req' = [req EXCEPT ![r] = rec]
ReqEnds(r) == req' = [req EXCEPT ![r] = [NewVisit EXCEPT !.pc = "done"]]
ReqGoesTo(r, pc) ==
    IF pc = "nothing" THEN ReqEnds(r) ELSE req' = [req EXCEPT ![r].pc = pc]

\* The guard lets the request pass.
Passes(r) == ReqGoesTo(r, req[r].then)

SetsRole(new) ==
    /\ role' = new
    /\ roleWas' = roleWas \union {new}

-----------------------------------------------------------------------------
(* ClerkAuthGuard *)

\* login signs the role of that moment, Clerk the metadata of that moment.
Signed(jwt) == IF jwt THEN roleWas ELSE clerkWas

\* A token of the app names the user, Clerk's her address.
GuardReads(r, jwt, token, then, want) ==
    /\ token \in Signed(jwt)
    /\ then # "pick" => want = "none"
    /\ then = "pick" => want \in Chosen
    /\ ReqBegins(r, [pc |-> IF role = "none" THEN "create" ELSE "sync",
                     jwt |-> jwt, token |-> token, saw |-> role,
                     then |-> then, want |-> want])
    /\ unruly' = (unruly \/ Working # {} \/ token # (IF jwt THEN role ELSE clerk))
    /\ UNCHANGED <<role, rows, paidAs, clerk, known>>

\* The first request makes the user; of two, one fails.
GuardCreates(r) ==
    /\ req[r].pc = "create"
    /\ IF role = "none"
       THEN SetsRole(IF req[r].token = "none" THEN "student" ELSE req[r].token)
            /\ Passes(r)
       ELSE ReqEnds(r) /\ UNCHANGED <<role, roleWas>>
    /\ UNCHANGED <<rows, paidAs, clerk, clerkWas, unruly>>

\* Mutant: a token that says another role sets it, whatever the role was.
TakesAny(q) == ~ q.jwt /\ q.token \notin {"none", q.saw}

\* "NEVER let the token downgrade an admin-provisioned tutor (or admin)".
TakesRole(q) == ~ q.jwt /\ q.token \notin {"none", q.saw} /\ q.saw # "tutor"

Synced(q) == IF TakesRole(q) THEN q.token ELSE q.saw
IsStudent(q) == Synced(q) = "student" \/ (q.jwt /\ q.token = "student")

GuardSyncs(r) ==
    /\ req[r].pc = "sync"
    /\ IF TakesRole(req[r]) THEN SetsRole(req[r].token)
       ELSE UNCHANGED <<role, roleWas>>
    /\ IF IsStudent(req[r]) THEN ReqGoesTo(r, "link") ELSE Passes(r)
    /\ UNCHANGED <<rows, paidAs, clerk, clerkWas, unruly>>

\* A profile with this address and without a user is looked for, then one of
\* the user.
GuardFindsProfile(r) ==
    /\ req[r].pc = "link"
    /\ IF "family" \in profiles \ linked THEN ReqGoesTo(r, "linkWrite")
       ELSE IF linked = {} THEN ReqGoesTo(r, "provision")
       ELSE Passes(r)
    /\ UNCHANGED <<role, rows, paidAs, clerk, known, unruly>>

\* user_id is unique: with a profile of her own the request fails, and so does
\* every later one.
GuardLinks(r) ==
    /\ req[r].pc = "linkWrite"
    /\ IF linked \subseteq {"family"}
       THEN linked' = linked \union {"family"} /\ Passes(r)
       ELSE UNCHANGED linked /\ ReqEnds(r)
    /\ UNCHANGED <<role, profiles, children, paidAs, clerk, known, unruly>>

\* One profile for a user and one for an address.
NewProfile(p) ==
    /\ profiles' = profiles \union {p}
    /\ linked' = linked \union {p}
MayHaveProfile == linked = {} /\ WithAddress = {}

\* "Best-effort": when it cannot be made the request passes all the same.
GuardProvisions(r) ==
    /\ req[r].pc = "provision"
    /\ IF MayHaveProfile THEN NewProfile("auto") ELSE UNCHANGED <<profiles, linked>>
    /\ Passes(r)
    /\ UNCHANGED <<role, children, paidAs, clerk, known, unruly>>

-----------------------------------------------------------------------------
(* updateRole, the picker *)

PickReads(r) ==
    /\ req[r].pc = "pick"
    /\ IF role = "tutor" THEN ReqEnds(r)
       ELSE req' = [req EXCEPT ![r].pc = "history", ![r].saw = role]
    /\ UNCHANGED <<role, rows, paidAs, clerk, known, unruly>>

\* Mutant: an account with a profile may become a parent's.
RefusesPayers(want) ==
    \/ want = "parent" /\ paidAs # "none"
    \/ want = "student" /\ children

\* "Never let the onboarding role-picker silently overwrite an account that
\* already has real history under the OTHER role."
Refuses(want) ==
    \/ want = "parent" /\ (linked # {} \/ paidAs # "none")
    \/ want = "student" /\ children

PickChecks(r) ==
    /\ req[r].pc = "history"
    /\ IF Refuses(req[r].want) THEN ReqEnds(r) ELSE ReqGoesTo(r, "clerk")
    /\ UNCHANGED <<role, rows, paidAs, clerk, known, unruly>>

\* Clerk is told first; a failure is logged and the role written all the same.
PickSyncs(r) ==
    /\ req[r].pc = "clerk"
    /\ \/ clerk' = req[r].want /\ clerkWas' = clerkWas \union {req[r].want}
          /\ UNCHANGED unruly
       \/ unruly' = TRUE /\ UNCHANGED <<clerk, clerkWas>>
    /\ ReqGoesTo(r, "write")
    /\ UNCHANGED <<role, rows, paidAs, roleWas>>

\* Written by the sync and again afterwards, which comes to the same.
PickWrites(r) ==
    /\ req[r].pc = "write"
    /\ SetsRole(req[r].want)
    /\ ReqEnds(r)
    /\ UNCHANGED <<rows, paidAs, clerk, clerkWas, unruly>>

-----------------------------------------------------------------------------
(* completeMyOnboarding and students.create *)

OnboardReads(r) ==
    /\ req[r].pc = "onboard"
    /\ IF linked = {} THEN ReqGoesTo(r, "profile") ELSE ReqEnds(r)
    /\ UNCHANGED <<role, rows, paidAs, clerk, known, unruly>>

\* No role is asked for; an error if there can be no such profile.
OnboardCreates(r) ==
    /\ req[r].pc = "profile"
    /\ IF MayHaveProfile THEN NewProfile("auto") ELSE UNCHANGED <<profiles, linked>>
    /\ unruly' = (unruly \/ role # "student")
    /\ ReqEnds(r)
    /\ UNCHANGED <<role, children, paidAs, clerk, known>>

AddsChild(r) ==
    /\ req[r].pc = "child"
    /\ children' = TRUE
    /\ unruly' = (unruly \/ role # "parent")
    /\ ReqEnds(r)
    /\ UNCHANGED <<role, profiles, linked, paidAs, clerk, known>>

\* Another parent adds a child with this address ...
FamilyProfile ==
    /\ WithAddress = {}
    /\ profiles' = profiles \union {"family"}
    /\ UNCHANGED <<role, linked, children, paidAs, clerk, known, req, unruly>>

\* ... or makes the account and the profile in one transaction.
ParentCreates ==
    /\ role = "none"
    /\ SetsRole("student")
    /\ NewProfile("signup")
    /\ UNCHANGED <<children, paidAs, clerk, clerkWas, req, unruly>>

-----------------------------------------------------------------------------
(* signup, payments, admins *)

\* The address is free; the password is hashed before the user is made.
SignupReads(r, want) ==
    /\ role = "none"
    /\ ReqBegins(r, [NewVisit EXCEPT !.pc = "signup", !.want = want])
    /\ unruly' = (unruly \/ Working # {})
    /\ UNCHANGED <<role, rows, paidAs, clerk, known>>

SignupCreates(r) ==
    /\ req[r].pc = "signup"
    /\ IF role = "none"
       THEN /\ SetsRole(req[r].want)
            /\ IF req[r].want = "student"
               THEN ReqEnds(r) \/ ReqGoesTo(r, "signupProfile")
               ELSE ReqEnds(r)
       ELSE ReqEnds(r) /\ UNCHANGED <<role, roleWas>>
    /\ UNCHANGED <<rows, paidAs, clerk, clerkWas, unruly>>

\* Only with a grade; an error if the guard was faster.
SignupProfile(r) ==
    /\ req[r].pc = "signupProfile"
    /\ IF linked = {} THEN NewProfile("signup") ELSE UNCHANGED <<profiles, linked>>
    /\ ReqEnds(r)
    /\ UNCHANGED <<role, children, paidAs, clerk, known, unruly>>

Pays ==
    /\ role \in Chosen /\ paidAs = "none"
    /\ paidAs' = role
    /\ unruly' = (unruly \/ Working # {})
    /\ UNCHANGED <<role, rows, clerk, known, req>>

CreateTutor ==
    /\ role = "none"
    /\ SetsRole("tutor")
    /\ UNCHANGED <<rows, paidAs, clerk, clerkWas, req, unruly>>

\* syncUserRoleToClerk of the admin: the user is read first and written last.
AdminReads(r, new) ==
    /\ role # "none"
    /\ ReqBegins(r, [NewVisit EXCEPT !.pc = "adminClerk", !.saw = role, !.want = new])
    /\ unruly' = TRUE
    /\ UNCHANGED <<role, rows, paidAs, clerk, known>>

AdminTellsClerk(r) ==
    /\ req[r].pc = "adminClerk"
    /\ \/ /\ clerk' = req[r].want /\ clerkWas' = clerkWas \union {req[r].want}
          /\ IF req[r].saw = req[r].want THEN ReqEnds(r) ELSE ReqGoesTo(r, "adminWrite")
       \/ UNCHANGED <<clerk, clerkWas>> /\ ReqEnds(r)
    /\ UNCHANGED <<role, rows, paidAs, roleWas, unruly>>

AdminWrites(r) ==
    /\ req[r].pc = "adminWrite"
    /\ SetsRole(req[r].want)
    /\ ReqEnds(r)
    /\ UNCHANGED <<rows, paidAs, clerk, clerkWas, unruly>>

-----------------------------------------------------------------------------

Guarded(r) ==
    \/ \E jwt \in BOOLEAN, token \in AnyRole, want \in AnyRole,
          then \in {"nothing", "pick", "onboard", "child"} :
             GuardReads(r, jwt, token, then, want)
    \/ GuardCreates(r) \/ GuardSyncs(r) \/ GuardFindsProfile(r)
    \/ GuardLinks(r) \/ GuardProvisions(r)

Picking(r) == PickReads(r) \/ PickChecks(r) \/ PickSyncs(r) \/ PickWrites(r)
Joining(r) == OnboardReads(r) \/ OnboardCreates(r) \/ AddsChild(r)

SigningUp(r) ==
    \/ \E want \in Chosen : SignupReads(r, want)
    \/ SignupCreates(r) \/ SignupProfile(r)

Administrating(r) ==
    \/ \E new \in Roles : AdminReads(r, new)
    \/ AdminTellsClerk(r) \/ AdminWrites(r)

AccountsNext ==
    \/ \E r \in Visits : Guarded(r) \/ Picking(r) \/ Joining(r)
                           \/ SigningUp(r) \/ Administrating(r)
    \/ FamilyProfile \/ ParentCreates
    \/ Pays
    \/ CreateTutor

AccountsSpec == AccountsInit /\ [][AccountsNext]_accountsVars

-----------------------------------------------------------------------------
(* Properties *)

\* No parent has a student's profile, no student a parent's children, and who
\* paid as a student does not become a parent, however requests of the picker,
\* of the guard that makes profiles and of others follow each other.  What
\* breaks it are old tokens, overlapping requests, a failure of Clerk, an admin.
RoleFitsHistory ==
    ~ unruly => /\ role = "parent" => linked = {} /\ paidAs # "student"
                /\ role = "student" => ~ children

\* Nobody ceases to be a tutor or an admin by a token or a choice, unless the
\* request had read the account before it was one; admins may do it.
PrivilegedIsKept ==
    [][role = "tutor" /\ role' # "tutor"
       => \E r \in Visits :
             /\ req[r].pc \in {"sync", "write", "adminWrite"} /\ req'[r] # req[r]
             /\ req[r].pc = "adminWrite" \/ req[r].saw # "tutor"]_accountsVars

=============================================================================
