------------------------------- MODULE Staff --------------------------------
(***************************************************************************)
(* A tutor's account in the hands of the admins (src/admin, src/auth):     *)
(* creation with a temporary password, an invitation that is accepted,     *)
(* change and reset of the password, suspension, and removal, which        *)
(* unassigns the tutor's bookings and trial students in several writes     *)
(* while the tutor may still be at work.                                   *)
(*                                                                         *)
(* Left out: the mails, whose failure is swallowed, and the audit log.  No *)
(* code of the repository writes the token of an invitation.               *)
(***************************************************************************)
EXTENDS Integers, FiniteSets

CONSTANTS
    Deeds,          \* requests at work at one time
    MaxDeeds,       \* bound on requests
    MaxHalts        \* bound on removals that stop half-way

ASSUME StaffAssumption == MaxDeeds \in Nat /\ MaxHalts \in Nat

VARIABLES
    tutor,      \* the rows of users and tutors
    load,       \* what points to the tutor: bookings, students on trial
    deed,       \* the requests
    created,    \* history: the creations that were answered with success
    late,       \* history: the tutor was brought back or took work beside a
                \* removal
    halted,     \* history: a removal stopped half-way
    deeds

staffVars == <<tutor, load, deed, created, late, halted, deeds>>

Passwords == {"none", "own", "temporary"}
DeedKinds == {"create", "accept", "change", "reset", "take", "remove"}

NoTutor == [exists |-> FALSE, password |-> "none", force |-> FALSE, verified |-> FALSE,
            active |-> FALSE, status |-> "ACTIVE", profile |-> FALSE, invited |-> FALSE,
            freed |-> FALSE]
NoDeed == [pc |-> "idle", of |-> "take", overtaken |-> FALSE]

StaffTypeOK ==
    /\ tutor \in [exists: BOOLEAN, password: Passwords, force: BOOLEAN, verified: BOOLEAN,
                  active: BOOLEAN, status: {"ACTIVE", "SUSPENDED"}, profile: BOOLEAN,
                  invited: BOOLEAN, freed: BOOLEAN]
    /\ load \in [bookings: BOOLEAN, trial: BOOLEAN]
    /\ deed \in [Deeds -> [pc: {"idle", "write", "trial", "profile", "user"}, of: DeedKinds,
                           overtaken: BOOLEAN]]
    /\ created \in Nat /\ late \in BOOLEAN /\ halted \in 0..MaxHalts
    /\ deeds \in 0..MaxDeeds

StaffInit ==
    /\ tutor = NoTutor
    /\ load = [bookings |-> FALSE, trial |-> FALSE]
    /\ deed = [d \in Deeds |-> NoDeed]
    /\ created = 0 /\ late = FALSE /\ halted = 0
    /\ deeds = 0

-----------------------------------------------------------------------------

DeedIs(d, rec) == deed' = [deed EXCEPT ![d] = rec]

\* A request looks the account up, and after an await, most often the hash of a
\* password, it writes by id whatever it has to.
Begins(d, kind) ==
    /\ deed[d].pc = "idle"
    /\ deeds < MaxDeeds /\ deeds' = deeds + 1
    /\ DeedIs(d, [NoDeed EXCEPT !.pc = "write", !.of = kind])
    /\ UNCHANGED <<tutor, load, created, late, halted>>

ToWrite(d, kind) == deed[d].pc = "write" /\ deed[d].of = kind

(* createTutor: one user and one profile, or neither *)
LooksForEmail(d) == ~ tutor.exists /\ Begins(d, "create")

CreatesTutor(d) ==
    /\ ToWrite(d, "create")
    /\ IF tutor.exists THEN UNCHANGED <<tutor, created>>
       ELSE /\ tutor' = [NoTutor EXCEPT !.exists = TRUE, !.password = "temporary",
                                        !.force = TRUE, !.active = TRUE, !.profile = TRUE]
            /\ created' = created + 1
    /\ DeedIs(d, NoDeed)
    /\ UNCHANGED <<load, late, halted, deeds>>

Invited ==
    /\ tutor.exists /\ ~ tutor.invited /\ ~ tutor.freed
    /\ deeds < MaxDeeds /\ deeds' = deeds + 1
    /\ tutor' = [tutor EXCEPT !.invited = TRUE]
    /\ UNCHANGED <<load, deed, created, late, halted>>

(* acceptTutorInvite: found by the token, written by the id *)
LooksForToken(d) == tutor.invited /\ Begins(d, "accept")

AcceptsInvite(d) ==
    /\ ToWrite(d, "accept")
    /\ tutor' = [tutor EXCEPT !.password = "own", !.verified = TRUE, !.invited = FALSE,
                              !.active = TRUE]
    /\ late' = (late \/ deed[d].overtaken)
    /\ DeedIs(d, NoDeed)
    /\ UNCHANGED <<load, created, halted, deeds>>

(* changePassword, by the tutor, and resetTutorPassword, by an admin *)
LooksForPassword(d) ==
    /\ tutor.exists
    /\ Begins(d, "change") \/ Begins(d, "reset")

ChangesPassword(d) ==
    /\ ToWrite(d, "change")
    /\ tutor' = [tutor EXCEPT !.password = "own", !.force = FALSE]
    /\ DeedIs(d, NoDeed)
    /\ UNCHANGED <<load, created, late, halted, deeds>>

ResetsPassword(d) ==
    /\ ToWrite(d, "reset")
    /\ tutor' = [tutor EXCEPT !.password = "temporary", !.force = TRUE]
    /\ DeedIs(d, NoDeed)
    /\ UNCHANGED <<load, created, late, halted, deeds>>

(* suspendTutor, activateTutor *)
SetsTutorStatus(s) ==
    /\ tutor.exists
    /\ deeds < MaxDeeds /\ deeds' = deeds + 1
    /\ tutor' = [tutor EXCEPT !.status = s]
    /\ UNCHANGED <<load, deed, created, late, halted>>

-----------------------------------------------------------------------------
(* The tutor at work: TutorStatusGuard asks for an active profile, and not  *)
(* for the status; assignments by the server ask for the same.             *)

MayWork == tutor.exists /\ tutor.profile
LooksForWork(d) == MayWork /\ Begins(d, "take")

\* Where a removal has already taken away what is now added.
Past(what) == IF what = "bookings" THEN {"trial", "profile", "user"} ELSE {"profile", "user"}

TakesWork(d, what) ==
    /\ ToWrite(d, "take")
    /\ load' = [load EXCEPT ![what] = TRUE]
    /\ late' = (late \/ deed[d].overtaken \/ \E r \in Deeds : deed[r].pc \in Past(what))
    /\ DeedIs(d, NoDeed)
    /\ UNCHANGED <<tutor, created, halted, deeds>>

-----------------------------------------------------------------------------
(* removeTutor *)

LooksForTutor(d) == tutor.exists /\ Begins(d, "remove")

\* The requests that have looked and not yet written are overtaken.
Overtakes(d, rec) ==
    deed' = [e \in Deeds |-> IF e = d THEN rec
                             ELSE [deed[e] EXCEPT !.overtaken = deed[e].pc = "write"
                                                                /\ deed[e].of # "remove"]]

UnassignsBookings(d) ==
    /\ ToWrite(d, "remove")
    /\ load' = [load EXCEPT !.bookings = FALSE]
    /\ DeedIs(d, [deed[d] EXCEPT !.pc = "trial"])
    /\ UNCHANGED <<tutor, created, late, halted, deeds>>

\* Mutant: the students on trial keep the tutor.
KeepsTrials == load

ClearedTrials == [load EXCEPT !.trial = FALSE]

ClearsTrials(d) ==
    /\ deed[d].pc = "trial"
    /\ load' = ClearedTrials
    /\ DeedIs(d, [deed[d] EXCEPT !.pc = "profile"])
    /\ UNCHANGED <<tutor, created, late, halted, deeds>>

DeactivatesProfile(d) ==
    /\ deed[d].pc = "profile"
    /\ tutor' = [tutor EXCEPT !.profile = FALSE]
    /\ Overtakes(d, [deed[d] EXCEPT !.pc = "user"])
    /\ UNCHANGED <<load, created, late, halted, deeds>>

\* The address is freed for another account, which is not followed.  A token
\* that is still out can bring the user back.
DeactivatesUser(d) ==
    /\ deed[d].pc = "user"
    /\ late' = (late \/ tutor.invited)
    /\ tutor' = [tutor EXCEPT !.active = FALSE, !.status = "SUSPENDED", !.freed = TRUE]
    /\ Overtakes(d, NoDeed)
    /\ UNCHANGED <<load, created, halted, deeds>>

RemovalHalts(d) ==
    /\ deed[d].pc \in {"trial", "profile", "user"}
    /\ halted < MaxHalts /\ halted' = halted + 1
    /\ DeedIs(d, NoDeed)
    /\ UNCHANGED <<tutor, load, created, late, deeds>>

StaffNext ==
    \/ \E d \in Deeds : LooksForEmail(d) \/ CreatesTutor(d) \/ LooksForToken(d)
                        \/ AcceptsInvite(d) \/ LooksForPassword(d) \/ ChangesPassword(d)
                        \/ ResetsPassword(d) \/ LooksForWork(d) \/ LooksForTutor(d)
    \/ \E d \in Deeds, what \in {"bookings", "trial"} : TakesWork(d, what)
    \/ \E d \in Deeds : UnassignsBookings(d) \/ ClearsTrials(d) \/ DeactivatesProfile(d)
                        \/ DeactivatesUser(d) \/ RemovalHalts(d)
    \/ Invited
    \/ \E s \in {"ACTIVE", "SUSPENDED"} : SetsTutorStatus(s)

StaffSpec == StaffInit /\ [][StaffNext]_staffVars

-----------------------------------------------------------------------------

\* A temporary password must be changed.
TemporaryIsForced == tutor.password = "temporary" => tutor.force

\* Only one of the creations for an address succeeds.
CreatedOnce == created <= 1

\* A removed tutor neither logs in nor works, and nothing points to the tutor.
RemovedIsOut == tutor.freed /\ ~ late =>
    ~ tutor.active /\ ~ tutor.profile /\ ~ load.bookings /\ ~ load.trial

\* Whatever creations, resets, invitations and removals overlap, a temporary
\* password has to be changed, an address has one account, and a removed tutor
\* is out, unless an invitation was still out, or a request that the removal
\* overtook, or that came between its writes, took work.
StaffInOrder == TemporaryIsForced /\ CreatedOnce /\ RemovedIsOut

=============================================================================
