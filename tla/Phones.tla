------------------------------- MODULE Phones -------------------------------
(***************************************************************************)
(* The verification of a telephone number (src/phone-verification): a code *)
(* is sent to the number and checked by the provider, the number is then   *)
(* written into the user's row and the login provider is told.  The guard  *)
(* of every request tells the login provider, without waiting, of a user   *)
(* who is not verified, once per user and process.  A tutor may edit the   *)
(* number in the profile.                                                  *)
(*                                                                         *)
(* Left out: the check that a human asks, the throttle, the form of a      *)
(* number, the audit log.                                                  *)
(***************************************************************************)
EXTENDS Integers, FiniteSets

CONSTANTS
    Holders,            \* users
    TutorHolders,       \* those of them who are tutors
    Lines,              \* telephone numbers
    NoLine,             \* of no number
    Attempts,           \* requests at work at one time
    MaxAttempts,        \* bound on requests and edits
    MaxTroubles         \* bound on restarts and failed calls

ASSUME PhonesAssumption ==
    /\ Holders # {} /\ TutorHolders \subseteq Holders /\ NoLine \notin Lines
    /\ MaxAttempts \in Nat /\ MaxTroubles \in Nat

VARIABLES
    line,       \* users.phone
    checked,    \* users.phone_verified
    code,       \* the numbers with a code out
    says,       \* what the login provider says of a user
    telling,    \* the calls that are to tell it "no"
    noted,      \* the users the process has told it of
    attempt,    \* the requests
    proven,     \* history: who has entered the code of which number
    edited,     \* history: the users who edited the number
    muddled,    \* history: users of whom the login provider was not told in order
    attempts, troubles

phonesVars == <<line, checked, code, says, telling, noted, attempt, proven, edited,
                muddled, attempts, troubles>>

NoAttempt == [pc |-> "idle", by |-> CHOOSE h \in Holders : TRUE, to |-> NoLine]

PhonesTypeOK ==
    /\ line \in [Holders -> Lines \union {NoLine}]
    /\ checked \in [Holders -> BOOLEAN]
    /\ code \subseteq Lines
    /\ says \in [Holders -> {"nothing", "no", "yes"}]
    /\ telling \subseteq Holders /\ noted \subseteq Holders
    /\ attempt \in [Attempts -> [pc: {"idle", "send", "check", "update", "sync"}, by: Holders,
                           to: Lines \union {NoLine}]]
    /\ proven \subseteq Holders \X Lines
    /\ edited \subseteq Holders /\ muddled \subseteq Holders
    /\ attempts \in 0..MaxAttempts /\ troubles \in 0..MaxTroubles

PhonesInit ==
    /\ line = [h \in Holders |-> NoLine]
    /\ checked = [h \in Holders |-> FALSE]
    /\ code = {}
    /\ says = [h \in Holders |-> "nothing"]
    /\ telling = {} /\ noted = {}
    /\ attempt = [t \in Attempts |-> NoAttempt]
    /\ proven = {} /\ edited = {} /\ muddled = {}
    /\ attempts = 0 /\ troubles = 0

-----------------------------------------------------------------------------

AttemptIs(t, rec) == attempt' = [attempt EXCEPT ![t] = rec]

\* The guard, before every request.
GuardTells(h) ==
    /\ noted' = IF ~ checked[h] /\ h \notin TutorHolders THEN noted \union {h} ELSE noted
    /\ telling' = telling \union (noted' \ noted)

\* The number is another user's, who has verified it.
TakenBy(h, n) == \E o \in Holders \ {h} : line[o] = n /\ checked[o]

\* sendOtp ends here for one who is verified, and so do both for a taken number.
StartsAttempt(t, h, n, what) ==
    /\ attempt[t].pc = "idle"
    /\ attempts < MaxAttempts /\ attempts' = attempts + 1
    /\ GuardTells(h)
    /\ IF TakenBy(h, n) \/ (what = "send" /\ checked[h])
       THEN UNCHANGED attempt
       ELSE AttemptIs(t, [pc |-> what, by |-> h, to |-> n])
    /\ UNCHANGED <<line, checked, code, says, proven, edited, muddled, troubles>>

SendsCode(t) ==
    /\ attempt[t].pc = "send"
    /\ code' = code \union {attempt[t].to}
    /\ AttemptIs(t, NoAttempt)
    /\ UNCHANGED <<line, checked, says, telling, noted, proven, edited, muddled, attempts,
                   troubles>>

\* Mutant: a code that is out for any number will do.
ApprovedForAny(n) == code # {}

\* The provider approves the code of this number, once.
Approved(n) == n \in code

ChecksCode(t, right) ==
    /\ attempt[t].pc = "check"
    /\ IF right /\ Approved(attempt[t].to)
       THEN /\ AttemptIs(t, [attempt[t] EXCEPT !.pc = "update"])
            /\ proven' = proven \union {<<attempt[t].by, n>> : n \in code \intersect {attempt[t].to}}
            /\ code' = code \ {attempt[t].to}
       ELSE AttemptIs(t, NoAttempt) /\ UNCHANGED <<proven, code>>
    /\ UNCHANGED <<line, checked, says, telling, noted, edited, muddled, attempts, troubles>>

\* Only one who is not verified yet, and the number in no other row, verified or
\* not; the code is spent all the same.
UpdatesUser(t) ==
    /\ attempt[t].pc = "update"
    /\ LET h == attempt[t].by
           n == attempt[t].to
       IN IF checked[h] \/ \E o \in Holders \ {h} : line[o] = n
          THEN AttemptIs(t, NoAttempt) /\ UNCHANGED <<line, checked, edited>>
          ELSE /\ line' = [line EXCEPT ![h] = n]
               /\ checked' = [checked EXCEPT ![h] = TRUE]
               /\ edited' = edited \ {h}
               /\ AttemptIs(t, [attempt[t] EXCEPT !.pc = "sync"])
    /\ UNCHANGED <<code, says, telling, noted, proven, muddled, attempts, troubles>>

\* syncPhoneVerifiedToClerk: a failure is swallowed.
TellsYes(t, fails) ==
    /\ attempt[t].pc = "sync"
    /\ fails => troubles < MaxTroubles
    /\ troubles' = IF fails THEN troubles + 1 ELSE troubles
    /\ says' = IF fails THEN says ELSE [says EXCEPT ![attempt[t].by] = "yes"]
    /\ muddled' = IF fails \/ attempt[t].by \in telling THEN muddled \union {attempt[t].by}
                  ELSE muddled
    /\ AttemptIs(t, NoAttempt)
    /\ UNCHANGED <<line, checked, code, telling, noted, proven, edited, attempts>>

\* Nothing waits for it: it may land after the user is verified.
TellsNo(h, fails) ==
    /\ h \in telling
    /\ fails => troubles < MaxTroubles
    /\ troubles' = IF fails THEN troubles + 1 ELSE troubles
    /\ says' = IF fails THEN says ELSE [says EXCEPT ![h] = "no"]
    /\ telling' = telling \ {h}
    /\ UNCHANGED <<line, checked, code, noted, attempt, proven, edited, muddled, attempts>>

\* updateTutorProfile: the number changes and stays verified.
EditsPhone(h, n) ==
    /\ h \in TutorHolders
    /\ attempts < MaxAttempts /\ attempts' = attempts + 1
    /\ n = NoLine \/ \A o \in Holders \ {h} : line[o] # n
    /\ line' = [line EXCEPT ![h] = n]
    /\ edited' = edited \union {h}
    /\ UNCHANGED <<checked, code, says, telling, noted, attempt, proven, muddled, troubles>>

PhonesRestart ==
    /\ troubles < MaxTroubles /\ troubles' = troubles + 1
    /\ attempt' = [t \in Attempts |-> NoAttempt]
    /\ telling' = {} /\ noted' = {}
    /\ muddled' = muddled \union {attempt[t].by : t \in {u \in Attempts : attempt[u].pc = "sync"}}
    /\ UNCHANGED <<line, checked, code, says, proven, edited, attempts>>

PhonesNext ==
    \/ \E t \in Attempts, h \in Holders, n \in Lines, what \in {"send", "check"} :
           StartsAttempt(t, h, n, what)
    \/ \E t \in Attempts : SendsCode(t) \/ UpdatesUser(t)
    \/ \E t \in Attempts, right \in BOOLEAN : ChecksCode(t, right)
    \/ \E t \in Attempts, fails \in BOOLEAN : TellsYes(t, fails)
    \/ \E h \in Holders, fails \in BOOLEAN : TellsNo(h, fails)
    \/ \E h \in Holders, n \in Lines \union {NoLine} : EditsPhone(h, n)
    \/ PhonesRestart

PhonesSpec == PhonesInit /\ [][PhonesNext]_phonesVars

-----------------------------------------------------------------------------

\* Who is verified has entered the code of the number, unless the number has been
\* edited since.
VerifiedIsProven == \A h \in Holders \ edited : checked[h] => <<h, line[h]>> \in proven

\* No two accounts hold one number.
NumberIsOnes == \A g, h \in Holders : g # h /\ line[g] = line[h] => line[g] = NoLine

Syncing(h) == \E t \in Attempts : attempt[t].pc = "sync" /\ attempt[t].by = h

\* The login provider calls nobody verified who is not, and everybody who is,
\* unless its calls failed or crossed.
ProviderAgrees == \A h \in Holders :
    /\ says[h] = "yes" => checked[h]
    /\ checked[h] /\ ~ Syncing(h) /\ h \notin muddled => says[h] = "yes"

\* A verified number was proven by its holder and is nobody else's, and the login
\* provider says what the row says, whatever requests of several users for one
\* number, edits of profiles, restarts and belated calls come between.
NumbersAreProven == VerifiedIsProven /\ NumberIsOnes /\ ProviderAgrees

=============================================================================
