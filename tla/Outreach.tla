------------------------------ MODULE Outreach ------------------------------
(***************************************************************************)
(* The mails to somebody who has signed up (src/onboarding,                *)
(* src/engagement, src/email): the hourly pass with its four rules, the    *)
(* queue that tries a job three times, the answers tapped in the mails and *)
(* the opt-out.                                                            *)
(*                                                                         *)
(* One user.  Workers may overlap: nothing stops the job of the next hour, *)
(* or of a second server.                                                  *)
(*                                                                         *)
(* Left out: texts and tokens (taps come from mails that arrived within    *)
(* the life of their token), the limit of 200 users.                       *)
(***************************************************************************)
EXTENDS Integers, FiniteSets

CONSTANTS
    Workers,        \* passes that may be at work at one time
    MaxPasses,      \* bound on passes
    MaxRefusals,    \* bound on failed attempts of jobs
    MaxFaults       \* bound on failures of the database or Redis, and stops

ASSUME OutreachAssumption ==
    /\ IsFiniteSet(Workers)
    /\ MaxPasses \in Nat /\ MaxRefusals \in Nat /\ MaxFaults \in Nat

VARIABLES
    age,        \* how long ago the user signed up, see below
    user,       \* onboarding_status, email_opted_out, has she bookings
    event,      \* email_events
    pass,       \* the passes
    jobs,       \* the queue
    inbox,      \* the mails that arrived
    mailed,     \* history: jobs that were made of each type
    unsure,     \* history: types two passes were at, or not recorded
    stray,      \* history: jobs made since the user opted out
    decided,    \* history: passes that had decided on a mail at that time
    passes, refusals, faults

outreachVars == <<age, user, event, pass, jobs, inbox, mailed, unsure, stray,
                  decided, passes, refusals, faults>>
counts == <<passes, refusals, faults>>
mail == <<jobs, inbox>>
told == <<mailed, unsure, stray, decided>>

\* The rules in the order of the pass.
Types == <<"mcq_academic", "mcq_friction", "breakup", "booking_nudge">>
Type == {Types[i] : i \in DOMAIN Types}
Tapable == {"mcq_academic", "mcq_friction"}

\* Ages: 0 is the first day, then from 1, 2, 4, 8 and 14 days on.
Oldest == 5
MinAge(t) == CASE t = "mcq_academic" -> 1 [] t = "booking_nudge" -> 2
               [] t = "mcq_friction" -> 3 [] t = "breakup" -> 4

\* rule: the number of the rule at work; sent: an event excludes the user.
Pass == [pc: {"idle", "events", "users", "send", "record"}, rule: 1..4, sent: BOOLEAN]
NoPass == [pc |-> "idle", rule |-> 1, sent |-> FALSE]
Job == [type: Type, nr: 1..(2 * MaxPasses), tries: 1..3]

OutreachTypeOK ==
    /\ age \in 0..Oldest
    /\ user \in [complete: BOOLEAN, out: BOOLEAN, booked: BOOLEAN]
    /\ event \in [Type -> {"none", "sent", "answered"}]
    /\ pass \in [Workers -> Pass]
    /\ jobs \subseteq Job
    /\ inbox \subseteq Type
    /\ mailed \in [Type -> Nat]
    /\ unsure \subseteq Type
    /\ stray \in Nat /\ decided \in Nat
    /\ passes \in 0..MaxPasses /\ refusals \in 0..MaxRefusals /\ faults \in 0..MaxFaults

OutreachInit ==
    /\ age = 0
    /\ user = [complete |-> FALSE, out |-> FALSE, booked |-> FALSE]
    /\ event = [t \in Type |-> "none"]
    /\ pass = [p \in Workers |-> NoPass]
    /\ jobs = {} /\ inbox = {}
    /\ mailed = [t \in Type |-> 0]
    /\ unsure = {} /\ stray = 0 /\ decided = 0
    /\ passes = 0 /\ refusals = 0 /\ faults = 0

-----------------------------------------------------------------------------
(* runBehavioralEmails *)

TypeOf(p) == Types[pass[p].rule]

\* A rule ends, also by an error, and the next begins.
NextRule(p) ==
    pass' = [pass EXCEPT ![p] = IF @.rule = 4 THEN NoPass
                                ELSE [NoPass EXCEPT !.pc = "events",
                                                    !.rule = pass[p].rule + 1]]

PassBegins(p) ==
    /\ pass[p].pc = "idle"
    /\ passes < MaxPasses
    /\ pass' = [pass EXCEPT ![p].pc = "events"]
    /\ passes' = passes + 1
    /\ UNCHANGED <<age, user, event, mail, told, refusals, faults>>

\* The user has had this mail; the second question is not asked of those who
\* tapped any answer.
Excluded(t) ==
    \/ event[t] # "none"
    \/ t = "mcq_friction" /\ \E q \in Tapable : event[q] = "answered"

ReadsEvents(p) ==
    /\ pass[p].pc = "events"
    /\ pass' = [pass EXCEPT ![p].pc = "users", ![p].sent = Excluded(TypeOf(p))]
    /\ unsure' = IF \E q \in Workers \ {p} :
                        pass[q].pc \in {"users", "send", "record"} /\ TypeOf(q) = TypeOf(p)
                 THEN unsure \union {TypeOf(p)} ELSE unsure
    /\ UNCHANGED <<age, user, event, mail, mailed, stray, decided, counts>>

OldEnough(t) == MinAge(t) <= age /\ age < Oldest

\* Mutant: the opt-out is not asked for.
DueAnyway(t) ==
    OldEnough(t) /\ IF t = "booking_nudge" THEN user.complete /\ ~ user.booked
                    ELSE ~ user.complete

\* The users of the query, and for the nudge those without bookings.
Due(t) ==
    /\ OldEnough(t) /\ ~ user.out
    /\ IF t = "booking_nudge" THEN user.complete /\ ~ user.booked ELSE ~ user.complete

ReadsUsers(p) ==
    /\ pass[p].pc = "users"
    /\ IF ~ pass[p].sent /\ Due(TypeOf(p))
       THEN pass' = [pass EXCEPT ![p].pc = "send"]
       ELSE NextRule(p)
    /\ UNCHANGED <<age, user, event, mail, told, counts>>

\* The job is put into the queue.
SendsMail(p) ==
    LET t == TypeOf(p)
    IN  /\ pass[p].pc = "send"
        /\ jobs' = jobs \union {[type |-> t, nr |-> mailed[t] + 1, tries |-> 3]}
        /\ mailed' = [mailed EXCEPT ![t] = @ + 1]
        /\ stray' = IF user.out THEN stray + 1 ELSE stray
        /\ pass' = [pass EXCEPT ![p].pc = "record"]
        /\ UNCHANGED <<age, user, event, inbox, unsure, decided, counts>>

\* Mutant: a row that is left to the answer.
LeftToAnswer(t) == event

\* skipDuplicates: the row of a quick answer stays.
Recorded(t) == [event EXCEPT ![t] = IF @ = "none" THEN "sent" ELSE @]

RecordsMail(p) ==
    /\ pass[p].pc = "record"
    /\ event' = Recorded(TypeOf(p))
    /\ NextRule(p)
    /\ UNCHANGED <<age, user, mail, told, counts>>

\* A query or Redis fails: the rule is over.
RuleFails(p) ==
    /\ pass[p].pc # "idle"
    /\ faults < MaxFaults
    /\ faults' = faults + 1
    /\ unsure' = IF pass[p].pc = "record" THEN unsure \union {TypeOf(p)} ELSE unsure
    /\ NextRule(p)
    /\ UNCHANGED <<age, user, event, mail, mailed, stray, decided, passes, refusals>>

OutreachStops ==
    /\ faults < MaxFaults
    /\ \E p \in Workers : pass[p].pc # "idle"
    /\ faults' = faults + 1
    /\ unsure' = unsure \union {TypeOf(p) : p \in {q \in Workers : pass[q].pc = "record"}}
    /\ pass' = [p \in Workers |-> NoPass]
    /\ UNCHANGED <<age, user, event, mail, mailed, stray, decided, passes, refusals>>

-----------------------------------------------------------------------------
(* The queue: EmailProcessor *)

JobSucceeds(j) ==
    /\ jobs' = jobs \ {j}
    /\ inbox' = inbox \union {j.type}
    /\ UNCHANGED <<age, user, event, pass, told, counts>>

\* Three attempts; also one whose mail went out may fail.
JobFails(j) ==
    /\ refusals < MaxRefusals
    /\ refusals' = refusals + 1
    /\ jobs' = (jobs \ {j}) \union
               (IF j.tries = 1 THEN {} ELSE {[j EXCEPT !.tries = @ - 1]})
    /\ \/ UNCHANGED inbox
       \/ inbox' = inbox \union {j.type}
    /\ UNCHANGED <<age, user, event, pass, told, passes, faults>>

-----------------------------------------------------------------------------
(* The user *)

Ages ==
    /\ age < Oldest
    /\ age' = age + 1
    /\ UNCHANGED <<user, event, pass, mail, told, counts>>

CompletesOnboarding ==
    /\ ~ user.complete
    /\ user' = [user EXCEPT !.complete = TRUE]
    /\ UNCHANGED <<age, event, pass, mail, told, counts>>

Books ==
    /\ user.complete /\ ~ user.booked
    /\ user' = [user EXCEPT !.booked = TRUE]
    /\ UNCHANGED <<age, event, pass, mail, told, counts>>

\* recordAnswer: an upsert, also before the row of the mail is written.
RecordAnswer(t) ==
    /\ t \in inbox \intersect Tapable
    /\ event' = [event EXCEPT ![t] = "answered"]
    /\ UNCHANGED <<age, user, pass, mail, told, counts>>

\* Any mail has the link; a failure is logged and the page says it is done.
SetOptOut(resubscribe) ==
    /\ inbox # {}
    /\ user.out = resubscribe
    /\ user' = [user EXCEPT !.out = ~ resubscribe]
    /\ stray' = 0
    /\ decided' = Cardinality({p \in Workers : pass[p].pc = "send"})
    /\ UNCHANGED <<age, event, pass, mail, mailed, unsure, counts>>

-----------------------------------------------------------------------------

Passing(p) ==
    \/ PassBegins(p) \/ ReadsEvents(p) \/ ReadsUsers(p) \/ SendsMail(p)
    \/ RecordsMail(p) \/ RuleFails(p)

OutreachNext ==
    \/ \E p \in Workers : Passing(p)
    \/ OutreachStops
    \/ \E j \in jobs : JobSucceeds(j) \/ JobFails(j)
    \/ Ages \/ CompletesOnboarding \/ Books
    \/ \E t \in Type : RecordAnswer(t)
    \/ \E resubscribe \in BOOLEAN : SetOptOut(resubscribe)

OutreachSpec == OutreachInit /\ [][OutreachNext]_outreachVars

-----------------------------------------------------------------------------
(* Properties *)

\* Each kind of mail is sent once, unless two passes were at it at one time or
\* its row could not be written: the unique key keeps the row single, not the
\* mail ("keeps this idempotent even if two cron passes race").
MailedOnce == \A t \in Type : mailed[t] > 1 => t \in unsure

\* After the opt-out nothing more is sent than what passes had decided before.
OptOutIsHeeded == user.out => stray <= decided

\* A user gets each mail once, and none that was not under way when she opted
\* out, whatever passes, refusals of the queue and failures overlap.
MailIsWanted == MailedOnce /\ OptOutIsHeeded

=============================================================================
