------------------------------ MODULE Students ------------------------------
(***************************************************************************)
(* A student's own record (src/students): experience points and the daily  *)
(* streak of practice, edits of the profile, the dashboard with its cache  *)
(* of 30 seconds, and the consent to be recorded, by herself if she is of  *)
(* age or by her parent.                                                   *)
(*                                                                         *)
(* Every request reads the row, awaits, and writes it.                     *)
(*                                                                         *)
(* Left out: the weekly streak (Sessions), what else the dashboard shows,  *)
(* the calendar behind the age of 18.                                      *)
(***************************************************************************)
EXTENDS Integers, FiniteSets

CONSTANTS
    Callers,        \* requests at work at one time
    LastDay,        \* bound on days
    MaxResults,     \* bound on practice results and edits
    MaxConsents,    \* bound on changes of the consent
    MaxMisses       \* bound on failed calls of the cache

ASSUME StudentsAssumption ==
    /\ LastDay \in Nat /\ MaxResults \in Nat /\ MaxConsents \in Nat
    /\ MaxMisses \in Nat

VARIABLES
    today,
    record,     \* practice_xp, practice_streak, last_practice_at, an edited field
    consent,    \* recording_consent_granted with _by, and birth_date
    redated,    \* history: a birth date took the place of another
    removed,    \* the row is deleted
    cache,      \* the dashboard in the cache: the record it shows, or empty
    call,       \* the requests
    practised,  \* history: the days of practice
    results, edits, consents, misses,
    met,        \* history: a request read the row while another was to write it
    stale       \* history: a page may be in the cache that is older than the row

studentsVars == <<today, record, consent, redated, removed, cache, call, practised,
                  results, edits, consents, misses, met, stale>>
studentCounts == <<results, edits, consents, misses>>
filed == <<consent, redated>>

Days == 0..LastDay
NoDay == 0 - 1
Record == [xp: 0..MaxResults, streak: 0..(LastDay + 1), last: Days \union {NoDay},
           edit: 0..MaxResults]
Births == {"unknown", "minor", "adult"}
NewRecord == [xp |-> 0, streak |-> 0, last |-> NoDay, edit |-> 0]

\* The page that is to be kept, the values that are to be written.
Call == [pc: {"idle", "practice", "edit", "bust", "load", "keep", "consent"},
         record: Record, birth: Births, granted: BOOLEAN]
NoCall == [pc |-> "idle", record |-> NewRecord, birth |-> "unknown", granted |-> FALSE]

StudentsTypeOK ==
    /\ today \in Days
    /\ record \in Record
    /\ consent \in [granted: BOOLEAN, by: {"nobody", "self", "parent"}, birth: Births]
    /\ redated \in BOOLEAN
    /\ removed \in BOOLEAN
    /\ cache \in [kept: BOOLEAN, record: Record]
    /\ call \in [Callers -> Call]
    /\ practised \subseteq Days
    /\ results \in 0..MaxResults /\ edits \in 0..MaxResults
    /\ consents \in 0..MaxConsents /\ misses \in 0..MaxMisses
    /\ met \in BOOLEAN /\ stale \in BOOLEAN

EmptyCache == [kept |-> FALSE, record |-> NewRecord]

StudentsInit ==
    /\ today = 0
    /\ record = NewRecord
    /\ consent = [granted |-> FALSE, by |-> "nobody", birth |-> "unknown"]
    /\ redated = FALSE
    /\ removed = FALSE
    /\ cache = EmptyCache
    /\ call = [c \in Callers |-> NoCall]
    /\ practised = {}
    /\ results = 0 /\ edits = 0 /\ consents = 0 /\ misses = 0
    /\ met = FALSE /\ stale = FALSE

-----------------------------------------------------------------------------

Free(c) == call[c].pc = "idle"
Calls(c, rec) == call' = [call EXCEPT ![c] = rec]
Ends(c) == Calls(c, NoCall)
Writing(c) == call[c].pc = "practice"

(* recordPracticeResult *)

\* Mutant: a gap does not break the streak.
StreakWithGaps(r) == IF r.last = today THEN r.streak ELSE r.streak + 1

\* The same day keeps it, the next adds one, a gap begins anew.
Streak(r) ==
    IF r.last = NoDay THEN 1
    ELSE IF r.last = today THEN r.streak
    ELSE IF r.last = today - 1 THEN r.streak + 1
    ELSE 1

PracticeReads(c) ==
    /\ Free(c) /\ ~ removed
    /\ results < MaxResults
    /\ Calls(c, [NoCall EXCEPT !.pc = "practice",
                               !.record = [record EXCEPT !.xp = @ + 1, !.last = today,
                                                         !.streak = Streak(record)]])
    /\ results' = results + 1
    /\ practised' = practised \union {today}
    /\ met' = (met \/ \E d \in Callers \ {c} : Writing(d))
    /\ UNCHANGED <<today, record, filed, removed, cache, edits, consents, misses, stale>>

\* A page that is being made was read before this write.
Loading == \E c \in Callers : call[c].pc = "keep"

PracticeWrites(c) ==
    /\ call[c].pc = "practice"
    /\ IF removed THEN Ends(c) /\ UNCHANGED <<record, stale>>
       ELSE /\ record' = [call[c].record EXCEPT !.edit = record.edit]
            /\ stale' = (stale \/ Loading)
            /\ Calls(c, [NoCall EXCEPT !.pc = "bust"])
    /\ UNCHANGED <<today, filed, removed, cache, practised, studentCounts, met>>

\* The key of the dashboard is deleted; an error is swallowed.
BustsCache(c) ==
    /\ call[c].pc = "bust"
    /\ \/ cache' = EmptyCache /\ UNCHANGED <<misses, stale>>
       \/ /\ misses < MaxMisses /\ misses' = misses + 1
          /\ stale' = TRUE
          /\ UNCHANGED cache
    /\ Ends(c)
    /\ UNCHANGED <<today, record, filed, removed, practised, results, edits,
                   consents, met>>

(* update: an edit writes only its own columns *)

EditReads(c) ==
    /\ Free(c) /\ ~ removed
    /\ edits < MaxResults
    /\ Calls(c, [NoCall EXCEPT !.pc = "edit"])
    /\ edits' = edits + 1
    /\ UNCHANGED <<today, record, filed, removed, cache, practised, results,
                   consents, misses, met, stale>>

EditWrites(c) ==
    /\ call[c].pc = "edit"
    /\ IF removed THEN Ends(c) /\ UNCHANGED <<record, stale>>
       ELSE /\ record' = [record EXCEPT !.edit = @ + 1]
            /\ stale' = (stale \/ Loading)
            /\ Calls(c, [NoCall EXCEPT !.pc = "bust"])
    /\ UNCHANGED <<today, filed, removed, cache, practised, studentCounts, met>>

(* getMyDashboardSummary *)

\* A kept page is shown; else one is made.
DashboardAsks(c) ==
    /\ Free(c) /\ ~ cache.kept
    /\ Calls(c, [NoCall EXCEPT !.pc = "load"])
    /\ UNCHANGED <<today, record, filed, removed, cache, practised, studentCounts,
                   met, stale>>

DashboardReads(c) ==
    /\ call[c].pc = "load"
    /\ IF removed THEN Ends(c)
       ELSE Calls(c, [NoCall EXCEPT !.pc = "keep", !.record = record])
    /\ UNCHANGED <<today, record, filed, removed, cache, practised, studentCounts,
                   met, stale>>

DashboardKeeps(c) ==
    /\ call[c].pc = "keep"
    /\ cache' = [kept |-> TRUE, record |-> call[c].record]
    /\ Ends(c)
    /\ UNCHANGED <<today, record, filed, removed, practised, studentCounts, met, stale>>

\* 30 seconds; what was stale is forgotten when nothing is under way.
CacheExpires ==
    /\ cache.kept
    /\ cache' = EmptyCache
    /\ stale' = (stale /\ \E c \in Callers : call[c].pc = "keep")
    /\ UNCHANGED <<today, record, filed, removed, call, practised, studentCounts, met>>

(* setMyRecordingConsent and the parent's setRecordingConsent *)

\* The birth date she gives counts only if there is none on file.
BirthOf(given) == IF consent.birth = "unknown" THEN given ELSE consent.birth

\* Mutant: who is not known to be a minor may consent.
MayConsentUnlessMinor(birth) == birth # "minor"

MayConsent(birth) == birth = "adult"

ConsentReads(c, granted, given) ==
    /\ Free(c) /\ ~ removed
    /\ consents < MaxConsents
    /\ consents' = consents + 1
    /\ IF granted /\ ~ MayConsent(BirthOf(given)) THEN UNCHANGED call
       ELSE Calls(c, [NoCall EXCEPT !.pc = "consent", !.granted = granted,
                                    !.birth = IF consent.birth = "unknown" THEN given
                                              ELSE "unknown"])
    /\ UNCHANGED <<today, record, filed, removed, cache, practised, results, edits,
                   misses, met, stale>>

\* The date, if it is to be written, and the consent in one update.
ConsentWrites(c) ==
    /\ call[c].pc = "consent"
    /\ IF removed THEN UNCHANGED filed
       ELSE /\ consent' = [granted |-> call[c].granted,
                           by |-> IF call[c].granted THEN "self" ELSE "nobody",
                           birth |-> IF call[c].birth = "unknown" THEN consent.birth
                                     ELSE call[c].birth]
            /\ redated' = (redated \/ consent.birth \notin {"unknown", consent'.birth})
    /\ Ends(c)
    /\ UNCHANGED <<today, record, removed, cache, practised, studentCounts, met, stale>>

ParentConsents(granted) ==
    /\ consents < MaxConsents /\ ~ removed
    /\ consents' = consents + 1
    /\ consent' = [consent EXCEPT !.granted = granted,
                                  !.by = IF granted THEN "parent" ELSE "nobody"]
    /\ UNCHANGED <<today, record, redated, removed, cache, call, practised, results, edits,
                   misses, met, stale>>

(* delete, by her parent, as long as there are no bookings *)

Delete ==
    /\ ~ removed
    /\ removed' = TRUE
    /\ UNCHANGED <<today, record, filed, cache, call, practised, studentCounts,
                   met, stale>>

\* A day passes between requests.
DayPasses ==
    /\ today < LastDay
    /\ \A c \in Callers : Free(c)
    /\ today' = today + 1
    /\ UNCHANGED <<record, filed, removed, cache, call, practised, studentCounts,
                   met, stale>>

-----------------------------------------------------------------------------

Serving(c) ==
    \/ PracticeReads(c) \/ PracticeWrites(c) \/ EditReads(c) \/ EditWrites(c)
    \/ BustsCache(c)
    \/ DashboardAsks(c) \/ DashboardReads(c) \/ DashboardKeeps(c)
    \/ \E granted \in BOOLEAN, given \in Births : ConsentReads(c, granted, given)
    \/ ConsentWrites(c)

StudentsNext ==
    \/ \E c \in Callers : Serving(c)
    \/ CacheExpires
    \/ \E granted \in BOOLEAN : ParentConsents(granted)
    \/ Delete \/ DayPasses

StudentsSpec == StudentsInit /\ [][StudentsNext]_studentsVars

-----------------------------------------------------------------------------
(* Properties *)

\* The days in a row up to the last day of practice.
Run(last) == Cardinality({d \in practised : d <= last /\ d..last \subseteq practised})

Served == \A c \in Callers : call[c].pc \notin {"practice", "bust", "edit"}

\* Every result counts and the streak is that of the days practised, unless two
\* results were written at one time.
PracticeCounts ==
    Served /\ ~ met /\ ~ removed =>
        /\ record.xp = results
        /\ record.last # NoDay => record.streak = Run(record.last)

\* "Bust the cached dashboard so the new XP shows immediately": it does, unless
\* the page was being made meanwhile or the cache could not be reached.
DashboardIsFresh == Served /\ ~ stale /\ cache.kept => cache.record = record

\* Who consented to being recorded herself has a birth date on file that makes
\* her of age, unless a request that found none has replaced the date of another.
SelfConsentIsOfAge ==
    consent.by = "self" => consent.granted /\ (redated \/ consent.birth = "adult")

\* A student's record says what happened.
RecordIsTrue == PracticeCounts /\ DashboardIsFresh /\ SelfConsentIsOfAge

=============================================================================
