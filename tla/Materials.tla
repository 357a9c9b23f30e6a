----------------------------- MODULE Materials -----------------------------
(***************************************************************************)
(* What belongs to the sessions of one booking besides their life: the     *)
(* chat, the tutor's note, the snapshot of the whiteboard, shared notes    *)
(* and the recording (src/sessions/sessions.service).                      *)
(*                                                                         *)
(* A request names a session, or the booking, which stands for its newest  *)
(* session; if there is none yet most requests make one.  Resolving the    *)
(* id, checking who asks, and writing are awaited one after the other.     *)
(*                                                                         *)
(* Left out: blobs and their URLs as such, the e-mail comparison behind    *)
(* "identity drift", notifications (the parent of the student stands with  *)
(* the student: the code treats them alike here).                          *)
(***************************************************************************)
EXTENDS Integers, Sequences, FiniteSets

CONSTANTS
    Askers,         \* requests at work at one time
    MaxSessions,    \* bound on sessions of the booking
    MaxAdded,       \* bound on sessions made outside of this module
    MaxAsked        \* bound on requests

ASSUME MaterialsAssumption ==
    MaxSessions \in Nat /\ MaxAdded \in Nat /\ MaxAsked \in Nat

VARIABLES
    held,       \* the sessions of the booking by created_at
    taught,     \* bookings.assigned_tutor_id is the tutor's
    trial,      \* is_trial_active or enrollment_status 'trial'
    ask,        \* the requests
    posts,      \* session_messages
    shared,     \* class_notes
    handed,     \* history: URLs of recordings given out
    asked, added,
    collided         \* history: two requests found no session at one time

materialsVars == <<held, taught, trial, ask, posts, shared, handed, asked, added, collided>>

\* The booking's own student (or her parent), its tutor, an admin, and a
\* student who takes part only by a row of attendance.
People == {"student", "tutor", "admin", "guest"}
Operations == {"post", "read", "note", "board", "snapshot", "share", "notes",
               "stream", "list", "enter", "summary"}
Numbers == 0..MaxSessions   \* 0 for the booking or for none

OneSession == [over: BOOLEAN, guest: BOOLEAN, note: BOOLEAN, board: BOOLEAN,
               recording: {"none", "kept", "expired"}, views: 0..MaxAsked]
HeldSessions == UNION {[1..n -> OneSession] : n \in Numbers}
NewSession == [over |-> FALSE, guest |-> FALSE, note |-> FALSE, board |-> FALSE,
               recording |-> "none", views |-> 0]

\* at: the session the id stands for; moved: one was made meanwhile.
Ask == [pc: {"idle", "resolve", "make", "check", "act", "url"}, of: Operations,
        id: Numbers, who: People, at: Numbers, checked: BOOLEAN, moved: BOOLEAN]
NoAsk == [pc |-> "idle", of |-> "list", id |-> 0, who |-> "admin", at |-> 0,
          checked |-> FALSE, moved |-> FALSE]
Post == [at: Numbers, id: Numbers, who: People, moved: BOOLEAN, newest: BOOLEAN]

MaterialsTypeOK ==
    /\ held \in HeldSessions
    /\ taught \in BOOLEAN /\ trial \in BOOLEAN
    /\ ask \in [Askers -> Ask]
    /\ posts \subseteq Post
    /\ shared \subseteq [at: Numbers, who: People]
    /\ handed \in [Numbers -> 0..MaxAsked]
    /\ asked \in 0..MaxAsked /\ added \in 0..MaxAdded
    /\ collided \in BOOLEAN

MaterialsInit ==
    /\ held = <<>>
    /\ taught \in BOOLEAN
    /\ trial \in BOOLEAN
    /\ ask = [c \in Askers |-> NoAsk]
    /\ posts = {} /\ shared = {}
    /\ handed = [k \in Numbers |-> 0]
    /\ asked = 0 /\ added = 0 /\ collided = FALSE

-----------------------------------------------------------------------------
(* Which session, and who takes part *)

Newest == Len(held)
Makers == {"post", "share", "notes", "stream", "list", "enter", "summary"}

\* Who asks is checked before the id is resolved.
CheckedFirst == {"notes", "snapshot"}
Idles(c) == ask[c].pc = "idle"
Turns(c, rec) == ask' = [ask EXCEPT ![c] = rec]
Rejected(c) == Turns(c, NoAsk)
Elsewhere == UNCHANGED <<posts, shared, handed>>

\* checkBookingAccess, with the attendance of session k if there is one.
Access(who, k) ==
    \/ who \in {"admin", "student"}
    \/ who = "tutor" /\ taught
    \/ who = "guest" /\ k # 0 /\ held[k].guest

\* The summary is the admins', by their role: nothing is left to be checked.
Asks(c, of, id, who) ==
    /\ Idles(c) /\ asked < MaxAsked
    /\ id <= Newest
    /\ of = "summary" => who = "admin"
    /\ asked' = asked + 1
    /\ Turns(c, [NoAsk EXCEPT !.pc = IF of \in CheckedFirst THEN "check" ELSE "resolve",
                              !.of = of, !.id = id, !.who = who,
                              !.checked = of = "summary"])
    /\ UNCHANGED <<held, taught, trial, posts, shared, handed, added, collided>>

\* Mutant: the first session of a booking is taken for its newest.
EarliestFor(c) == IF Newest = 0 THEN 0 ELSE IF ask[c].id = 0 THEN 1 ELSE ask[c].id

StandsFor(c) == IF ask[c].id = 0 THEN Newest ELSE ask[c].id

\* postMessage looks for a booking first, ensureSessionId for a session.
Resolves(c) ==
    /\ ask[c].pc = "resolve"
    /\ LET k == StandsFor(c)
           next == IF ask[c].checked THEN "act" ELSE "check"
       IN  IF k = 0 /\ ask[c].of \in Makers
           THEN /\ Turns(c, [ask[c] EXCEPT !.pc = "make"])
                /\ collided' = (collided \/ \E d \in Askers : ask[d].pc = "make")
           ELSE /\ Turns(c, [ask[c] EXCEPT !.pc = next, !.at = k])
                /\ UNCHANGED collided
    /\ UNCHANGED <<held, taught, trial, asked, added>> /\ Elsewhere

\* Every request under way is older than the session now made.
Grown(rec) == [rec EXCEPT !.moved = rec.pc # "idle"]

MakesSession(c) ==
    /\ ask[c].pc = "make"
    /\ Newest < MaxSessions
    /\ held' = Append(held, NewSession)
    /\ ask' = [d \in Askers |->
                 IF d = c THEN [ask[c] EXCEPT !.at = Newest + 1,
                                              !.pc = IF ask[c].checked THEN "act" ELSE "check"]
                 ELSE Grown(ask[d])]
    /\ UNCHANGED <<taught, trial, asked, added, collided>> /\ Elsewhere

\* By session id or, for the chat, the notes and the snapshot's URL, by the id as
\* it came: a booking then stands for its newest session once more.
Checked(c) ==
    IF ask[c].of \in {"post", "read"} \union CheckedFirst THEN StandsFor(c) ELSE ask[c].at

Allowed(c) ==
    CASE ask[c].of = "share" ->
           ask[c].who = "admin" \/ (ask[c].who = "tutor" /\ taught /\ held[ask[c].at].over)
      [] ask[c].of = "note" -> ask[c].at # 0 /\ ask[c].who = "tutor" /\ taught
      [] OTHER -> Access(ask[c].who, Checked(c))

\* A snapshot under the id of a booking without session: the check makes one,
\* and the row to be updated then is looked for under the booking's id.
ChecksSnapshot(c) ==
    /\ ask[c].pc = "check"
    /\ ask[c].of = "board" /\ ask[c].at = 0
    /\ Newest < MaxSessions
    /\ held' = IF Newest = 0 THEN Append(held, NewSession) ELSE held
    /\ ask' = [d \in Askers |-> IF d = c THEN NoAsk
                                ELSE IF Newest = 0 THEN Grown(ask[d]) ELSE ask[d]]
    /\ collided' = (collided \/ \E d \in Askers : ask[d].pc = "make")
    /\ UNCHANGED <<taught, trial, asked, added>> /\ Elsewhere

Checks(c) ==
    /\ ask[c].pc = "check"
    /\ ask[c].of # "board" \/ ask[c].at # 0
    /\ IF ~ Allowed(c) THEN Rejected(c)
       ELSE Turns(c, [ask[c] EXCEPT !.checked = TRUE,
                          !.pc = IF ask[c].of \in CheckedFirst THEN "resolve" ELSE "act"])
    /\ UNCHANGED <<held, taught, trial, asked, added, collided>> /\ Elsewhere

-----------------------------------------------------------------------------
(* What is done then *)

Acts(c, of) == ask[c].pc = "act" /\ ask[c].of = of

PostWrites(c) ==
    /\ Acts(c, "post")
    /\ posts' = posts \union {[at |-> ask[c].at, id |-> ask[c].id, who |-> ask[c].who,
                               moved |-> ask[c].moved, newest |-> ask[c].at = Newest]}
    /\ Rejected(c)
    /\ UNCHANGED <<held, taught, trial, shared, handed, asked, added, collided>>

\* What only looks leaves all as it is.
Looks(c, of) ==
    /\ Acts(c, of)
    /\ Rejected(c)
    /\ UNCHANGED <<held, taught, trial, asked, added, collided>> /\ Elsewhere

ReadsChat(c) == Looks(c, "read")
ReadsNotes(c) == Looks(c, "notes")
ListsRecordings(c) == Looks(c, "list")
ShowsSnapshot(c) == Looks(c, "snapshot")
Summarizes(c) == Looks(c, "summary")

\* By a token of the session or of the call.
Enters(c) == Looks(c, "enter")

Annotates(c, rec) ==
    /\ held' = [held EXCEPT ![ask[c].at] = rec]
    /\ Rejected(c)
    /\ UNCHANGED <<taught, trial, asked, added, collided>> /\ Elsewhere

NoteWrites(c) ==
    Acts(c, "note") /\ Annotates(c, [held[ask[c].at] EXCEPT !.note = TRUE])

SnapshotWrites(c) ==
    Acts(c, "board") /\ Annotates(c, [held[ask[c].at] EXCEPT !.board = TRUE])

ShareWrites(c) ==
    /\ Acts(c, "share")
    /\ shared' = shared \union {[at |-> ask[c].at, who |-> ask[c].who]}
    /\ Rejected(c)
    /\ UNCHANGED <<held, taught, trial, posts, handed, asked, added, collided>>

\* The gate of the trial: tutors and admins pass it.
Locked(who) == trial /\ who \in {"student", "guest"}

\* The view is counted ...
StreamCounts(c) ==
    /\ Acts(c, "stream")
    /\ LET k == ask[c].at
       IN  IF held[k].recording # "kept" \/ Locked(ask[c].who)
           THEN Rejected(c) /\ UNCHANGED held
           ELSE /\ held' = [held EXCEPT ![k].views = @ + 1]
                /\ Turns(c, [ask[c] EXCEPT !.pc = "url"])
    /\ UNCHANGED <<taught, trial, asked, added, collided>> /\ Elsewhere

\* ... and the URL given out, or the storage fails.
StreamHands(c) ==
    /\ ask[c].pc = "url"
    /\ \/ handed' = [handed EXCEPT ![ask[c].at] = @ + 1]
       \/ UNCHANGED handed
    /\ Rejected(c)
    /\ UNCHANGED <<held, taught, trial, posts, shared, asked, added, collided>>

-----------------------------------------------------------------------------
(* What else happens to the booking *)

Changes(k, rec) ==
    /\ held' = [held EXCEPT ![k] = rec]
    /\ UNCHANGED <<taught, trial, ask, asked, added, collided>> /\ Elsewhere

\* POST /sessions/create, an assignment, a move.
SessionAdded ==
    /\ Newest < MaxSessions /\ added < MaxAdded
    /\ added' = added + 1
    /\ held' = Append(held, NewSession)
    /\ ask' = [c \in Askers |-> Grown(ask[c])]
    /\ UNCHANGED <<taught, trial, asked, collided>> /\ Elsewhere

SessionGoesOn(k) ==
    \/ ~ held[k].over /\ Changes(k, [held[k] EXCEPT !.over = TRUE])
    \/ ~ held[k].guest /\ Changes(k, [held[k] EXCEPT !.guest = TRUE])
    \/ held[k].recording = "none" /\ Changes(k, [held[k] EXCEPT !.recording = "kept"])
    \/ held[k].recording = "kept" /\ Changes(k, [held[k] EXCEPT !.recording = "expired"])

\* The booking gets a tutor, or another one.
Reassigned ==
    /\ taught' = ~ taught
    /\ UNCHANGED <<held, trial, ask, asked, added, collided>> /\ Elsewhere

Upgrades ==
    /\ trial /\ trial' = FALSE
    /\ UNCHANGED <<held, taught, ask, asked, added, collided>> /\ Elsewhere

-----------------------------------------------------------------------------

Asking(c) ==
    \/ \E of \in Operations, id \in Numbers, who \in People : Asks(c, of, id, who)
    \/ Resolves(c) \/ MakesSession(c) \/ ChecksSnapshot(c) \/ Checks(c)
    \/ PostWrites(c) \/ NoteWrites(c) \/ SnapshotWrites(c) \/ ShareWrites(c)
    \/ ReadsChat(c) \/ ReadsNotes(c) \/ ListsRecordings(c) \/ Enters(c)
    \/ ShowsSnapshot(c) \/ Summarizes(c)
    \/ StreamCounts(c) \/ StreamHands(c)

MaterialsNext ==
    \/ \E c \in Askers : Asking(c)
    \/ \E k \in DOMAIN held : SessionGoesOn(k)
    \/ SessionAdded \/ Reassigned \/ Upgrades

MaterialsSpec == MaterialsInit /\ [][MaterialsNext]_materialsVars

-----------------------------------------------------------------------------
(* Properties *)

\* A booking gets at most one session by being asked about, unless two requests
\* found none at one time: chat, notes and recordings are not scattered.
OneSessionByAsking == ~ collided => Newest <= added + 1

\* A message to the booking goes to the session that everybody reads the chat
\* of, unless a session was made while it was on its way; a guest's message is in
\* a session he is a guest of.
PostsAreRead ==
    \A p \in posts :
        /\ p.id = 0 /\ ~ p.moved => p.newest
        /\ p.who = "guest" /\ ~ p.moved => held[p.at].guest

\* A tutor's notes are on sessions that took place, and whoever got the URL of a
\* recording has been counted.
SharedAfterwards ==
    /\ \A n \in shared : n.who = "tutor" => held[n.at].over
    /\ \A k \in DOMAIN held : handed[k] <= held[k].views

\* What belongs to a session is found there.
MaterialsInPlace == OneSessionByAsking /\ PostsAreRead /\ SharedAfterwards

=============================================================================
