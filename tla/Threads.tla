------------------------------ MODULE Threads -------------------------------
(***************************************************************************)
(* The messages between students and their tutors (src/messages): whom a   *)
(* student may write to, the thread of a student and a tutor, what is      *)
(* unread, and the tutor's list of conversations.                          *)
(*                                                                         *)
(* A request reads who belongs to whom in several queries and then writes; *)
(* a page of a thread is fetched by one request and marked as read by      *)
(* another.                                                                *)
(*                                                                         *)
(* Left out: the text, the mail to the tutor, whose failure is swallowed,  *)
(* and the log.                                                            *)
(***************************************************************************)
EXTENDS Integers, Sequences, FiniteSets

CONSTANTS
    Pupils, Advisers,   \* students and tutors
    Nobody,             \* no tutor or student
    Senders,            \* requests to send at work at one time
    MaxLetters,         \* bound on messages
    MaxTies,            \* bound on changes of who belongs to whom
    MaxOpens            \* bound on pages fetched

ASSUME ThreadsAssumption ==
    /\ Nobody \notin Advisers /\ Pupils \cap Advisers = {}
    /\ MaxLetters \in Nat /\ MaxTies \in Nat /\ MaxOpens \in Nat

VARIABLES
    tie,        \* per student: trial_tutor_id, active enrollments, bookings
    letters,    \* tutor_messages, in the order of their dates
    sending,    \* the requests that send
    page,       \* what a user has fetched
    listed,     \* a tutor's list of conversations
    fetched,    \* history: the messages their receivers have fetched
    gap,        \* history: messages that came between a fetch and its mark
    ties, opens

threadsVars == <<tie, letters, sending, page, listed, fetched, gap, ties, opens>>

Users == Pupils \union Advisers

\* The booked tutors, the newest booking last.
Tie == [trial: Advisers \union {Nobody}, active: SUBSET Advisers, booked: Seq(Advisers)]
Booked(p) == {tie[p].booked[i] : i \in DOMAIN tie[p].booked}

\* Who asks, about which student; the tutor asked for; what has been found;
\* hers: the tutors that were hers at some time since.
Sending == [pc: {"idle", "active", "booked", "post"}, by: Users \union {Nobody},
            pupil: Pupils \union {Nobody}, asked: Advisers \union {Nobody}, found: SUBSET Advisers,
            hers: SUBSET Advisers]
IsIdle(s) == sending[s].pc = "idle"
NoPage == [open |-> FALSE, with |-> Nobody, upto |-> 0]
NoList == [pc |-> "none", by |-> Nobody, pupils |-> {}, waiting |-> {}, upto |-> 0,
           unread |-> {}]

ThreadsTypeOK ==
    /\ tie \in [Pupils -> Tie]
    /\ letters \in Seq([pupil: Pupils, tutor: Advisers, sender: Users, read: BOOLEAN])
    /\ sending \in [Senders -> Sending]
    /\ page \in [Users -> [open: BOOLEAN, with: Users \union {Nobody}, upto: 0..MaxLetters]]
    /\ listed \in [pc: {"none", "asked", "shown"}, by: Advisers \union {Nobody},
                   pupils: SUBSET Pupils, waiting: SUBSET (1..MaxLetters),
                   upto: 0..MaxLetters, unread: SUBSET (1..MaxLetters)]
    /\ fetched \subseteq 1..MaxLetters /\ gap \subseteq 1..MaxLetters
    /\ ties \in 0..MaxTies /\ opens \in 0..MaxOpens

NoSending == [pc |-> "idle", by |-> Nobody, pupil |-> Nobody,
              asked |-> Nobody, found |-> {}, hers |-> {}]

ThreadsInit ==
    /\ tie = [p \in Pupils |-> [trial |-> Nobody, active |-> {}, booked |-> <<>>]]
    /\ letters = <<>>
    /\ sending = [s \in Senders |-> NoSending]
    /\ page = [u \in Users |-> NoPage]
    /\ listed = NoList
    /\ fetched = {} /\ gap = {}
    /\ ties = 0 /\ opens = 0

-----------------------------------------------------------------------------
(* Admins, the trial, enrollments and bookings decide who belongs to whom. *)

MyTutors(t) == ({t.trial} \ {Nobody}) \union t.active
               \union {t.booked[i] : i \in DOMAIN t.booked}

TieChanges(p, t) ==
    /\ ties < MaxTies /\ ties' = ties + 1
    /\ tie' = [tie EXCEPT ![p] = t]
    /\ sending' = [s \in Senders |->
                      IF ~ IsIdle(s) /\ sending[s].pupil = p
                      THEN [sending[s] EXCEPT !.hers = @ \union MyTutors(t)]
                      ELSE sending[s]]
    /\ UNCHANGED <<letters, page, listed, fetched, gap, opens>>

\* An admin takes a booking away, whichever it is.
Without(b, i) == SubSeq(b, 1, i - 1) \o SubSeq(b, i + 1, Len(b))

TieMoves(p) ==
    \/ \E a \in Advisers \union {Nobody} : TieChanges(p, [tie[p] EXCEPT !.trial = a])
    \/ \E a \in Advisers : TieChanges(p, [tie[p] EXCEPT !.active =
                               IF a \in @ THEN @ \ {a} ELSE @ \union {a}])
    \/ \E a \in Advisers \ Booked(p) :
          TieChanges(p, [tie[p] EXCEPT !.booked = Append(@, a)])
    \/ \E i \in DOMAIN tie[p].booked :
          TieChanges(p, [tie[p] EXCEPT !.booked = Without(@, i)])

-----------------------------------------------------------------------------
(* sendStudentQuery and sendTutorReply *)

SendIs(s, rec) == sending' = [sending EXCEPT ![s] = rec]

\* A student names a tutor or leaves it to the server; a tutor names a student
\* and is himself the tutor to be found.
BeginsToSend(s, u, p, a) ==
    /\ IsIdle(s)
    /\ u # p => u \in Advisers /\ a = u
    /\ Len(letters) < MaxLetters
    /\ SendIs(s, [pc |-> "active", by |-> u, pupil |-> p, asked |-> a,
                 found |-> {tie[p].trial} \ {Nobody}, hers |-> MyTutors(tie[p])])
    /\ UNCHANGED <<tie, letters, page, listed, fetched, gap, ties, opens>>

\* Without a tutor named, one active enrollment and then the newest booking
\* stand in for a trial tutor.
LastOf(b) == IF b = <<>> THEN {} ELSE {b[Len(b)]}
Fallback(found, more) == IF found # {} THEN {found} ELSE more

ReadsActive(s) ==
    /\ sending[s].pc = "active"
    /\ LET q == sending[s]
           on == tie[q.pupil].active
       IN \E f \in IF q.asked # Nobody THEN {q.found \union on}
                   ELSE Fallback(q.found, IF on = {} THEN {{}} ELSE {{a} : a \in on}) :
            SendIs(s, [q EXCEPT !.pc = "booked", !.found = f])
    /\ UNCHANGED <<tie, letters, page, listed, fetched, gap, ties, opens>>

ReadsBooked(s) ==
    /\ sending[s].pc = "booked"
    /\ LET q == sending[s]
           with == tie[q.pupil].booked
       IN \E f \in IF q.asked # Nobody THEN {q.found \union Booked(q.pupil)}
                   ELSE Fallback(q.found, {LastOf(with)}) :
            SendIs(s, [q EXCEPT !.pc = "post", !.found = f])
    /\ UNCHANGED <<tie, letters, page, listed, fetched, gap, ties, opens>>

\* The tutor asked for, if he was found; else the one that was.
Receiver(q) == IF q.asked = Nobody THEN q.found ELSE {q.asked} \intersect q.found

\* The thread of a page: a student's with one tutor or with all, a tutor's with
\* one student or with all.
InThread(u, w, m) ==
    /\ u \in {m.pupil, m.tutor}
    /\ w # Nobody => w \in {m.pupil, m.tutor}

PostsMessage(s) ==
    /\ sending[s].pc = "post"
    /\ SendIs(s, NoSending)
    /\ IF Receiver(sending[s]) = {} \/ Len(letters) = MaxLetters
       THEN UNCHANGED <<letters, gap>>
       ELSE LET q == sending[s]
                m == [pupil |-> q.pupil, tutor |-> CHOOSE a \in Receiver(q) : TRUE,
                      sender |-> q.by, read |-> FALSE]
            IN /\ letters' = Append(letters, m)
               /\ gap' = IF \E u \in Users \ {q.by} : page[u].open
                                                      /\ InThread(u, page[u].with, m)
                         THEN gap \union {Len(letters) + 1} ELSE gap
    /\ UNCHANGED <<tie, page, listed, fetched, ties, opens>>

-----------------------------------------------------------------------------
(* getMessages, then markAsRead for what was opened *)

OpensThread(u, w) ==
    /\ ~ page[u].open
    /\ w # Nobody => (u \in Pupils) # (w \in Pupils)
    /\ opens < MaxOpens /\ opens' = opens + 1
    /\ page' = [page EXCEPT ![u] = [open |-> TRUE, with |-> w, upto |-> Len(letters)]]
    /\ fetched' = fetched \union {i \in DOMAIN letters : /\ letters[i].sender # u
                                                       /\ InThread(u, w, letters[i])}
    /\ UNCHANGED <<tie, letters, sending, listed, gap, ties>>

\* Mutant: every unread message of the user is marked, whatever was opened.
UnreadAnywhere(u, w) == {i \in DOMAIN letters : /\ InThread(u, Nobody, letters[i])
                                              /\ letters[i].sender # u
                                              /\ ~ letters[i].read}

UnreadIn(u, w) == {i \in DOMAIN letters : /\ InThread(u, w, letters[i])
                                        /\ letters[i].sender # u
                                        /\ ~ letters[i].read}

MarksAsRead(u) ==
    /\ page[u].open
    /\ letters' = [i \in DOMAIN letters |->
                    IF i \in UnreadIn(u, page[u].with)
                    THEN [letters[i] EXCEPT !.read = TRUE] ELSE letters[i]]
    /\ page' = [page EXCEPT ![u] = NoPage]
    /\ UNCHANGED <<tie, sending, listed, fetched, gap, ties, opens>>

\* A page that is fetched and never marked.
LeavesThread(u) ==
    /\ page[u].open
    /\ page' = [page EXCEPT ![u] = NoPage]
    /\ UNCHANGED <<tie, letters, sending, listed, fetched, gap, ties, opens>>

(* getConversations: the students first, then their messages *)

AsksConversations(a) ==
    /\ listed.pc # "asked"
    /\ opens < MaxOpens /\ opens' = opens + 1
    /\ \E i \in DOMAIN letters : letters[i].tutor = a
    /\ listed' = [NoList EXCEPT !.pc = "asked", !.by = a, !.upto = Len(letters),
                                !.pupils = {p \in Pupils : \E i \in DOMAIN letters :
                                              letters[i].tutor = a /\ letters[i].pupil = p},
                                !.waiting = UnreadIn(a, Nobody)]
    /\ UNCHANGED <<tie, letters, sending, page, fetched, gap, ties>>

ShowsConversations ==
    /\ listed.pc = "asked"
    /\ listed' = [listed EXCEPT !.pc = "shown",
                                !.unread = {i \in UnreadIn(listed.by, Nobody) :
                                               letters[i].pupil \in listed.pupils}]
    /\ UNCHANGED <<tie, letters, sending, page, fetched, gap, ties, opens>>

ThreadsNext ==
    \/ \E p \in Pupils : TieMoves(p)
    \/ \E s \in Senders, u \in Users, p \in Pupils, a \in Advisers \union {Nobody} :
           BeginsToSend(s, u, p, a)
    \/ \E s \in Senders : ReadsActive(s) \/ ReadsBooked(s) \/ PostsMessage(s)
    \/ \E u \in Users, w \in Users \union {Nobody} : OpensThread(u, w)
    \/ \E u \in Users : MarksAsRead(u) \/ LeavesThread(u)
    \/ \E a \in Advisers : AsksConversations(a)
    \/ ShowsConversations

ThreadsSpec == ThreadsInit /\ [][ThreadsNext]_threadsVars

-----------------------------------------------------------------------------

\* A message is on its way only between people who belonged together at some
\* time since it was sent off.
GoesToHers == \A s \in Senders :
    sending[s].pc = "post" => Receiver(sending[s]) \subseteq sending[s].hers

\* What is marked as read was fetched, or came between the fetch and the mark.
ReadWasFetched == \A i \in DOMAIN letters : letters[i].read => i \in fetched \union gap

\* The list counts what waited when it was asked for and waits still, and
\* nothing that had been read by then.
ListCounts == listed.pc = "shown" =>
    /\ \A i \in listed.waiting : ~ letters[i].read => i \in listed.unread
    /\ \A i \in listed.unread : i <= listed.upto => i \in listed.waiting

\* Messages reach a tutor or student of the sender's and stay unread until their
\* receiver has had them, whatever assignments, pages and marks overlap.
MessagesArrive == GoesToHers /\ ReadWasFetched /\ ListCounts

=============================================================================
