----------------------------- MODULE Coursework -----------------------------
(***************************************************************************)
(* What comes after a lesson: the rating of the tutor (src/ratings), by    *)
(* the student or, for the youngest, by the parent, and the submission of  *)
(* an assignment with its grade (src/assignments).                         *)
(*                                                                         *)
(* Every request looks, awaits, and then writes; a session has one rating  *)
(* by a unique index, a student's submission has no such index.            *)
(*                                                                         *)
(* Left out: the score and the comment, the texts, the links to the files. *)
(***************************************************************************)
EXTENDS Integers, Sequences, FiniteSets

CONSTANTS
    Errands,            \* requests at work at one time
    Mentors, NoMentor,  \* tutors of the session
    MaxFiles,           \* bound on files uploaded
    MaxErrands,         \* bound on requests to rate and to grade
    MaxTwists           \* bound on changes around the session

ASSUME CourseworkAssumption ==
    /\ NoMentor \notin Mentors
    /\ MaxFiles \in Nat /\ MaxErrands \in Nat /\ MaxTwists \in Nat

VARIABLES
    course,     \* the session: completed, who is assigned, was the student there,
                \* is she of the youngest
    rated,      \* its row in tutor_ratings
    offered,    \* what a user was shown as still to be rated
    submitted,  \* the submissions, each with its file and the file its score is for
    errand,     \* the requests
    uploads,    \* files uploaded
    doubled,    \* history: two submissions crossed
    errands, twists

courseworkVars == <<course, rated, offered, submitted, errand, uploads, doubled, errands, twists>>

Raters == {"student", "parent", "other"}
NoRating == [given |-> FALSE, by |-> "other", tutor |-> NoMentor]
NoErrand == [pc |-> "idle", by |-> "other", young |-> FALSE, tutor |-> NoMentor,
             file |-> 0, row |-> 0]

CourseworkTypeOK ==
    /\ course \in [completed: BOOLEAN, tutor: Mentors \union {NoMentor},
                   present: BOOLEAN, young: BOOLEAN]
    /\ rated \in [given: BOOLEAN, by: Raters, tutor: Mentors \union {NoMentor}]
    /\ offered \subseteq Raters
    /\ submitted \in Seq([file: 1..MaxFiles, scored: 0..MaxFiles])
    /\ errand \in [Errands -> [pc: {"idle", "rate", "look", "submit", "grade"}, by: Raters,
                               young: BOOLEAN, tutor: Mentors \union {NoMentor},
                               file: 0..MaxFiles, row: 0..MaxFiles]]
    /\ uploads \in 0..MaxFiles /\ doubled \in BOOLEAN
    /\ errands \in 0..MaxErrands /\ twists \in 0..MaxTwists

CourseworkInit ==
    /\ course = [completed |-> FALSE, tutor |-> NoMentor, present |-> FALSE, young |-> FALSE]
    /\ rated = NoRating
    /\ offered = {}
    /\ submitted = <<>>
    /\ errand = [e \in Errands |-> NoErrand]
    /\ uploads = 0 /\ doubled = FALSE
    /\ errands = 0 /\ twists = 0

-----------------------------------------------------------------------------

NoErrandYet(e) == errand[e].pc = "idle"
ErrandIs(e, rec) == errand' = [errand EXCEPT ![e] = rec]
Errand == errands < MaxErrands /\ errands' = errands + 1

\* Modules Sessions, Attendance, Bookings and Students.
TwistTo(h) ==
    /\ twists < MaxTwists /\ twists' = twists + 1
    /\ course' = h
    /\ offered' = {}
    /\ UNCHANGED <<rated, submitted, errand, uploads, doubled, errands>>

SessionTwists ==
    \/ TwistTo([course EXCEPT !.completed = ~ @])
    \/ \E m \in Mentors \union {NoMentor} : TwistTo([course EXCEPT !.tutor = m])
    \/ TwistTo([course EXCEPT !.present = TRUE])
    \/ TwistTo([course EXCEPT !.young = ~ @])

\* Up to grade 3 the parent rates, above it the student.
Entitled(young) == IF young THEN "parent" ELSE "student"

(* getPendingRatings *)
Offers(w) ==
    /\ Errand
    /\ offered' = IF /\ course.completed /\ course.present
                   /\ course.tutor # NoMentor /\ ~ rated.given
                   /\ w = Entitled(course.young)
                THEN offered \union {w} ELSE offered \ {w}
    /\ UNCHANGED <<course, rated, submitted, errand, uploads, doubled, twists>>

\* Mutant: a student rates whatever her grade.
StudentMayRate(w) ==
    /\ course.completed /\ ~ rated.given /\ course.tutor # NoMentor
    /\ w = "student"

\* What submitRating asks for.
MayRate(w) ==
    /\ course.completed /\ ~ rated.given /\ course.tutor # NoMentor
    /\ w = Entitled(course.young)

LooksToRate(e, w) ==
    /\ NoErrandYet(e)
    /\ Errand
    /\ MayRate(w)
    /\ ErrandIs(e, [NoErrand EXCEPT !.pc = "rate", !.by = w, !.young = course.young,
                                    !.tutor = course.tutor])
    /\ UNCHANGED <<course, rated, offered, submitted, uploads, doubled, twists>>

\* A second rating of the session is refused by the index.
Rates(e) ==
    /\ errand[e].pc = "rate"
    /\ rated' = IF rated.given THEN rated
                 ELSE [given |-> TRUE, by |-> errand[e].by, tutor |-> errand[e].tutor]
    /\ offered' = {}
    /\ ErrandIs(e, NoErrand)
    /\ UNCHANGED <<course, submitted, uploads, doubled, errands, twists>>

-----------------------------------------------------------------------------

(* submitAssignmentWithFile: the file first *)
Uploads(e) ==
    /\ NoErrandYet(e)
    /\ uploads < MaxFiles /\ uploads' = uploads + 1
    /\ ErrandIs(e, [NoErrand EXCEPT !.pc = "look", !.file = uploads + 1])
    /\ UNCHANGED <<course, rated, offered, submitted, doubled, errands, twists>>

\* One of the student's submissions, if there is any; none is number 0.
Earlier == IF submitted = <<>> THEN {0} ELSE DOMAIN submitted

LooksForSubmission(e) ==
    /\ errand[e].pc = "look"
    /\ \E r \in Earlier : ErrandIs(e, [errand[e] EXCEPT !.pc = "submit", !.row = r])
    /\ UNCHANGED <<course, rated, offered, submitted, uploads, doubled, errands, twists>>

\* The score and the feedback of an earlier file stay.
Submits(e) ==
    /\ errand[e].pc = "submit"
    /\ submitted' = IF errand[e].row = 0
               THEN Append(submitted, [file |-> errand[e].file, scored |-> 0])
               ELSE [submitted EXCEPT ![errand[e].row].file = errand[e].file]
    /\ doubled' = (doubled \/ \E f \in Errands \ {e} : errand[f].pc \in {"look", "submit"})
    /\ ErrandIs(e, NoErrand)
    /\ UNCHANGED <<course, rated, offered, uploads, errands, twists>>

(* gradeAssignment, by an admin or the tutor whose assignment it is *)
LooksToGrade(e, r) ==
    /\ NoErrandYet(e)
    /\ Errand
    /\ ErrandIs(e, [NoErrand EXCEPT !.pc = "grade", !.row = r, !.file = submitted[r].file])
    /\ UNCHANGED <<course, rated, offered, submitted, uploads, doubled, twists>>

Grades(e) ==
    /\ errand[e].pc = "grade"
    /\ submitted' = [submitted EXCEPT ![errand[e].row].scored = errand[e].file]
    /\ ErrandIs(e, NoErrand)
    /\ UNCHANGED <<course, rated, offered, uploads, doubled, errands, twists>>

CourseworkNext ==
    \/ SessionTwists
    \/ \E w \in Raters : Offers(w)
    \/ \E e \in Errands, w \in Raters : LooksToRate(e, w)
    \/ \E e \in Errands : Rates(e) \/ Uploads(e) \/ LooksForSubmission(e) \/ Submits(e)
                          \/ Grades(e)
    \/ \E e \in Errands, r \in DOMAIN submitted : LooksToGrade(e, r)

CourseworkSpec == CourseworkInit /\ [][CourseworkNext]_courseworkVars

-----------------------------------------------------------------------------

\* What is offered for rating would be taken.
OfferedIsTaken == \A w \in offered : MayRate(w)

\* A rating is about a tutor of the session, by one who was entitled.
RatingIsFair ==
    /\ rated.given => rated.tutor # NoMentor /\ rated.by # "other"
    /\ \A e \in Errands : errand[e].pc = "rate" =>
         errand[e].by = Entitled(errand[e].young)

\* One submission per student, which holds the newest file, scored as that file
\* or an earlier one.
OneSubmission == ~ doubled =>
    /\ Len(submitted) <= 1
    /\ \A i \in DOMAIN submitted : submitted[i].scored <= submitted[i].file
    /\ submitted # <<>> /\ (\A e \in Errands : errand[e].pc \notin {"look", "submit"})
         => submitted[1].file = uploads

\* What is offered for rating is taken, only the entitled rate, and a student has
\* one submission with the newest file, unless two submissions crossed.
CourseworkInOrder == OfferedIsTaken /\ RatingIsFair /\ OneSubmission

=============================================================================
