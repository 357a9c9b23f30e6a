----------------------------- MODULE MCPlatform -----------------------------
(* The components without a promise of progress for TLC, side by side: a    *)
(* behaviour plays one scene, in which one component runs and the others    *)
(* stay as they began.                                                      *)
EXTENDS Attendance, Classroom, GroupClasses, Accounts, Outreach, Reminders,
        Learning, Students, Materials, Blogs, Threads, Staff, Phones, Coursework

CONSTANTS s1, s2, k1, k2, d1, d2, r1, p1, p2, l1, l2, u1, u2, t1, t2

VARIABLE scene

MCSockets == {s1, s2}
MCMarks == {k1, k2}
MCClients == {d1, d2}
MCTutorClients == {d1}
MCRequests == {r1}
MCWorkers == {p1, p2}
MCLessons == {l1, l2}
MCPupils == {u1, u2}
MCAdvisers == {t1, t2}
MCSenders == {p1}
MCMentors == {t1}

vars == <<attendanceVars, classroomVars, groupClassesVars, accountsVars,
          outreachVars, remindersVars, learningVars, studentsVars,
          materialsVars, blogsVars, threadsVars, staffVars, phonesVars,
          courseworkVars, scene>>

\* The later components, which most scenes leave alone.
deskVars == <<blogsVars, threadsVars, staffVars, phonesVars, courseworkVars>>
lessonSideVars == <<attendanceVars, classroomVars, groupClassesVars, accountsVars,
                    outreachVars, remindersVars, learningVars, studentsVars,
                    materialsVars>>

Init ==
    /\ scene \in {"attendance", "classroom", "classes", "accounts", "outreach",
                  "reminders", "learning", "students", "materials", "blogs",
                  "threads", "staff", "phones", "coursework"}
    /\ AttendanceInit /\ ClassroomInit /\ GroupClassesInit /\ AccountsInit
    /\ OutreachInit /\ RemindersInit /\ LearningInit /\ StudentsInit
    /\ MaterialsInit /\ BlogsInit /\ ThreadsInit /\ StaffInit /\ PhonesInit
    /\ CourseworkInit
    /\ scene # "attendance" => ~ presence.exists
    /\ taught /\ trial

\* What the row holds after two marks have overlapped is not followed further;
\* a restart or an event of a provider, not both, and fewer joins beside it.
AttendanceStep ==
    /\ scene = "attendance"
    /\ ~ presence.overlap
    /\ AttendanceNext
    /\ restarts' + events' <= 1
    /\ joins' + restarts' + events' <= MaxJoins
    /\ ~ (mark[k1] = NoMark /\ mark[k2] = NoMark /\ mark'[k2] # NoMark)
    /\ UNCHANGED <<classroomVars, groupClassesVars, accountsVars, outreachVars,
                   remindersVars, learningVars, studentsVars, materialsVars, deskVars>>

\* A step that changes nothing is no step; a poll is held where little is drawn.
ClassroomStep ==
    /\ scene = "classroom"
    /\ ClassroomNext
    /\ classroomVars' # classroomVars
    /\ ~ (made'.poll > 0 /\ made'.board > 1)
    /\ UNCHANGED <<attendanceVars, groupClassesVars, accountsVars, outreachVars,
                   remindersVars, learningVars, studentsVars, materialsVars, deskVars>>

\* Requests for another time and moves are followed for one class at a time, and
\* the third task of an admin where nothing fails and there is one class; what two
\* admins have moved or answered at one time is not followed further.
OneClass == Cardinality({c \in Classes : class[c].status # "none"}) <= 1
Quiet == /\ \A r \in Requests : request[r].status = "none"
         /\ \A c \in Classes : Moving(c) = {}

ClassesStep ==
    /\ scene = "classes"
    /\ ~ OneClass => Quiet
    /\ GroupClassesNext
    /\ ~ (task'[MaxTasks] # NoTask /\ (mishaps' > 0 \/ ~ OneClass))
    /\ raced = {} /\ disputed = {}
    /\ UNCHANGED <<attendanceVars, classroomVars, accountsVars, outreachVars,
                   remindersVars, learningVars, studentsVars, materialsVars, deskVars>>

\* Once something unruly has happened the last visit is not followed.
AccountsStep ==
    /\ scene = "accounts"
    /\ AccountsNext
    /\ unruly' => req'[MaxVisits].pc = "new"
    /\ UNCHANGED <<attendanceVars, classroomVars, groupClassesVars, outreachVars,
                   remindersVars, learningVars, studentsVars, materialsVars, deskVars>>

\* Days pass, and the user completes her profile and books, between passes; a job
\* is done before a pass goes on; a refusal of the queue or a fault, not both, and
\* either where one pass is at work.
OutreachStep ==
    /\ scene = "outreach"
    /\ OutreachNext
    /\ refusals' + faults' <= 1
    /\ ~ (age' # age /\ ~ (jobs = {} /\ \A p \in Workers : pass[p] = NoPass))
    /\ ~ (jobs # {} /\ ~ (pass' = pass /\ user' = user))
    /\ ~ ((user'.complete # user.complete \/ user'.booked # user.booked)
          /\ ~ (jobs = {} /\ \A p \in Workers : pass[p] = NoPass))
    /\ ~ (pass[p1] = NoPass /\ pass[p2] = NoPass /\ pass'[p2] # NoPass)
    /\ ~ (faults' + refusals' > 0 /\ pass'[p2] # NoPass)
    /\ UNCHANGED <<attendanceVars, classroomVars, groupClassesVars, accountsVars,
                   remindersVars, learningVars, studentsVars, materialsVars, deskVars>>

\* The sessions are planned one after the other between passes, and then moved;
\* the second pass runs beside the first.  After a double nothing is followed,
\* and a move or a lapse is, not both.
RemindersStep ==
    /\ scene = "reminders"
    /\ RemindersNext
    /\ ~ twice
    /\ moves' + lapses' <= 1
    /\ ~ (job[p1] = NoJob /\ job[p2] = NoJob /\ job'[p2] # NoJob)
    /\ promised' # promised =>
         /\ moves = 0
         /\ moves' = 0 => /\ \A j \in Jobs : job[j] = NoJob
                          /\ promised'[l2] # NoHour => lesson[l1].status # "none"
    /\ UNCHANGED <<attendanceVars, classroomVars, groupClassesVars, accountsVars,
                   outreachVars, learningVars, studentsVars, materialsVars, deskVars>>

\* Two updates or evaluations that have crossed are not followed further, and no
\* two evaluations beside an update; events are noted early on; nothing fails beside two updates,
\* and once the lesson is over no phase follows events.
LearningStep ==
    /\ scene = "learning"
    /\ LearningNext
    /\ ~ crossed /\ ~ mixed
    /\ notes'["CHECK_IN"] <= 1 /\ notes'["PRAISE"] <= 1
    /\ ~ (notes' # notes /\ Len(flow.history) > 1)
    /\ ~ (update' # update /\ notes["RESPONSE"] + notes["PRAISE"] > 0)
    /\ ~ ((\E u \in Updates : update'[u] # NoUpdate) /\ eval'[p2] # NoEval)
    /\ ~ (losses' > 0 /\ update'[p2] # NoUpdate)
    /\ ~ (flow'.over /\ notes' # NoScores /\ flow # flow')
    /\ ~ (update[p1] = NoUpdate /\ update[p2] = NoUpdate /\ update'[p2] # NoUpdate)
    /\ ~ (eval[p1] = NoEval /\ eval[p2] = NoEval /\ eval'[p2] # NoEval)
    /\ UNCHANGED <<attendanceVars, classroomVars, groupClassesVars, accountsVars,
                   outreachVars, remindersVars, studentsVars, materialsVars, deskVars>>

\* The second request runs beside the first; practice and consent, which share
\* no column, are followed one or the other.
StudentsStep ==
    /\ scene = "students"
    /\ StudentsNext
    /\ ~ (call[p1] = NoCall /\ call[p2] = NoCall /\ call'[p2] # NoCall)
    /\ consents' + results' + edits' <= 3
    /\ ~ (consents' > 0 /\ results' > 0)
    /\ UNCHANGED <<attendanceVars, classroomVars, groupClassesVars, accountsVars,
                   outreachVars, remindersVars, learningVars, materialsVars, deskVars>>

\* One request; beside it a guest letters.  The booking is set up before them,
\* tutor and trial may change while it matters.
MaterialsStep ==
    /\ scene = "materials"
    /\ MaterialsNext
    /\ ~ collided
    /\ asked' = 1 => ask'[p2] = NoAsk
    /\ asked' > asked /\ asked = 1 =>
         /\ Len(held) <= 1
         /\ ask'[p1] = ask[p1] /\ ask[p1] # NoAsk
         /\ ask'[p2].of = "post" /\ ask'[p2].who = "guest"
    /\ ask' = ask /\ Len(held') = Len(held) /\ held' # held =>
         asked = 0 /\ Len(held) = 1
    /\ taught' # taught => ask[p1].who = "tutor"
    /\ trial' # trial => ask[p1].of = "stream"
    /\ UNCHANGED <<attendanceVars, classroomVars, groupClassesVars, accountsVars,
                   outreachVars, remindersVars, learningVars, studentsVars, deskVars>>

\* The second editor works beside the first; a list is read or a request breaks,
\* not both.
BlogsStep ==
    /\ scene = "blogs"
    /\ BlogsNext
    /\ lists' + breaks' <= 1
    /\ changes' = 1 => blog'.text = l1
    /\ ~ (draft[p1] = NoDraft /\ draft[p2] = NoDraft /\ draft'[p2] # NoDraft)
    /\ UNCHANGED <<lessonSideVars, threadsVars, staffVars, phonesVars, courseworkVars>>

\* First somebody belongs to somebody, then it is written, then it is read; where
\* two belong together with others, one thread is opened, and a list of
\* conversations is asked for.
ThreadsStep ==
    /\ scene = "threads"
    /\ ThreadsNext
    /\ ties = 0 => ties' = 1
    /\ ties' # ties => opens = 0 /\ Len(letters) = 0
    /\ ties' = 1 => MyTutors(tie'[u1]) = {t1}
    /\ opens' > opens => Len(letters) > 0 /\ sending[p1].pc \in {"idle", "post"}
    /\ ties' = 2 /\ ties = 1 /\ sending[p1] # NoSending =>
         tie'[sending[p1].pupil] # tie[sending[p1].pupil]
    /\ ~ (opens' = 2 /\ opens = 1 /\ ties = 2 /\ listed' = listed)
    /\ ~ (listed' # listed /\ Len(letters) < MaxLetters /\ sending[p1] = NoSending)
    /\ ~ (opens > 0 /\ sending' # sending /\ letters' = letters)
    /\ ~ (opens' > 0 /\ ties' = 2 /\ Len(letters') = 2)
    /\ Cardinality({u \in Users : page'[u].open}) <= 1
    /\ UNCHANGED <<lessonSideVars, blogsVars, staffVars, phonesVars, courseworkVars>>

StaffStep ==
    /\ scene = "staff"
    /\ StaffNext
    /\ UNCHANGED <<lessonSideVars, blogsVars, threadsVars, phonesVars, courseworkVars>>

PhonesStep ==
    /\ scene = "phones"
    /\ PhonesNext
    /\ UNCHANGED <<lessonSideVars, blogsVars, threadsVars, staffVars, courseworkVars>>

CourseworkStep ==
    /\ scene = "coursework"
    /\ CourseworkNext
    /\ UNCHANGED <<lessonSideVars, blogsVars, threadsVars, staffVars, phonesVars>>

Next ==
    /\ \/ AttendanceStep \/ ClassroomStep \/ ClassesStep
       \/ AccountsStep \/ OutreachStep \/ RemindersStep
       \/ LearningStep \/ StudentsStep \/ MaterialsStep
       \/ BlogsStep \/ ThreadsStep \/ StaffStep \/ PhonesStep \/ CourseworkStep
    /\ UNCHANGED scene

Spec == Init /\ [][Next]_vars

=============================================================================
