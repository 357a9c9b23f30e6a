----------------------------- MODULE Recordings -----------------------------
(***************************************************************************)
(* The recording of one session: the provider's webhook that starts its    *)
(* transfer to Azure (src/daily with retries, src/zoom without), the       *)
(* tutor's upload, the blobs and the rows of app.session_recordings, the   *)
(* alert about a recording that is missing, the removal of old ones.       *)
(*                                                                         *)
(* A transfer is a process: it downloads and uploads, writes the row, and  *)
(* then completes the session (Daily) or trashes the original (Zoom).      *)
(* Time passes in half hours, in which the alert runs once.                *)
(*                                                                         *)
(* Left out: who may watch it, links and their cache, formats and sizes.   *)
(***************************************************************************)
EXTENDS Integers, FiniteSets

CONSTANTS
    Transfers,      \* transfers at work at one time, or one after the other
    Uploads,        \* files the tutor may upload
    MaxAttempts,    \* attempts of a transfer from Daily (3 in the code)
    WindowOpens,    \* age at which a missing recording is reported (4)
    WindowCloses,   \* age at which it no longer is (8)
    MaxTroubles     \* bound on failed awaits, restarts and skipped runs

ASSUME RecordingsAssumption ==
    /\ MaxAttempts \in Nat \ {0} /\ MaxTroubles \in Nat
    /\ WindowOpens \in Nat /\ WindowCloses \in Nat /\ WindowOpens <= WindowCloses
    /\ Uploads \intersect (Transfers \X (1..MaxAttempts)) = {}

VARIABLES
    provider,   \* "daily" or "zoom"
    original,   \* what the provider has
    transfer,   \* the transfers
    blobs,      \* what is stored in Azure
    rows,       \* the blobs with a row in app.session_recordings
    finished,   \* the session is completed
    age,        \* half hours since its end_time
    alert,      \* the job's run of this half hour, the alert
    cleaning,   \* blobs that cleanupRecordings has listed
    restarted,  \* history: a restart has lost transfers
    troubles    \* failures so far

stored == <<blobs, rows>>
spent == <<restarted, troubles>>
recordingsVars == <<provider, original, transfer, stored, finished, age, alert,
                    cleaning, spent>>

\* Every attempt of a transfer has a blob of its own.
Blobs == Uploads \union (Transfers \X (1..MaxAttempts))
Running == {"copy", "row", "after"}
Transfer == [pc: {"new", "done", "lost"} \union Running, attempt: 1..MaxAttempts]
BlobOf(t) == <<t, transfer[t].attempt>>

LastAge == WindowCloses + 1
Months == LastAge + 1   \* the age of all that is old

\* missed: a run of the job failed; late: the session was completed when no run
\* was to come before the window closes.
Alert == [ran: BOOLEAN, sent: BOOLEAN, missed: BOOLEAN, late: BOOLEAN]

RecordingsTypeOK ==
    /\ provider \in {"daily", "zoom"}
    /\ original \in {"recording", "ready", "trashed", "purged"}
    /\ transfer \in [Transfers -> Transfer]
    /\ blobs \subseteq Blobs /\ rows \subseteq Blobs /\ cleaning \subseteq Blobs
    /\ finished \in BOOLEAN /\ restarted \in BOOLEAN
    /\ age \in 0..Months
    /\ alert \in Alert
    /\ troubles \in 0..MaxTroubles

RecordingsInit ==
    /\ provider \in {"daily", "zoom"}
    /\ original = "recording"
    /\ transfer = [t \in Transfers |-> [pc |-> "new", attempt |-> 1]]
    /\ blobs = {} /\ rows = {} /\ cleaning = {}
    /\ finished = FALSE
    /\ age = 0
    /\ alert = [ran |-> FALSE, sent |-> FALSE, missed |-> FALSE, late |-> FALSE]
    /\ restarted = FALSE
    /\ troubles = 0

Trouble == troubles < MaxTroubles /\ troubles' = troubles + 1

-----------------------------------------------------------------------------
(* The provider *)

RecordingReady ==
    /\ original = "recording"
    /\ original' = "ready"
    /\ UNCHANGED <<provider, transfer, stored, finished, age, alert, cleaning, spent>>

\* Daily purges its copy after retention.
Purges ==
    /\ provider = "daily" /\ original = "ready" /\ age = Months
    /\ original' = "purged"
    /\ UNCHANGED <<provider, transfer, stored, finished, age, alert, cleaning, spent>>

\* The webhook, which may be delivered again: a transfer starts.
Delivered(t) ==
    /\ original = "ready" /\ age < Months
    /\ transfer[t].pc = "new"
    /\ transfer' = [transfer EXCEPT ![t].pc = "copy"]
    /\ UNCHANGED <<provider, original, stored, finished, age, alert, cleaning, spent>>

-----------------------------------------------------------------------------
(* The transfer *)

\* uploadFromUrl
Copies(t) ==
    /\ transfer[t].pc = "copy"
    /\ original = "ready"
    /\ blobs' = blobs \union {BlobOf(t)}
    /\ transfer' = [transfer EXCEPT ![t].pc = "row"]
    /\ UNCHANGED <<provider, original, rows, finished, age, alert, cleaning, spent>>

\* Mutant: the original goes before the row is written.
TrashesFirst(t) ==
    /\ transfer[t].pc = "row"
    /\ original' = IF provider = "zoom" THEN "trashed" ELSE original
    /\ transfer' = [transfer EXCEPT ![t].pc = "after"]
    /\ UNCHANGED <<provider, stored, finished, age, alert, cleaning, spent>>

WritesRow(t) ==
    /\ transfer[t].pc = "row"
    /\ rows' = rows \union {BlobOf(t)}
    /\ transfer' = [transfer EXCEPT ![t].pc = "after"]
    /\ UNCHANGED <<provider, original, blobs, finished, age, alert, cleaning, spent>>

CompletedNow(now) ==
    /\ finished' = (finished \/ now)
    /\ alert' = [alert EXCEPT !.late = @ \/ (now /\ ~ finished /\ age >= WindowCloses)]

\* completeSession after Daily's, deleteRecording after Zoom's; both only log
\* when they fail.
Afterwards(t) ==
    /\ transfer[t].pc = "after"
    /\ \/ /\ CompletedNow(provider = "daily")
          /\ original' = IF provider = "zoom" THEN "trashed" ELSE original
          /\ UNCHANGED troubles
       \/ Trouble /\ UNCHANGED <<finished, alert, original>>
    /\ transfer' = [transfer EXCEPT ![t].pc = "done"]
    /\ UNCHANGED <<provider, stored, age, cleaning, restarted>>

\* Mutant: the first failure is the last.
GivesUp(t) == [transfer EXCEPT ![t].pc = "lost"]

\* Daily's transfer starts again, up to MaxAttempts times, Zoom's does not.
RetriesOrGivesUp(t) ==
    IF provider = "daily" /\ transfer[t].attempt < MaxAttempts
    THEN [transfer EXCEPT ![t] = [pc |-> "copy", attempt |-> @.attempt + 1]]
    ELSE [transfer EXCEPT ![t].pc = "lost"]

\* The download, the upload or the row fails, perhaps when the blob is stored.
AttemptFails(t) ==
    /\ transfer[t].pc \in {"copy", "row"}
    /\ Trouble
    /\ transfer' = RetriesOrGivesUp(t)
    /\ UNCHANGED <<provider, original, stored, finished, age, alert, cleaning, restarted>>

\* Another transfer has trashed the original.
FindsNothing(t) ==
    /\ transfer[t].pc = "copy" /\ original # "ready"
    /\ transfer' = RetriesOrGivesUp(t)
    /\ UNCHANGED <<provider, original, stored, finished, age, alert, cleaning, spent>>

\* "A backend restart mid-retry still loses the recording."
RestartLoses ==
    /\ Trouble
    /\ restarted' = TRUE
    /\ \E t \in Transfers : transfer[t].pc \in Running
    /\ transfer' = [t \in Transfers |->
                       IF transfer[t].pc \in Running
                       THEN [transfer[t] EXCEPT !.pc = "lost"] ELSE transfer[t]]
    /\ UNCHANGED <<provider, original, stored, finished, age, alert, cleaning>>

\* uploadRecording of the tutor: the blob and then the row.
Upload(b) ==
    /\ b \notin blobs
    /\ age < Months
    /\ blobs' = blobs \union {b}
    /\ rows' = rows \union {b}
    /\ UNCHANGED <<provider, original, transfer, finished, age, alert, cleaning, spent>>

-----------------------------------------------------------------------------
(* Time, the alert and the removal of old recordings *)

\* The session is ended by people, the webhook of the meeting or the sweep.
Finishes ==
    /\ ~ finished
    /\ CompletedNow(TRUE)
    /\ UNCHANGED <<provider, original, transfer, stored, age, cleaning, spent>>

\* Mutant: a session is looked at once, when it gets into the window.
InWindowOnce == age = WindowOpens

InWindow == WindowOpens <= age /\ age <= WindowCloses

\* alertOnMissingRecordings
AlertRuns ==
    /\ ~ alert.ran
    /\ alert' = [alert EXCEPT !.ran = TRUE,
                              !.sent = @ \/ (finished /\ InWindow /\ rows = {})]
    /\ UNCHANGED <<provider, original, transfer, stored, finished, age, cleaning, spent>>

\* The run, or the message to Slack, fails; the next run does not know.
AlertFails ==
    /\ ~ alert.ran
    /\ Trouble
    /\ alert' = [alert EXCEPT !.ran = TRUE, !.missed = TRUE]
    /\ UNCHANGED <<provider, original, transfer, stored, finished, age, cleaning, restarted>>

HalfHourPasses ==
    /\ age < LastAge
    /\ alert.ran
    /\ age' = age + 1
    /\ alert' = [alert EXCEPT !.ran = FALSE]
    /\ UNCHANGED <<provider, original, transfer, stored, finished, cleaning, spent>>

\* Transfers do not take a month.
MonthPassesBy ==
    /\ age = LastAge
    /\ \A t \in Transfers : transfer[t].pc \notin Running
    /\ age' = Months
    /\ UNCHANGED <<provider, original, transfer, stored, finished, alert, cleaning, spent>>

\* Azure's lifecycle policy takes the blobs, not the rows.
LifecyclePurges(b) ==
    /\ age = Months /\ b \in blobs
    /\ blobs' = blobs \ {b}
    /\ UNCHANGED <<provider, original, transfer, rows, finished, age, alert, cleaning, spent>>

\* cleanupRecordings lists the old blobs, deletes each, and then its rows.
CleanupLists ==
    /\ age = Months /\ cleaning = {} /\ blobs # {}
    /\ cleaning' = blobs
    /\ UNCHANGED <<provider, original, transfer, stored, finished, age, alert, spent>>

CleanupDeletes(b) ==
    /\ b \in cleaning /\ b \in blobs
    /\ blobs' = blobs \ {b}
    /\ UNCHANGED <<provider, original, transfer, rows, finished, age, alert, cleaning, spent>>

CleanupForgets(b) ==
    /\ b \in cleaning /\ b \notin blobs
    /\ rows' = rows \ {b}
    /\ cleaning' = cleaning \ {b}
    /\ UNCHANGED <<provider, original, transfer, blobs, finished, age, alert, spent>>

-----------------------------------------------------------------------------

TransferSteps(t) == Copies(t) \/ WritesRow(t) \/ Afterwards(t) \/ FindsNothing(t)

RecordingsNext ==
    \/ RecordingReady \/ Purges
    \/ \E t \in Transfers : Delivered(t) \/ TransferSteps(t) \/ AttemptFails(t)
    \/ RestartLoses
    \/ \E b \in Uploads : Upload(b)
    \/ \E b \in Blobs : LifecyclePurges(b) \/ CleanupDeletes(b) \/ CleanupForgets(b)
    \/ CleanupLists
    \/ Finishes
    \/ AlertRuns \/ AlertFails
    \/ HalfHourPasses \/ MonthPassesBy

\* A transfer that has begun goes on; nothing else has to happen.
RecordingsFairness == \A t \in Transfers : WF_recordingsVars(TransferSteps(t))

RecordingsSpec ==
    RecordingsInit /\ [][RecordingsNext]_recordingsVars /\ RecordingsFairness

-----------------------------------------------------------------------------
(* Properties *)

\* Zoom's original is not trashed before a row points to a copy of it, also
\* when its event comes twice and transfers overlap.
TrashedIsKept ==
    [][original # "trashed" /\ original' = "trashed"
       => \E t \in Transfers : BlobOf(t) \in rows \intersect blobs]_recordingsVars

\* A transfer from Daily gets its recording through unless every attempt of it
\* fails or the server restarts.
TransferArrives ==
    \A t \in Transfers :
        (provider = "daily" /\ transfer[t].pc = "copy")
        ~> BlobOf(t) \in rows \/ restarted \/ troubles >= MaxAttempts

\* A session that was completed in time and has no recording when the window
\* of the alert has passed has been reported, or a run of the job failed.
MissingIsReported ==
    age = LastAge /\ finished /\ ~ alert.late /\ rows = {}
    => alert.sent \/ alert.missed

=============================================================================
