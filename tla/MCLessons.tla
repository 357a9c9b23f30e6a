----------------------------- MODULE MCLessons ------------------------------
(* Sessions and Recordings for TLC, side by side: a behaviour plays one     *)
(* scene, in which one component runs and the other stays as it began.      *)
EXTENDS Sessions, Recordings

CONSTANTS c1, c2, t1, t2, file

VARIABLE scene

MCCallers == {c1, c2}
MCTransfers == {t1, t2}
MCUploads == {file}

Init ==
    /\ scene \in {"sessions", "recordings"}
    /\ SessionsInit /\ RecordingsInit
    \* The bounds are spent where the session is still to be made.
    /\ session[1] = "scheduled" => reverts = 0 /\ callFaults = 0 /\ week = 1
    /\ session[1] = "absent" => /\ reverts = MaxReverts /\ callFaults = MaxCallFaults
                               /\ week = LastWeek
    /\ scene # "sessions" => session[1] = "absent"
    /\ scene # "recordings" => provider = "daily"

SessionsStep == scene = "sessions" /\ SessionsNext /\ UNCHANGED recordingsVars
RecordingsStep == scene = "recordings" /\ RecordingsNext /\ UNCHANGED sessionsVars
Next == (SessionsStep \/ RecordingsStep) /\ UNCHANGED scene

Spec ==
    /\ Init
    /\ [][Next]_<<sessionsVars, recordingsVars, scene>>
    /\ SessionsFairness /\ RecordingsFairness

=============================================================================
