------------------------------ MODULE Learning ------------------------------
(***************************************************************************)
(* What is noted during a lesson: its phases (src/session-phases and the   *)
(* gateway, which both write them) and the attention events                *)
(* (src/attention-events), each followed by an evaluation nobody waits     *)
(* for.  All of it is one row of sessions, and the evaluations share the   *)
(* column attention_meta.                                                  *)
(*                                                                         *)
(* Left out: durations as numbers (whether there is one is kept), the text *)
(* of alerts, summaries that are only read.                                *)
(***************************************************************************)
EXTENDS Integers, Sequences, FiniteSets

CONSTANTS
    Updates,        \* updates of the phase at work at one time
    Evaluations,    \* evaluations at work at one time
    MaxWrites,      \* bound on entries of the history
    MaxNotes,       \* bound on attention events
    MaxLosses       \* bound on evaluations that fail

ASSUME LearningAssumption ==
    MaxWrites \in Nat /\ MaxNotes \in Nat /\ MaxLosses \in Nat

VARIABLES
    flow,       \* current_phase, phase_history, pedagogy_status, is it over
    notes,      \* the attention events: how many of each kind
    attention,  \* attention_status; attention_meta: scores, pedagogyAlerts
    update,     \* the updates
    eval,       \* the evaluations
    writes,     \* history: entries written
    crossed,    \* history: an update read while another was to write
    mixed,      \* history: so did an evaluation, or one failed
    losses

learningVars == <<flow, notes, attention, update, eval, writes, crossed, mixed, losses>>

\* Of the six phases the three that decide whether a rule speaks; another one
\* only has its share in the durations.
Phases == {"WARM_CONNECT", "MICRO_TEACH", "REFLECT"}
Notes == {"CHECK_IN", "RESPONSE", "PRAISE"}
Counts == [Notes -> 0..MaxNotes]
Verdicts == {"HEALTHY", "LOW_PERSONALIZATION"}
Pedagogy == {"HEALTHY", "NEEDS_IMPROVEMENT", "PEDAGOGY_GAP"}

\* timestamp: the entry has one; advancePhase calls it startedAt.
Entry == [phase: Phases, timestamp: BOOLEAN]
History == UNION {[1..n -> Entry] : n \in 0..MaxWrites}
Meta == [scores: Counts, alerts: Pedagogy \union {"none"}]

LearningTypeOK ==
    /\ flow \in [phase: Phases, history: History, pedagogy: Pedagogy \union {"none"},
                 over: BOOLEAN]
    /\ notes \in Counts
    /\ attention \in [status: Verdicts \union {"none"}, meta: Meta]
    /\ update \in [Updates -> [pc: {"idle", "write", "again", "append"}, phase: Phases,
                               history: History, socket: BOOLEAN]]
    /\ eval \in [Evaluations -> [of: {"none", "attention", "phases"}, read: BOOLEAN,
                                 verdict: Verdicts \union Pedagogy, meta: Meta]]
    /\ writes \in 0..MaxWrites
    /\ crossed \in BOOLEAN /\ mixed \in BOOLEAN
    /\ losses \in 0..MaxLosses

NoScores == [n \in Notes |-> 0]
NoMeta == [scores |-> NoScores, alerts |-> "none"]
NoUpdate == [pc |-> "idle", phase |-> "WARM_CONNECT", history |-> <<>>, socket |-> FALSE]
NoEval == [of |-> "none", read |-> FALSE, verdict |-> "HEALTHY", meta |-> NoMeta]

LearningInit ==
    /\ flow = [phase |-> "WARM_CONNECT", history |-> <<>>, pedagogy |-> "none",
               over |-> FALSE]
    /\ notes = NoScores
    /\ attention = [status |-> "none", meta |-> NoMeta]
    /\ update = [u \in Updates |-> NoUpdate]
    /\ eval = [e \in Evaluations |-> NoEval]
    /\ writes = 0 /\ crossed = FALSE /\ mixed = FALSE /\ losses = 0

-----------------------------------------------------------------------------
(* advancePhase, and what the gateway does after it *)

Idle(e) == eval[e].of = "none"
Started(e, kind) == [eval EXCEPT ![e].of = kind]
Reading(u) == update[u].pc \in {"write", "append"}

\* Phases may go back: "move forward only" is only logged.  socket: asked over
\* the socket, where the gateway appends to the history once more.
AdvanceReads(u, phase, socket) ==
    /\ update[u].pc = "idle"
    /\ writes + 2 * Cardinality({v \in Updates : update[v].pc # "idle"}) + 2 <= MaxWrites
    /\ update' = [update EXCEPT ![u] = [pc |-> "write", phase |-> phase,
                                        history |-> flow.history, socket |-> socket]]
    /\ crossed' = (crossed \/ \E v \in Updates \ {u} : Reading(v))
    /\ UNCHANGED <<flow, notes, attention, eval, writes, mixed, losses>>

\* Mutant: the history begins anew.
OnlyLast(u, stamped) == <<[phase |-> update[u].phase, timestamp |-> stamped]>>

Longer(u, stamped) ==
    Append(update[u].history, [phase |-> update[u].phase, timestamp |-> stamped])

WritesPhase(u, stamped) ==
    /\ flow' = [flow EXCEPT !.phase = update[u].phase, !.history = Longer(u, stamped)]
    /\ writes' = writes + 1

AdvanceWrites(u, e) ==
    /\ update[u].pc = "write" /\ Idle(e)
    /\ WritesPhase(u, FALSE)
    /\ update' = [update EXCEPT ![u] = IF @.socket THEN [@ EXCEPT !.pc = "again"] ELSE NoUpdate]
    /\ eval' = Started(e, "phases")
    /\ UNCHANGED <<notes, attention, crossed, mixed, losses>>

GatewayReadsHistory(u) ==
    /\ update[u].pc = "again"
    /\ update' = [update EXCEPT ![u].pc = "append", ![u].history = flow.history]
    /\ crossed' = (crossed \/ \E v \in Updates \ {u} : Reading(v))
    /\ UNCHANGED <<flow, notes, attention, eval, writes, mixed, losses>>

GatewayAppends(u) ==
    /\ update[u].pc = "append"
    /\ WritesPhase(u, TRUE)
    /\ update' = [update EXCEPT ![u] = NoUpdate]
    /\ UNCHANGED <<notes, attention, eval, crossed, mixed, losses>>

LessonEnds ==
    /\ ~ flow.over
    /\ flow' = [flow EXCEPT !.over = TRUE]
    /\ UNCHANGED <<notes, attention, update, eval, writes, crossed, mixed, losses>>

-----------------------------------------------------------------------------
(* createEvent and the evaluations *)

\* Every event starts an evaluation of its own.
CreateEvent(n, e) ==
    /\ notes[n] < MaxNotes /\ Idle(e)
    /\ notes' = [notes EXCEPT ![n] = @ + 1]
    /\ eval' = Started(e, "attention")
    /\ UNCHANGED <<flow, attention, update, writes, crossed, mixed, losses>>

Wanting(c) == c["CHECK_IN"] = 0 \/ c["RESPONSE"] < 3 \/ c["PRAISE"] = 0
Verdict(c) == IF Wanting(c) THEN "LOW_PERSONALIZATION" ELSE "HEALTHY"

Has(phase) == \E i \in DOMAIN flow.history : flow.history[i].phase = phase

\* A stretch lasts from the timestamp of its entry to that of the next; without
\* one of the two the sum is NaN, and no comparison with it is true.
Timed(phase) ==
    \A i \in DOMAIN flow.history :
        flow.history[i].phase = phase =>
            /\ flow.history[i].timestamp
            /\ i < Len(flow.history) => flow.history[i + 1].timestamp

\* The rules on teaching speak only of a sum above 0; then the answer depends
\* on the durations.
Judgement ==
    LET unreflected == flow.over /\ ~ Has("REFLECT")
        before == IF Has("WARM_CONNECT") THEN "HEALTHY" ELSE "PEDAGOGY_GAP"
    IN  IF unreflected THEN {"PEDAGOGY_GAP"}
        ELSE IF Has("MICRO_TEACH") /\ Timed("MICRO_TEACH")
        THEN {before, "NEEDS_IMPROVEMENT", "PEDAGOGY_GAP"}
        ELSE {before}

Scored == [scores |-> notes, alerts |-> "none"]

\* The row is read with its events ...
EvaluationReads(e) ==
    /\ ~ Idle(e) /\ ~ eval[e].read
    /\ \/ /\ eval[e].of = "attention"
          /\ eval' = [eval EXCEPT ![e].read = TRUE, ![e].verdict = Verdict(notes),
                                  ![e].meta = Scored]
       \/ /\ eval[e].of = "phases"
          /\ \E v \in Judgement :
                eval' = [eval EXCEPT ![e].read = TRUE, ![e].verdict = v,
                                     ![e].meta = [attention.meta EXCEPT !.alerts = v]]
    /\ mixed' = (mixed \/ \E d \in Evaluations \ {e} : eval[d].read)
    /\ UNCHANGED <<flow, notes, attention, update, writes, crossed, losses>>

\* ... and the verdict written: attention replaces the meta, the balance of the
\* phases keeps what it had read of it.
EvaluationWrites(e) ==
    /\ eval[e].read
    /\ \/ /\ eval[e].of = "attention"
          /\ attention' = [status |-> eval[e].verdict, meta |-> eval[e].meta]
          /\ UNCHANGED flow
       \/ /\ eval[e].of = "phases"
          /\ attention' = [attention EXCEPT !.meta = eval[e].meta]
          /\ flow' = [flow EXCEPT !.pedagogy = eval[e].verdict]
    /\ eval' = [eval EXCEPT ![e] = NoEval]
    /\ UNCHANGED <<notes, update, writes, crossed, mixed, losses>>

\* The error is logged.
EvaluationFails(e) ==
    /\ ~ Idle(e) /\ losses < MaxLosses
    /\ losses' = losses + 1
    /\ mixed' = TRUE
    /\ eval' = [eval EXCEPT ![e] = NoEval]
    /\ UNCHANGED <<flow, notes, attention, update, writes, crossed>>

-----------------------------------------------------------------------------

Advancing(u) ==
    \/ \E phase \in Phases, socket \in BOOLEAN : AdvanceReads(u, phase, socket)
    \/ \E e \in Evaluations : AdvanceWrites(u, e)
    \/ GatewayReadsHistory(u) \/ GatewayAppends(u)

LearningNext ==
    \/ \E u \in Updates : Advancing(u)
    \/ \E e \in Evaluations :
          \/ \E n \in Notes : CreateEvent(n, e)
          \/ EvaluationReads(e) \/ EvaluationWrites(e) \/ EvaluationFails(e)
    \/ LessonEnds

LearningSpec == LearningInit /\ [][LearningNext]_learningVars

-----------------------------------------------------------------------------
(* Properties *)

Settled == \A e \in Evaluations : Idle(e)

\* Between evaluations the status is that of all events so far, and the scores
\* in the meta are theirs, unless two evaluations crossed or one failed: also
\* the evaluation of the phases writes the meta.
VerdictIsCurrent ==
    Settled /\ ~ mixed /\ attention.status # "none"
    => attention.status = Verdict(notes) /\ attention.meta.scores = notes

\* No phase is lost from the history unless two updates crossed; and as long as
\* none is, the rules about the time spent teaching never speak: the entries of
\* advancePhase have no timestamp.
PhasesAreKept ==
    ~ crossed => Len(flow.history) = writes /\ flow.pedagogy # "NEEDS_IMPROVEMENT"

\* What is noted during a lesson can be relied upon afterwards.
LessonIsRecorded == VerdictIsCurrent /\ PhasesAreKept

=============================================================================
