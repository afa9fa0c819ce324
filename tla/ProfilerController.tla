------------------------- MODULE ProfilerController -------------------------
(***************************************************************************)
(* The profiler (features/profiler/profilerController.ts) over the         *)
(* provider that ships, providers/MockProfilerProvider.ts.                 *)
(*                                                                         *)
(* A recording has two provider calls, its start and its stop, each with   *)
(* a timeout.  Recordings are named by their number.  As in the debugger,  *)
(* answers, timeouts, failures and the loss of the target come in any      *)
(* order.  What a recording measured is left out: aggregating samples is   *)
(* a function of them.                                                     *)
(***************************************************************************)
EXTENDS Naturals, Sequences

CONSTANTS
    HistoryLimit,      \* PROFILER_HISTORY_LIMIT
    MaxRecordings,     \* bound on the recordings of one launch
    MaxProfilerRuns    \* bound on its provider calls

ASSUME ProfilerBounds ==
    HistoryLimit \in Nat \ {0} /\ MaxRecordings \in Nat /\ MaxProfilerRuns \in Nat

VARIABLES
    prof,            \* the snapshot; session and history hold recordings
    recordings,      \* recordings begun
    recordingId,     \* 0 for null
    profRuns,        \* every provider call
    profOperation,   \* the run waited for, 0 for null
    profTarget,      \* targetPresent
    held,            \* the provider's recording, 0 for null
    finished         \* the recordings it can read again

profRunVars == <<profRuns, profOperation>>
profVars == <<prof, recordings, recordingId, profRunVars, profTarget, held, finished>>

-----------------------------------------------------------------------------
ProfMoves ==
  [ unavailable |-> {"ready"},
    ready       |-> {"recording", "error", "unavailable"},
    recording   |-> {"ready", "error", "unavailable"},
    error       |-> {"ready", "recording", "unavailable"} ]

ProfilerInit ==
    /\ prof = [state |-> "unavailable", session |-> 0, busy |-> FALSE, history |-> <<>>]
    /\ recordings = 0 /\ recordingId = 0
    /\ profRuns = <<>> /\ profOperation = 0
    /\ profTarget = FALSE
    /\ held = 0 /\ finished = {}

RestingState == IF profTarget THEN "ready" ELSE "unavailable"

-----------------------------------------------------------------------------
BeginProfRun(kind, id) ==
    /\ profRuns' = Append(profRuns, [ kind |-> kind, id |-> id, settled |-> FALSE, timer |-> TRUE,
                                      out |-> TRUE, aborted |-> FALSE ])
    /\ profOperation' = Len(profRuns) + 1

ForgetProfRun ==
    /\ profOperation' = 0
    /\ profRuns' = IF profOperation = 0 THEN profRuns
                   ELSE [profRuns EXCEPT ![profOperation].timer = FALSE,
                                         ![profOperation].aborted = TRUE]

(* finish.                                                                 *)
EndProfRun(n, aborted) ==
    /\ profRuns' = [profRuns EXCEPT ![n].settled = TRUE, ![n].timer = FALSE,
                                    ![n].aborted = @ \/ aborted, ![n].out = @ /\ aborted]
    /\ profOperation' = 0

(* fail and cancelled: no recording runs any more.                         *)
NoRecordingIn(state) ==
    /\ recordingId' = 0
    /\ prof' = [prof EXCEPT !.state = state, !.busy = FALSE]

(* start.                                                                  *)
RecordRefused == ~profTarget \/ prof.busy \/ prof.state \notin {"ready", "error"}
Record ==
    LET id == recordings + 1
    IN  /\ ~RecordRefused
        /\ recordings < MaxRecordings /\ Len(profRuns) < MaxProfilerRuns
        /\ recordings' = id /\ recordingId' = id
        /\ prof' = [prof EXCEPT !.state = "recording", !.busy = TRUE, !.session = 0]
        /\ BeginProfRun("start", id)
        /\ held' = id
        /\ UNCHANGED <<profTarget, finished>>

(* stop.                                                                   *)
StopRefused == recordingId = 0 \/ prof.state # "recording" \/ prof.busy
StopRecording ==
    /\ ~StopRefused /\ Len(profRuns) < MaxProfilerRuns
    /\ prof' = [prof EXCEPT !.busy = TRUE]
    /\ BeginProfRun("stop", recordingId)
    /\ UNCHANGED <<recordings, recordingId, profTarget, held, finished>>

(* What the mock answers a call it was not told to cancel, and does.       *)
MockAnswer(run) == IF held # run.id THEN "failed"
                   ELSE IF run.kind = "start" THEN "started" ELSE "stopped"
MockForgets(run) == IF MockAnswer(run) = "stopped" THEN 0 ELSE held

\* Variant: the answer is applied before it is asked whether it is live.
Live(n) == ~profRuns[n].settled
(* isLive: asked before an answer changes anything.                        *)
IsLive(n) == profOperation = n /\ ~profRuns[n].settled

FinishRecording(id) ==
    /\ recordingId' = 0
    /\ prof' = [prof EXCEPT !.state = RestingState, !.busy = FALSE, !.session = id,
                            !.history = SubSeq(<<id>> \o prof.history, 1,
                                IF Len(prof.history) < HistoryLimit
                                THEN Len(prof.history) + 1 ELSE HistoryLimit)]

ApplyProfAnswer(n, answer) ==
    IF ~IsLive(n)
    THEN /\ profRuns' = [profRuns EXCEPT ![n].out = FALSE, ![n].settled = TRUE]
         /\ UNCHANGED <<prof, recordingId, profOperation>>
    ELSE /\ EndProfRun(n, FALSE)
         /\ \/ /\ answer \in {"failed", "cancelled"}
               /\ NoRecordingIn(IF answer = "failed" THEN "error" ELSE RestingState)
            \/ answer = "started" /\ prof' = [prof EXCEPT !.busy = FALSE] /\ UNCHANGED recordingId
            \/ answer = "stopped" /\ FinishRecording(profRuns[n].id)

(* The provider answers run n; an aborted one it answers "cancelled".      *)
ProfAnswered(n) ==
    LET run == profRuns[n]
    IN  /\ run.out
        /\ IF run.aborted
           THEN ApplyProfAnswer(n, "cancelled") /\ UNCHANGED <<held, finished>>
           ELSE /\ ApplyProfAnswer(n, MockAnswer(run))
                /\ held' = MockForgets(run)
                /\ finished' = IF MockAnswer(run) = "stopped" THEN finished \cup {run.id}
                               ELSE finished
        /\ UNCHANGED <<recordings, profTarget>>

(* A provider may fail a call.                                             *)
ProfRefused(n) ==
    /\ profRuns[n].out
    /\ ApplyProfAnswer(n, "failed")
    /\ UNCHANGED <<recordings, profTarget, held, finished>>

ProfTimesOut(n) ==
    /\ profRuns[n].timer
    /\ profRuns' = [profRuns EXCEPT ![n].timer = FALSE, ![n].settled = TRUE, ![n].aborted = TRUE]
    /\ profOperation' = IF profOperation = n THEN 0 ELSE profOperation
    /\ NoRecordingIn("error")
    /\ UNCHANGED <<recordings, profTarget, held, finished>>

(* setTargetPresent: the recording is over; the provider is not told.      *)
ProfTargetFound ==
    /\ ~profTarget /\ profTarget' = TRUE
    /\ prof' = [prof EXCEPT !.state = IF prof.state = "unavailable" THEN "ready" ELSE prof.state]
    /\ UNCHANGED <<recordings, recordingId, profRunVars, held, finished>>
\* Variant: the call in flight is left to be answered.
ProfTargetLostQuietly ==
    /\ profTarget /\ profTarget' = FALSE
    /\ prof' = [prof EXCEPT !.state = "unavailable", !.busy = FALSE]
    /\ recordingId' = 0
    /\ UNCHANGED <<recordings, profRunVars, held, finished>>
ProfTargetLost ==
    /\ profTarget /\ profTarget' = FALSE
    /\ prof' = [prof EXCEPT !.state = "unavailable", !.busy = FALSE]
    /\ recordingId' = IF prof.state = "recording" THEN 0 ELSE recordingId
    /\ ForgetProfRun
    /\ UNCHANGED <<recordings, held, finished>>

\* Variant: a running recording is cleared with the rest.
ClearAnytime ==
    /\ held' = 0 /\ finished' = {}
    /\ prof' = [prof EXCEPT !.session = 0, !.history = <<>>]
    /\ UNCHANGED <<recordings, recordingId, profRunVars, profTarget>>
(* clear: refused while a recording runs.                                  *)
ClearProfiler ==
    /\ prof.state # "recording"
    /\ held' = 0 /\ finished' = {}
    /\ prof' = [state |-> RestingState, session |-> 0, busy |-> FALSE, history |-> <<>>]
    /\ UNCHANGED <<recordings, recordingId, profRunVars, profTarget>>

ProfilerUser == Record \/ StopRecording \/ ClearProfiler
ProfilerProvider == \E n \in DOMAIN profRuns : ProfAnswered(n) \/ ProfRefused(n) \/ ProfTimesOut(n)

-----------------------------------------------------------------------------
(* A call that is waited for is the newest, has its timer, and belongs to  *)
(* the recording that runs; no other call has a timer left.                *)
ProfRunIsOwned ==
    /\ prof.busy = (profOperation # 0)
    /\ profOperation # 0 =>
          /\ profOperation = Len(profRuns) /\ profRuns[profOperation].id = recordingId
          /\ profRuns[profOperation].timer /\ ~profRuns[profOperation].settled
    /\ \A n \in DOMAIN profRuns : profRuns[n].timer => n = profOperation

(* A recording that runs is the one the provider holds, so that it can be  *)
(* stopped; what is shown and listed can be read from it again, newest     *)
(* first and each once.                                                    *)
RecordingIsHeld ==
    /\ recordingId # 0 => prof.state = "recording" /\ held = recordingId
    /\ \A i \in DOMAIN prof.history :
          /\ prof.history[i] \in finished
          /\ \A j \in 1 .. i - 1 : prof.history[j] > prof.history[i]
    /\ prof.session # 0 => prof.history # <<>> /\ prof.session = Head(prof.history)
=============================================================================
