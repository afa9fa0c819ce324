------------------------ MODULE ExecutionController ------------------------
(***************************************************************************)
(* The execution pipeline (src/features/execution/executionController.ts,  *)
(* executionState.ts and validation.ts): one phase, runs of which at most  *)
(* one is waited for, a timeout for each, cancelling and interrupting.     *)
(*                                                                         *)
(* The provider may announce that a run has started, and answers it once,  *)
(* with any outcome, at any time or never, also after the controller gave  *)
(* it up.  A refused request only leaves its reason on the snapshot; what  *)
(* validation refuses beside the phase and the target (no script, an empty *)
(* selection, a malformed request) is a request that does not happen.      *)
(***************************************************************************)
EXTENDS Naturals, Sequences

CONSTANT MaxRuns \* bound on the executions one run of the program begins

VARIABLES
  phase,    \* snapshot.phase
  stopping, \* snapshot.cancelling
  active,   \* the run waited for, 0 for null
  runs      \* every run begun

executionVars == <<phase, stopping, active, runs>>

-----------------------------------------------------------------------------
Phases == {"idle", "preparing", "running", "success", "error", "cancelled"}

BusyPhases == {"preparing", "running"}
RunResults == {"success", "error", "cancelled"}

Run ==
  [settled: BOOLEAN, timer: BOOLEAN, cancelRequested: BOOLEAN, out: BOOLEAN]

NewRun == [settled |-> FALSE, timer |-> TRUE, cancelRequested |-> FALSE, out |-> TRUE]

ExecutionTypeOK ==
  /\ phase \in Phases
  /\ stopping \in BOOLEAN
  /\ runs \in Seq(Run) /\ Len(runs) <= MaxRuns
  /\ active \in 0 .. Len(runs)

ExecutionInit == phase = "idle" /\ stopping = FALSE /\ active = 0 /\ runs = <<>>

InFlight == active # 0 /\ ~runs[active].settled /\ phase \in BusyPhases

-----------------------------------------------------------------------------
\* What finish() and dispose() leave of a run: whether the provider still owes its answer.
Over(run) == [run EXCEPT !.settled = TRUE, !.timer = FALSE, !.cancelRequested = FALSE]

\* Variant: a finished run stays the one waited for.
FinishRunKeepingIt(n, run, outcome) ==
  /\ runs' = [runs EXCEPT ![n] = Over(run)]
  /\ UNCHANGED active
  /\ phase' = outcome
  /\ stopping' = FALSE

\* finish(); success from "preparing" passes through "running".
FinishRun(n, run, outcome) ==
  /\ runs' = [runs EXCEPT ![n] = Over(run)]
  /\ active' = IF active = n THEN 0 ELSE active
  /\ phase' = outcome
  /\ stopping' = FALSE

\* execute(), for a request that validation lets through.
Execute ==
  /\ phase \notin BusyPhases
  /\ Len(runs) < MaxRuns
  /\ runs' = Append(runs, NewRun)
  /\ active' = Len(runs) + 1
  /\ phase' = "preparing"
  /\ stopping' = FALSE

\* markRunning(): the provider says that run n has started.
MarkRunning(n) ==
  /\ n \in DOMAIN runs /\ runs[n].out
  /\ active = n /\ ~runs[n].settled /\ phase = "preparing"
  /\ phase' = "running"
  /\ UNCHANGED <<stopping, active, runs>>

\* settle(): the provider's answer, ignored when the run is over already.
RunAnswered(n, outcome) ==
  /\ n \in DOMAIN runs /\ runs[n].out
  /\ IF runs[n].settled
     THEN runs' = [runs EXCEPT ![n].out = FALSE] /\ UNCHANGED <<phase, stopping, active>>
     ELSE FinishRun(n, [runs[n] EXCEPT !.out = FALSE], outcome)

\* onTimeout(): the provider is asked to stop, and the run has failed.
RunTimesOut(n) ==
  /\ n \in DOMAIN runs /\ runs[n].timer /\ ~runs[n].settled
  /\ FinishRun(n, runs[n], "error")

\* cancel() of a provider that supports it: asks, and decides nothing.
CancelRun ==
  /\ InFlight /\ ~runs[active].cancelRequested
  /\ runs' = [runs EXCEPT ![active].cancelRequested = TRUE]
  /\ stopping' = TRUE
  /\ UNCHANGED <<phase, active>>

\* interrupt(): a run in flight fails now; nothing to interrupt otherwise.
Interrupt == IF InFlight THEN FinishRun(active, runs[active], "error") ELSE UNCHANGED executionVars

\* dispose(): the caller is told "cancelled", the phase stays.
DisposeExecution ==
  /\ active' = 0
  /\ runs' = IF active = 0 THEN runs ELSE [runs EXCEPT ![active] = Over(@)]
  /\ UNCHANGED <<phase, stopping>>

-----------------------------------------------------------------------------
ProviderRuns ==
  \E n \in DOMAIN runs : MarkRunning(n) \/ \E outcome \in RunResults : RunAnswered(n, outcome)

RunTimer == \E n \in DOMAIN runs : RunTimesOut(n)

\* A busy phase is backed by the run waited for, which its timer can end.
RunIsOwned ==
  /\ active # 0 => /\ phase \in BusyPhases
                   /\ ~runs[active].settled /\ runs[active].timer
  /\ \A n \in DOMAIN runs :
       n # active => runs[n].settled /\ ~runs[n].timer

=============================================================================
