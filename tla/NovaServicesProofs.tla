------------------------- MODULE NovaServicesProofs -------------------------
(***************************************************************************)
(* Proofs about NovaServices, for any number of operations, injections,    *)
(* detection passes and executions.                                        *)
(***************************************************************************)
EXTENDS NovaServices, BackendControllerProofs

USE CallersAssumption

-----------------------------------------------------------------------------
(* What the services do to the backend controller are steps of its own     *)
(* specification, so what is proved of it under any backend holds of it    *)
(* over the mock.                                                          *)

LEMMA TheCallers == launcher \in Clients /\ panel \in Clients /\ closer \in Clients
OBVIOUS

LEMMA ClicksAreRequests ==
  ASSUME Click
  PROVE  \E c \in Clients : Start(c) \/ Startup(c) \/ Stop(c) \/ Restart(c)
BY TheCallers DEF Click

LEMMA AnswersAreTheBackends ==
  ASSUME NEW n \in Begun, AnswerHeard(n)
  PROVE  BackendAnswers(n)
BY DEF AnswerHeard, BackendAnswers

LEMMA BackendMoves ==
  ASSUME NovaNext
  PROVE  Next \/ UNCHANGED vars
<1>1. ASSUME NEW n \in Begun, CallBackend(n) \/ AnswerHeard(n) \/ Continues(n) PROVE Next
  <2>1. CASE CallBackend(n)
    BY <2>1 DEF CallBackend, Next, Progress
  <2>2. CASE AnswerHeard(n)
    BY <2>2, AnswersAreTheBackends DEF Next
  <2>3. CASE Continues(n)
    BY <2>3 DEF Continues, Next, Progress
  <2> QED BY <1>1, <2>1, <2>2, <2>3
<1>2. ASSUME NEW c \in {launcher, panel}, CallerGoesOn(c) PROVE Next
  <2>1. c \in Clients /\ Resume(c)
    BY <1>2, TheCallers DEF CallerGoesOn, Resume
  <2> QED BY <2>1 DEF Next
<1>3. ASSUME BackendStopAsked PROVE Next
  BY <1>3, TheCallers DEF BackendStopAsked, Next, Request
<1>4. ASSUME BackendDisposed PROVE Next
  BY <1>4, TheCallers DEF BackendDisposed, Next, Resume
<1>5. ASSUME NEW n \in Begun, OperationTimesOut(n) PROVE Next
  BY <1>5 DEF OperationTimesOut, Next, Progress
<1>6. ASSUME Click PROVE Next
  BY <1>6, ClicksAreRequests DEF Next, Request
<1>7. ASSUME \/ \E n \in Begun : MockStarts(n)
             \/ \E n \in DOMAIN attempts : InjectHeard(n) \/ InjectTimerFires(n)
             \/ \E outcome \in Target!Outcomes : InjectEnds(outcome)
             \/ \E next \in BOOLEAN : Switch(next)
             \/ DisconnectHeard \/ TargetReleased \/ Closed
             \/ TargetAsks \/ CancelClicked \/ DisconnectClicked
             \/ ShutdownBegins \/ Executes
      PROVE  backendVars' = backendVars
  BY <1>7 DEF MockStarts, InjectHeard, InjectTimerFires, InjectEnds, Switch, DisconnectHeard,
              TargetReleased, Closed, TargetAsks, CancelClicked, DisconnectClicked,
              ShutdownBegins, Executes, TargetFrame
<1> QED
  BY <1>1, <1>2, <1>3, <1>4, <1>5, <1>6, <1>7
     DEF NovaNext, Microtasks, Timers, Clicks, backendVars

LEMMA NovaStartsTheBackend == NovaInit => LifecycleInv
BY InitInv DEF NovaInit

LEMMA NovaKeepsTheBackend == LifecycleInv /\ [NovaNext]_novaVars => LifecycleInv'
<1> SUFFICES ASSUME LifecycleInv, [NovaNext]_novaVars PROVE LifecycleInv'
  OBVIOUS
<1>1. [Next]_vars
  BY BackendMoves DEF novaVars, backendVars
<1> QED BY <1>1, StepInv

(* The controller over the mock: everything proved of it under any backend *)
(* holds of what services.tsx composes.                                    *)
LEMMA BackendInNova == NovaSpec => []LifecycleInv
BY NovaStartsTheBackend, NovaKeepsTheBackend, PTL DEF NovaSpec

-----------------------------------------------------------------------------
(* Executions.                                                             *)

ExecutionsTyped ==
    /\ runs \in Seq(Execution!Run)
    /\ active \in 0 .. Len(runs)
    /\ phase \in Execution!Phases
    /\ watching \in BOOLEAN

ExecInv == ExecutionsTyped /\ RunIsOwned /\ ExecutionNeedsTarget

LEMMA RunFields ==
  ASSUME NEW run \in Execution!Run
  PROVE  /\ Execution!Over(run) \in Execution!Run
         /\ Execution!Over(run).settled /\ ~Execution!Over(run).timer
         /\ [run EXCEPT !.out = FALSE] \in Execution!Run
         /\ [run EXCEPT !.cancelRequested = TRUE] \in Execution!Run
         /\ [run EXCEPT !.cancelRequested = TRUE].settled = run.settled
         /\ [run EXCEPT !.cancelRequested = TRUE].timer = run.timer
         /\ [run EXCEPT !.out = FALSE].settled = run.settled
         /\ [run EXCEPT !.out = FALSE].timer = run.timer
BY DEF Execution!Run, Execution!Over

LEMMA OneRunChanges ==
  ASSUME ExecutionsTyped, NEW n \in DOMAIN runs, NEW run \in Execution!Run,
         runs' = [runs EXCEPT ![n] = run]
  PROVE  /\ runs' \in Seq(Execution!Run)
         /\ Len(runs') = Len(runs) /\ DOMAIN runs' = DOMAIN runs
         /\ runs'[n] = run
         /\ \A m \in DOMAIN runs : m # n => runs'[m] = runs[m]
BY DEF ExecutionsTyped

(* A run that finishes leaves nothing to wait for when it was the one      *)
(* waited for; only that one may be unsettled.                             *)
LEMMA FinishedRun ==
  ASSUME ExecInv, NEW n \in DOMAIN runs, NEW run \in Execution!Run, ~runs[n].settled,
         NEW outcome \in Execution!RunResults, Execution!FinishRun(n, run, outcome),
         watching' = watching
  PROVE  ExecutionsTyped' /\ RunIsOwned' /\ active' = 0
<1>1. n = active
  BY DEF ExecInv, RunIsOwned, Execution!RunIsOwned
<1>2. active' = 0 /\ phase' = outcome
  BY <1>1 DEF Execution!FinishRun
<1>3. /\ runs' \in Seq(Execution!Run) /\ DOMAIN runs' = DOMAIN runs
      /\ runs'[n].settled /\ ~runs'[n].timer
      /\ \A m \in DOMAIN runs : m # n => runs'[m] = runs[m]
  BY OneRunChanges, RunFields DEF ExecInv, Execution!FinishRun
<1>4. outcome \in Execution!Phases /\ outcome \notin Execution!BusyPhases
  BY DEF Execution!Phases, Execution!BusyPhases, Execution!RunResults
<1>5. ExecutionsTyped'
  BY <1>2, <1>3, <1>4 DEF ExecInv, ExecutionsTyped
<1>6. RunIsOwned'
  BY <1>1, <1>2, <1>3, <1>4 DEF ExecInv, RunIsOwned, Execution!RunIsOwned
<1> QED BY <1>2, <1>5, <1>6

LEMMA Interrupted ==
  ASSUME ExecInv, Execution!Interrupt, watching' = watching
  PROVE  ExecutionsTyped' /\ RunIsOwned' /\ active' = 0
<1>1. CASE Execution!InFlight
  <2>1. active \in DOMAIN runs /\ ~runs[active].settled
    BY <1>1 DEF Execution!InFlight, ExecInv, ExecutionsTyped
  <2>2. runs[active] \in Execution!Run
    BY <2>1 DEF ExecInv, ExecutionsTyped
  <2>3. Execution!FinishRun(active, runs[active], "error")
    BY <1>1 DEF Execution!Interrupt
  <2> QED BY <2>1, <2>2, <2>3, FinishedRun DEF Execution!RunResults
<1>2. CASE ~Execution!InFlight
  <2>1. active = 0
    BY <1>2 DEF Execution!InFlight, ExecInv, RunIsOwned, Execution!RunIsOwned
  <2>2. UNCHANGED <<phase, stopping, active, runs>>
    BY <1>2 DEF Execution!Interrupt, Execution!executionVars
  <2> QED BY <2>1, <2>2 DEF ExecInv, ExecutionsTyped, RunIsOwned, Execution!RunIsOwned
<1> QED BY <1>1, <1>2

(* A step whose listeners run: losing the target interrupts what runs.     *)
LEMMA ListenersKeepRuns ==
  ASSUME ExecInv, TargetLoss, watching' = watching
  PROVE  ExecInv'
<1>1. CASE watching' /\ status = "injected" /\ status' # "injected"
  <2>1. ExecutionsTyped' /\ RunIsOwned' /\ active' = 0
    BY <1>1, Interrupted DEF TargetLoss
  <2> QED BY <2>1 DEF ExecInv, ExecutionNeedsTarget
<1>2. CASE ~(watching' /\ status = "injected" /\ status' # "injected")
  <2>1. UNCHANGED <<phase, stopping, active, runs>>
    BY <1>2 DEF TargetLoss, executionVars
  <2>2. ExecutionsTyped' /\ RunIsOwned'
    BY <2>1 DEF ExecInv, ExecutionsTyped, RunIsOwned, Execution!RunIsOwned
  <2>3. ExecutionNeedsTarget'
    BY <1>2, <2>1 DEF ExecInv, ExecutionNeedsTarget
  <2> QED BY <2>2, <2>3 DEF ExecInv
<1> QED BY <1>1, <1>2

LEMMA RunsUntouched ==
  ASSUME ExecInv, UNCHANGED <<executionVars, status, watching>>
  PROVE  ExecInv'
BY DEF ExecInv, ExecutionsTyped, RunIsOwned, Execution!RunIsOwned, ExecutionNeedsTarget, executionVars

LEMMA SubmitKeepsRuns ==
  ASSUME ExecInv, Submit, UNCHANGED <<status, watching>>
  PROVE  ExecInv'
<1>1. CASE ~Accepts
  BY <1>1, RunsUntouched DEF Submit
<1>2. CASE Accepts
  <2> DEFINE new == Execution!NewRun
  <2>1. /\ phase \notin Execution!BusyPhases /\ status = "injected"
        /\ runs' = Append(runs, new) /\ active' = Len(runs) + 1 /\ phase' = "preparing"
    BY <1>2 DEF Submit, Accepts, Execution!Execute
  <2>2. new \in Execution!Run /\ ~new.settled /\ new.timer
    BY DEF Execution!NewRun, Execution!Run
  <2> HIDE DEF new
  <2>3. /\ runs' \in Seq(Execution!Run) /\ Len(runs') = Len(runs) + 1
        /\ runs'[Len(runs) + 1] = new
        /\ \A m \in DOMAIN runs : runs'[m] = runs[m]
        /\ DOMAIN runs' = DOMAIN runs \cup {Len(runs) + 1}
    BY <2>1, <2>2 DEF ExecInv, ExecutionsTyped
  <2>4. active = 0
    BY <2>1 DEF ExecInv, RunIsOwned, Execution!RunIsOwned
  <2>5. \A m \in DOMAIN runs : runs[m].settled /\ ~runs[m].timer
    BY <2>4 DEF ExecInv, ExecutionsTyped, RunIsOwned, Execution!RunIsOwned
  <2>6. ExecutionsTyped'
    BY <2>1, <2>3 DEF ExecInv, ExecutionsTyped, Execution!Phases
  <2>7. RunIsOwned'
    BY <2>1, <2>2, <2>3, <2>5 DEF RunIsOwned, Execution!RunIsOwned, Execution!BusyPhases
  <2>8. ExecutionNeedsTarget'
    BY <2>1 DEF ExecutionNeedsTarget
  <2> QED BY <2>6, <2>7, <2>8 DEF ExecInv
<1> QED BY <1>1, <1>2

LEMMA CancelKeepsRuns ==
  ASSUME ExecInv, Execution!CancelRun, UNCHANGED <<status, watching>>
  PROVE  ExecInv'
<1>1. active \in DOMAIN runs /\ runs[active] \in Execution!Run
  BY DEF Execution!CancelRun, Execution!InFlight, ExecInv, ExecutionsTyped
<1> DEFINE run == [runs[active] EXCEPT !.cancelRequested = TRUE]
<1>2. runs' = [runs EXCEPT ![active] = run] /\ active' = active /\ phase' = phase
  BY DEF Execution!CancelRun
<1>3. run \in Execution!Run /\ run.settled = runs[active].settled /\ run.timer = runs[active].timer
  BY <1>1, RunFields
<1> HIDE DEF run
<1>4. /\ runs' \in Seq(Execution!Run) /\ Len(runs') = Len(runs) /\ DOMAIN runs' = DOMAIN runs
      /\ runs'[active] = run
      /\ \A m \in DOMAIN runs : m # active => runs'[m] = runs[m]
  BY <1>1, <1>2, <1>3, OneRunChanges DEF ExecInv
<1>5. ExecutionsTyped'
  BY <1>2, <1>4 DEF ExecInv, ExecutionsTyped
<1>6. RunIsOwned'
  BY <1>2, <1>3, <1>4 DEF ExecInv, RunIsOwned, Execution!RunIsOwned
<1> QED BY <1>2, <1>5, <1>6 DEF ExecInv, ExecutionNeedsTarget

LEMMA ProviderKeepsRuns ==
  ASSUME ExecInv, Execution!ProviderRuns, UNCHANGED <<status, watching>>
  PROVE  ExecInv'
<1>1. PICK n \in DOMAIN runs :
         Execution!MarkRunning(n) \/ \E outcome \in Execution!RunResults : Execution!RunAnswered(n, outcome)
  BY DEF Execution!ProviderRuns
<1>2. runs[n] \in Execution!Run
  BY DEF ExecInv, ExecutionsTyped
<1>3. CASE Execution!MarkRunning(n)
  <2>1. phase = "preparing" /\ phase' = "running" /\ UNCHANGED <<active, runs>>
    BY <1>3 DEF Execution!MarkRunning
  <2> QED BY <2>1 DEF ExecInv, ExecutionsTyped, RunIsOwned, Execution!RunIsOwned, ExecutionNeedsTarget,
                      Execution!BusyPhases, Execution!Phases
<1>4. ASSUME NEW outcome \in Execution!RunResults, Execution!RunAnswered(n, outcome)
      PROVE  ExecInv'
  <2> DEFINE run == [runs[n] EXCEPT !.out = FALSE]
  <2>1. run \in Execution!Run /\ run.settled = runs[n].settled /\ run.timer = runs[n].timer
    BY <1>2, RunFields
  <2>2. CASE runs[n].settled
    <3>1. runs' = [runs EXCEPT ![n] = run] /\ UNCHANGED <<phase, stopping, active>>
      BY <1>4, <2>2 DEF Execution!RunAnswered
    <3> HIDE DEF run
    <3>2. /\ runs' \in Seq(Execution!Run) /\ Len(runs') = Len(runs) /\ DOMAIN runs' = DOMAIN runs
          /\ \A m \in DOMAIN runs : runs'[m].settled = runs[m].settled /\ runs'[m].timer = runs[m].timer
      BY <2>1, <3>1, OneRunChanges DEF ExecInv
    <3>3. ExecutionsTyped'
      BY <3>1, <3>2 DEF ExecInv, ExecutionsTyped
    <3>4. RunIsOwned'
      BY <3>1, <3>2 DEF ExecInv, ExecutionsTyped, RunIsOwned, Execution!RunIsOwned
    <3> QED BY <3>1, <3>3, <3>4 DEF ExecInv, ExecutionNeedsTarget
  <2>3. CASE ~runs[n].settled
    <3>1. Execution!FinishRun(n, run, outcome)
      BY <1>4, <2>3 DEF Execution!RunAnswered
    <3> HIDE DEF run
    <3>2. ExecutionsTyped' /\ RunIsOwned' /\ active' = 0
      BY <2>1, <2>3, <3>1, FinishedRun
    <3> QED BY <3>2 DEF ExecInv, ExecutionNeedsTarget
  <2> QED BY <2>2, <2>3
<1> QED BY <1>1, <1>3, <1>4

LEMMA TimerKeepsRuns ==
  ASSUME ExecInv, Execution!RunTimer, UNCHANGED <<status, watching>>
  PROVE  ExecInv'
<1>1. PICK n \in DOMAIN runs : Execution!RunTimesOut(n)
  BY DEF Execution!RunTimer
<1>2. runs[n] \in Execution!Run /\ ~runs[n].settled /\ Execution!FinishRun(n, runs[n], "error")
  BY <1>1 DEF ExecInv, ExecutionsTyped, Execution!RunTimesOut
<1>3. ExecutionsTyped' /\ RunIsOwned' /\ active' = 0
  BY <1>2, FinishedRun DEF Execution!RunResults
<1> QED BY <1>3 DEF ExecInv, ExecutionNeedsTarget

(* The shutdown gives up what runs and stops listening.                    *)
LEMMA ShutdownKeepsRuns ==
  ASSUME ExecInv, ShutdownBegins
  PROVE  ExecInv'
<1>1. /\ watching' = FALSE /\ active' = 0 /\ phase' = phase
      /\ runs' = IF active = 0 THEN runs ELSE [runs EXCEPT ![active] = Execution!Over(@)]
  BY DEF ShutdownBegins, Execution!DisposeExecution
<1>2. runs \in Seq(Execution!Run) /\ active \in 0 .. Len(runs) /\ Len(runs) \in Nat /\ DOMAIN runs = 1 .. Len(runs)
  BY DEF ExecInv, ExecutionsTyped
<1>3. \A n \in DOMAIN runs : n # active => runs[n].settled /\ ~runs[n].timer
  BY DEF ExecInv, RunIsOwned, Execution!RunIsOwned
<1>4. /\ runs' \in Seq(Execution!Run) /\ Len(runs') = Len(runs)
      /\ \A n \in DOMAIN runs' : runs'[n].settled /\ ~runs'[n].timer
  <2>1. CASE active = 0
    <3>1. \A n \in DOMAIN runs : n # active
      BY <1>2, <2>1
    <3> QED BY <1>1, <1>2, <1>3, <2>1, <3>1
  <2>2. CASE active # 0
    <3>1. active \in DOMAIN runs /\ runs[active] \in Execution!Run
      BY <1>2, <2>2
    <3> DEFINE run == Execution!Over(runs[active])
    <3>2. run \in Execution!Run /\ run.settled /\ ~run.timer
      BY <3>1, RunFields
    <3>3. runs' = [runs EXCEPT ![active] = run]
      BY <1>1, <2>2
    <3> HIDE DEF run
    <3>4. /\ runs' \in Seq(Execution!Run) /\ Len(runs') = Len(runs) /\ DOMAIN runs' = DOMAIN runs
          /\ runs'[active] = run
          /\ \A m \in DOMAIN runs : m # active => runs'[m] = runs[m]
      BY <3>1, <3>2, <3>3, OneRunChanges DEF ExecInv
    <3> QED BY <1>3, <3>2, <3>4
  <2> QED BY <2>1, <2>2
<1>5. ExecutionsTyped'
  <2>1. active' = 0 /\ phase' = phase /\ watching' = FALSE
    BY <1>1
  <2>2. runs' \in Seq(Execution!Run) /\ Len(runs') = Len(runs)
    BY <1>4
  <2>3. phase \in Execution!Phases
    BY DEF ExecInv, ExecutionsTyped
  <2>4. active' \in 0 .. Len(runs')
    <3>1. Len(runs) \in Nat
      BY <1>2
    <3> QED BY <2>1, <2>2, <3>1
  <2> QED BY <2>1, <2>2, <2>3, <2>4 DEF ExecutionsTyped
<1> QED BY <1>1, <1>4, <1>5 DEF ExecInv, RunIsOwned, Execution!RunIsOwned, ExecutionNeedsTarget

LEMMA ExecutesKeepsRuns ==
  ASSUME ExecInv, Executes
  PROVE  ExecInv'
<1>1. UNCHANGED <<status, watching>>
  BY DEF Executes, targetVars
<1>2. \/ Submit \/ UNCHANGED executionVars
      \/ Execution!CancelRun \/ Execution!ProviderRuns \/ Execution!RunTimer
  BY DEF Executes, ExecuteClicked, ConfirmationEnds
<1> QED BY <1>1, <1>2, RunsUntouched, SubmitKeepsRuns, CancelKeepsRuns, ProviderKeepsRuns, TimerKeepsRuns

(* Every other step runs the listeners and lets them go on watching.       *)
LEMMA StepsAreHeard ==
  ASSUME NovaNext, ~ShutdownBegins, ~Executes
  PROVE  Listeners /\ watching' = watching
<1> USE DEF BackendFrame, appVars
<1>1. ASSUME NEW n \in Begun, CallBackend(n) \/ AnswerHeard(n) \/ Continues(n)
      PROVE  Listeners /\ watching' = watching
  <2>1. CASE CallBackend(n)
    BY <2>1 DEF CallBackend
  <2>2. CASE AnswerHeard(n) \/ Continues(n)
    BY <2>2 DEF AnswerHeard, Continues, Untouched
  <2> QED BY <1>1, <2>1, <2>2
<1>2. ASSUME NEW c \in {launcher, panel}, CallerGoesOn(c) PROVE Listeners /\ watching' = watching
  BY <1>2 DEF CallerGoesOn, Untouched
<1>3. CASE BackendStopAsked \/ BackendDisposed \/ TargetReleased
  BY <1>3 DEF BackendStopAsked, BackendDisposed, TargetReleased, Requested, Released, Untouched
<1>4. ASSUME NEW n \in Begun, OperationTimesOut(n) PROVE Listeners /\ watching' = watching
  BY <1>4 DEF OperationTimesOut, Released
<1>5. CASE Click
  BY <1>5 DEF Click, Requested, Released, Untouched
<1>6. ASSUME \/ \E n \in DOMAIN attempts : InjectHeard(n) \/ InjectTimerFires(n)
             \/ \E outcome \in Target!Outcomes : InjectEnds(outcome)
             \/ DisconnectHeard \/ TargetAsks \/ CancelClicked \/ DisconnectClicked
      PROVE  Listeners /\ watching' = watching
  BY <1>6 DEF InjectHeard, InjectTimerFires, InjectEnds, DisconnectHeard, TargetAsks, CancelClicked,
              DisconnectClicked, TargetFrame
<1>7. ASSUME \/ \E n \in Begun : MockStarts(n)
             \/ \E next \in BOOLEAN : Switch(next)
             \/ Closed
      PROVE  Listeners /\ watching' = watching
  BY <1>7 DEF MockStarts, Switch, Closed
<1> QED BY <1>1, <1>2, <1>3, <1>4, <1>5, <1>6, <1>7 DEF NovaNext, Microtasks, Timers, Clicks

LEMMA ExecInvStep == ExecInv /\ [NovaNext]_novaVars => ExecInv'
<1> SUFFICES ASSUME ExecInv, [NovaNext]_novaVars PROVE ExecInv'
  OBVIOUS
<1>1. CASE UNCHANGED novaVars
  BY <1>1, RunsUntouched DEF novaVars, targetVars, appVars
<1>2. CASE ShutdownBegins
  BY <1>2, ShutdownKeepsRuns
<1>3. CASE Executes
  BY <1>3, ExecutesKeepsRuns
<1>4. CASE NovaNext /\ ~ShutdownBegins /\ ~Executes
  BY <1>4, StepsAreHeard, ListenersKeepRuns DEF Listeners
<1> QED BY <1>1, <1>2, <1>3, <1>4

LEMMA ExecInvStart == NovaInit => ExecInv
BY DEF NovaInit, Execution!ExecutionInit, ExecInv, ExecutionsTyped, RunIsOwned, Execution!RunIsOwned,
       ExecutionNeedsTarget, Execution!Phases, Execution!BusyPhases

(* "An execution in flight cannot outlive the target it runs on", whatever *)
(* takes the target away and however the turns interleave (services.tsx).  *)
THEOREM NoExecutionOutlivesItsTarget == NovaSpec => []ExecutionNeedsTarget
<1>1. ExecInv => ExecutionNeedsTarget
  BY DEF ExecInv
<1> QED BY <1>1, ExecInvStart, ExecInvStep, PTL DEF NovaSpec

-----------------------------------------------------------------------------
(* The mock and the controller that drives it.                             *)

(* Where the call of operation n is: it is made by an operation that is    *)
(* waited for, and only that one can be waiting for the mock's timer; what *)
(* is given up is aborted in the same turn.                                *)
CallInv(n) ==
    LET op == ops[n] IN
    /\ op.phase = "announcing" => IsLive(n)
    /\ calls[n] # "none" => op.phase = "calling"
    /\ calls[n] \in {"waiting", "started"} => op.kind = "start"
    /\ calls[n] = "waiting" => IsLive(n) /\ ~op.finishing
    /\ calls[n] = "cancelled" => ~IsLive(n) \/ op.finishing
    /\ calls[n] = "started" /\ IsLive(n) /\ ~op.finishing => running
    /\ op.kind = "stop" /\ op.phase = "calling" /\ IsLive(n) => ~running
    /\ op.kind = "stop" /\ ~op.settled /\ (op.phase = "answered" \/ op.finishing) => ~running

(* The shutdown awaits a stop, and finds nothing running when it goes on.  *)
CloserInv ==
    waiting[closer].what = "shutdown" =>
        /\ waiting[closer].on # 0 => ops[waiting[closer].on].kind = "stop"
        /\ Resumable(closer) => ~running

MockInv ==
    /\ calls \in [1 .. MaxOps -> CallStates]
    /\ running \in BOOLEAN /\ visible \in BOOLEAN /\ intended \in BOOLEAN
    /\ \A n \in 1 .. MaxOps : n \notin Begun => calls[n] = "none"
    /\ \A n \in Begun : CallInv(n)
    /\ CloserInv
    /\ NothingWithoutBackend

LEMMA MockFacts ==
  ASSUME LifecycleInv, MockInv, NEW n \in Begun
  PROVE  /\ n \in 1 .. MaxOps /\ n # 0
         /\ ops[n] \in Operation /\ OperationInv(n) /\ CallInv(n)
         /\ calls[n] \in CallStates
<1>1. n \in 1 .. MaxOps /\ n # 0
  BY MaxOpsAssumption DEF LifecycleInv, TypeOK, Begun
<1>2. ops[n] \in Operation /\ OperationInv(n)
  BY DEF LifecycleInv, TypeOK
<1>3. CallInv(n) /\ calls[n] \in CallStates
  BY <1>1 DEF MockInv
<1> QED BY <1>1, <1>2, <1>3

LEMMA WaitingCall ==
  ASSUME LifecycleInv, MockInv, NEW n \in 1 .. MaxOps, calls[n] = "waiting"
  PROVE  /\ n \in Begun /\ n = operation /\ IsLive(n)
         /\ ops[n].kind = "start" /\ ~ops[n].finishing /\ ops[n].phase = "calling"
         /\ state = "starting"
<1>1. n \in Begun
  BY DEF MockInv
<1>2. CallInv(n)
  BY <1>1, MockFacts
<1>3. IsLive(n) /\ ops[n].kind = "start" /\ ~ops[n].finishing /\ ops[n].phase = "calling"
  BY <1>2 DEF CallInv
<1>4. n = operation /\ operation # 0
  BY <1>1, <1>3, MockFacts DEF IsLive
<1>5. state = "starting"
  BY <1>3, <1>4 DEF LifecycleInv, CurrentInv, BusyOf
<1> QED BY <1>1, <1>3, <1>4, <1>5

LEMMA Stopped ==
  ASSUME NothingWithoutBackend, visible \in BOOLEAN, MockStop
  PROVE  running' = FALSE /\ visible' = FALSE
<1>1. CASE running
  BY <1>1 DEF MockStop, SetVisible
<1>2. CASE ~running
  <2>1. ~visible
    BY <1>2 DEF NothingWithoutBackend
  <2>2. running' = FALSE /\ visible' = visible
    BY <1>2 DEF MockStop, heldVars
  <2>3. visible = FALSE
    BY <2>1
  <2> QED BY <2>2, <2>3
<1> QED BY <1>1, <1>2

(* The backend controller and the calls stand still, but for a stop that a *)
(* disconnect timer answers.                                               *)
LEMMA StandingStill ==
  ASSUME LifecycleInv, MockInv, UNCHANGED <<backendVars, running>>,
         calls' \in [1 .. MaxOps -> CallStates],
         \A n \in 1 .. MaxOps : calls'[n] = calls[n] \/ (calls[n] = "closing" /\ calls'[n] = "stopped"),
         visible' \in BOOLEAN, intended' \in BOOLEAN, visible' => running
  PROVE  MockInv'
<1> USE DEF backendVars, vars
<1>1. Begun' = Begun
  BY DEF Begun
<1>2. ASSUME NEW n \in Begun PROVE CallInv(n)'
  BY <1>1, <1>2, MockFacts DEF CallInv, IsLive
<1>3. \A n \in 1 .. MaxOps : n \notin Begun' => calls'[n] = "none"
  BY <1>1 DEF MockInv
<1>4. CloserInv'
  BY DEF MockInv, CloserInv, Resumable
<1>5. NothingWithoutBackend'
  BY DEF MockInv, NothingWithoutBackend
<1> QED BY <1>1, <1>2, <1>3, <1>4, <1>5 DEF MockInv

(* The timer of a start fires: only the operation waited for can have one. *)
LEMMA StartTimer == ASSUME LifecycleInv, MockInv, NEW n \in Begun, MockStarts(n) PROVE MockInv'
<1> USE DEF backendVars, vars
<1>1. /\ Settled /\ ~InSync /\ calls[n] = "waiting"
      /\ calls' = [calls EXCEPT ![n] = "started"] /\ running' = TRUE /\ visible' = intended
      /\ UNCHANGED <<state, operation, operationSeq, ops, waiting, disposed, intended>>
  BY DEF MockStarts, Quiet, Settled, HandlersRan, SetVisible, BackendFrame
<1>2. n \in 1 .. MaxOps /\ n = operation /\ ops[n].kind = "start" /\ ops[n].phase = "calling" /\ state = "starting"
  BY <1>1, MockFacts, WaitingCall
<1>3. calls' \in [1 .. MaxOps -> CallStates] /\ \A m \in 1 .. MaxOps : m # n => calls'[m] = calls[m]
  BY <1>1 DEF MockInv, CallStates
<1>4. calls'[n] = "started"
  BY <1>1, <1>2 DEF MockInv
<1>5. Begun' = Begun
  BY <1>1 DEF Begun
<1>6. ASSUME NEW m \in Begun PROVE CallInv(m)'
  <2>1. ops[m].phase # "answered" /\ ~ops[m].finishing /\ ops[m].phase # "announcing"
    BY <1>1 DEF Settled, HandlersRan, InSync, Sync
  <2>2. CASE m = n
    BY <1>1, <1>2, <1>4, <2>1, <2>2 DEF CallInv
  <2>3. CASE m # n
    BY <1>1, <1>2, <1>3, <2>1, <2>3, MockFacts DEF CallInv, IsLive
  <2> QED BY <2>2, <2>3
<1>7. CloserInv'
  <2>1. ~Resumable(closer)
    BY <1>1, TheCallers DEF Settled
  <2> QED BY <1>1, <2>1 DEF MockInv, CloserInv, Resumable
<1>8. \A m \in 1 .. MaxOps : m \notin Begun' => calls'[m] = "none"
  BY <1>3, <1>5 DEF MockInv
<1>9. NothingWithoutBackend'
  BY <1>1, <1>2 DEF NothingWithoutBackend
<1> QED BY <1>1, <1>3, <1>5, <1>6, <1>7, <1>8, <1>9 DEF MockInv

(* One operation moves, with its call.                                     *)
LEMMA OneCallMoves ==
  ASSUME LifecycleInv, MockInv, NEW n \in Begun, NEW op \in Operation, NEW call \in CallStates,
         ops' = [ops EXCEPT ![n] = op], op.kind = ops[n].kind,
         operation' \in {operation, IF operation = n THEN 0 ELSE operation},
         UNCHANGED <<operationSeq, waiting, disposed, intended>>,
         calls' = [calls EXCEPT ![n] = call],
         running' = running \/ (running' = FALSE /\ operation = n),
         CallInv(n)',
         op.settled => ops[n].settled \/ ops[n].kind = "start" \/ ~running',
         visible' \in BOOLEAN, NothingWithoutBackend'
  PROVE  MockInv'
<1>1. Begun' = Begun
  BY DEF Begun
<1>2. /\ ops'[n] = op
      /\ \A m \in Begun : m # n => ops'[m] = ops[m]
  BY DEF LifecycleInv, TypeOK
<1>3. n \in 1 .. MaxOps
  BY MockFacts
<1>4. /\ calls' \in [1 .. MaxOps -> CallStates]
      /\ \A m \in 1 .. MaxOps : m # n => calls'[m] = calls[m]
  BY <1>3 DEF MockInv
<1>5. ASSUME NEW m \in Begun, m # n PROVE CallInv(m)'
  <2>1. ops'[m] = ops[m] /\ calls'[m] = calls[m] /\ m \in 1 .. MaxOps /\ m # 0
    BY <1>2, <1>4, <1>5, MockFacts
  <2>2. IsLive(m)' <=> IsLive(m)
    BY <1>5, <2>1 DEF IsLive
  <2>3. running' = running \/ (running' = FALSE /\ ~IsLive(m))
    BY <1>5 DEF IsLive
  <2>4. CallInv(m)
    BY MockFacts
  <2> QED BY <2>1, <2>2, <2>3, <2>4 DEF CallInv
<1>6. CloserInv'
  <2> SUFFICES ASSUME waiting'[closer].what = "shutdown"
               PROVE  /\ waiting'[closer].on # 0 => ops'[waiting'[closer].on].kind = "stop"
                      /\ Resumable(closer)' => ~running'
    BY DEF CloserInv
  <2> DEFINE on == waiting[closer].on
  <2>1. waiting' = waiting /\ waiting[closer].what = "shutdown"
    OBVIOUS
  <2>2. on # 0 => on \in Begun /\ ops[on].kind = "stop"
    BY <2>1, TheCallers DEF MockInv, CloserInv, LifecycleInv, TypeOK, Wait, Begun
  <2>3. Resumable(closer) => ~running
    BY <2>1 DEF MockInv, CloserInv
  <2>4. on # 0 => ops'[on].kind = "stop"
    BY <1>2, <2>2
  <2>5. ASSUME Resumable(closer)' PROVE ~running'
    <3>1. on # 0 => ops'[on].settled
      BY <2>1, <2>5 DEF Resumable
    <3>2. CASE on = 0 \/ ops[on].settled
      BY <2>1, <2>3, <3>2 DEF Resumable
    <3>3. CASE on # 0 /\ ~ops[on].settled
      BY <1>2, <2>2, <3>1, <3>3
    <3> QED BY <3>2, <3>3
  <2> QED BY <2>1, <2>4, <2>5
<1>7. \A m \in 1 .. MaxOps : m \notin Begun' => calls'[m] = "none"
  BY <1>1, <1>4 DEF MockInv
<1>8. running' \in BOOLEAN
  BY DEF MockInv
<1>9. \A m \in Begun' : CallInv(m)'
  BY <1>1, <1>5
<1> QED BY <1>4, <1>6, <1>7, <1>8, <1>9 DEF MockInv

(* Whoever asks, the shutdown goes on only when nothing runs.              *)
LEMMA CloserStands ==
  ASSUME LifecycleInv, MockInv, NEW c \in Clients, NEW what, NEW on, Await(c, what, on),
         running' \in {running, FALSE},
         \A m \in Begun : /\ ops'[m].kind = ops[m].kind
                          /\ ops'[m].settled => ops[m].settled \/ ~running',
         what = "shutdown" => IF on = 0 THEN ~running' ELSE ops'[on].kind = "stop" /\ ~ops'[on].settled
  PROVE  CloserInv'
<1>1. CASE c = closer
  <2>1. waiting'[closer].what = what /\ waiting'[closer].on = on
    BY <1>1 DEF LifecycleInv, TypeOK, Await
  <2> QED BY <2>1 DEF CloserInv, Resumable
<1>2. CASE c # closer
  <2>1. waiting'[closer] = waiting[closer]
    BY <1>2, TheCallers DEF LifecycleInv, TypeOK, Await
  <2> DEFINE w == waiting[closer]
  <2> SUFFICES ASSUME w.what = "shutdown"
               PROVE  /\ w.on # 0 => ops'[w.on].kind = "stop"
                      /\ Resumable(closer)' => ~running'
    BY <2>1 DEF CloserInv
  <2>2. w.on # 0 => w.on \in Begun /\ ops[w.on].kind = "stop"
    BY TheCallers DEF MockInv, CloserInv, LifecycleInv, TypeOK, Wait, Begun
  <2>3. Resumable(closer) => ~running
    BY DEF MockInv, CloserInv
  <2>4. w.on # 0 => ops'[w.on].kind = "stop"
    BY <2>2
  <2>5. ASSUME Resumable(closer)' PROVE ~running'
    <3>1. w.on # 0 => ops'[w.on].settled
      BY <2>1, <2>5 DEF Resumable
    <3>2. CASE w.on = 0 \/ ops[w.on].settled
      BY <2>3, <3>2 DEF Resumable
    <3>3. CASE w.on # 0 /\ ~ops[w.on].settled
      BY <2>2, <3>1, <3>3
    <3> QED BY <3>2, <3>3
  <2> QED BY <2>4, <2>5
<1> QED BY <1>1, <1>2

(* A request that begins and ends nothing.                                 *)
LEMMA NothingBegins ==
  ASSUME LifecycleInv, MockInv, Untouched, SnapshotUnchanged, OperationUnchanged,
         disposed' = disposed, CloserInv'
  PROVE  MockInv'
<1> USE DEF Untouched, SnapshotUnchanged, OperationUnchanged, heldVars, BackendFrame
<1>1. Begun' = Begun
  BY DEF Begun
<1>2. ASSUME NEW n \in Begun PROVE CallInv(n)'
  BY <1>1, <1>2, MockFacts DEF CallInv, IsLive
<1>3. NothingWithoutBackend'
  BY DEF MockInv, NothingWithoutBackend
<1> QED BY <1>1, <1>2, <1>3 DEF MockInv

(* A new operation replaces the one waited for, which waits for nothing.   *)
LEMMA OneBegins ==
  ASSUME LifecycleInv, MockInv, ~InSync, NEW kind \in Kinds, Begin(kind), Untouched,
         ~disposed, disposed' = disposed, state # "starting", state' = BusyOf(kind), CloserInv'
  PROVE  MockInv'
<1> PICK n : n = operationSeq'
  OBVIOUS
<1>1. TypeOK
  BY DEF LifecycleInv
<1>2. /\ operation' = n /\ Begun' = Begun \cup {n} /\ n \notin Begun /\ n # 0
      /\ \A m \in Begun : ops'[m] = ops[m] /\ m # n
      /\ ops'[n].phase = "announcing" /\ ~ops'[n].finishing /\ ~ops'[n].settled
  BY <1>1, BeginFacts DEF TypeOK
<1>3. n \in 1 .. MaxOps
  <2>1. operationSeq' \in 0 .. MaxOps
    BY <1>1, BeginFacts
  <2> QED BY <1>2, <2>1, MaxOpsAssumption
<1>4. UNCHANGED <<calls, running, visible, intended>>
  BY DEF Untouched, heldVars, BackendFrame
<1>5. ASSUME NEW m \in Begun PROVE CallInv(m)'
  <2>1. ops[m].phase # "announcing" /\ ~ops[m].finishing
    BY DEF InSync, Sync
  <2>2. calls[m] # "waiting"
    BY WaitingCall, MockFacts
  <2>3. ~IsLive(m)' /\ ops'[m] = ops[m] /\ calls'[m] = calls[m]
    BY <1>2, <1>4 DEF IsLive
  <2>4. CallInv(m)
    BY MockFacts
  <2> QED BY <1>4, <2>1, <2>2, <2>3, <2>4 DEF CallInv
<1>6. CallInv(n)'
  <2>1. calls'[n] = "none"
    BY <1>2, <1>3, <1>4 DEF MockInv
  <2>2. IsLive(n)'
    BY <1>2 DEF IsLive
  <2> QED BY <1>2, <2>1, <2>2 DEF CallInv
<1>7. NothingWithoutBackend'
  BY <1>4 DEF MockInv, NothingWithoutBackend, BusyOf, Kinds
<1>8. \A m \in 1 .. MaxOps : m \notin Begun' => calls'[m] = "none"
  BY <1>2, <1>4 DEF MockInv
<1>9. \A m \in Begun' : CallInv(m)'
  BY <1>2, <1>5, <1>6
<1> QED BY <1>4, <1>7, <1>8, <1>9 DEF MockInv

(* What is waited for is given up: a start by a stop, and whatever is in   *)
(* flight when the controller is disposed.                                 *)
LEMMA OneIsGivenUp ==
  ASSUME LifecycleInv, MockInv, ~InSync, Abandon, MockStop,
         calls' = (IF operation = 0 THEN calls ELSE Aborted(operation)),
         intended' = intended, CloserInv', state' # "ready"
  PROVE  MockInv'
<1>1. TypeOK
  BY DEF LifecycleInv
<1>2. /\ operation' = 0 /\ Begun' = Begun
      /\ \A m \in Begun : /\ ops'[m].phase = ops[m].phase /\ ops'[m].kind = ops[m].kind
                          /\ ops'[m].finishing = ops[m].finishing
  <2>1. operation' = 0 /\ Begun' = Begun
    BY <1>1, AbandonFacts
  <2>2. ASSUME NEW m \in Begun
        PROVE  /\ ops'[m].phase = ops[m].phase /\ ops'[m].kind = ops[m].kind
               /\ ops'[m].finishing = ops[m].finishing
    <3>1. m # 0
      BY MockFacts
    <3>2. CASE m = operation
      BY <1>1, <3>1, <3>2, AbandonFacts
    <3>3. CASE m # operation
      BY <1>1, <3>3, AbandonFacts
    <3> QED BY <3>2, <3>3
  <2> QED BY <2>1, <2>2
<1>3. running' = FALSE /\ visible' = FALSE
  BY Stopped DEF MockInv
<1>4. calls' \in [1 .. MaxOps -> CallStates]
  BY DEF MockInv, Aborted, CallStates
<1>5. \A m \in 1 .. MaxOps : calls'[m] = calls[m] \/ (calls[m] = "waiting" /\ calls'[m] = "cancelled")
  BY DEF MockInv, Aborted
<1>6. \A m \in 1 .. MaxOps : calls'[m] # "waiting"
  <2> SUFFICES ASSUME NEW m \in 1 .. MaxOps, calls[m] = "waiting" PROVE calls'[m] = "cancelled"
    BY <1>5
  <2>1. m = operation /\ operation # 0
    BY WaitingCall
  <2> QED BY <2>1 DEF MockInv, Aborted
<1>7. ASSUME NEW m \in Begun PROVE CallInv(m)'
  <2>1. m \in 1 .. MaxOps /\ m # 0 /\ CallInv(m)
    BY MockFacts
  <2>2. ops[m].phase # "announcing"
    BY DEF InSync, Sync
  <2>3. ~IsLive(m)'
    BY <1>2, <2>1 DEF IsLive
  <2>4. calls'[m] # "waiting" /\ (calls'[m] = calls[m] \/ (calls[m] = "waiting" /\ calls'[m] = "cancelled"))
    BY <1>5, <1>6, <2>1
  <2> QED BY <1>2, <1>3, <2>1, <2>2, <2>3, <2>4 DEF CallInv
<1>8. NothingWithoutBackend'
  BY <1>3 DEF NothingWithoutBackend
<1>9. \A m \in 1 .. MaxOps : m \notin Begun' => calls'[m] = "none"
  BY <1>2, <1>5 DEF MockInv
<1>10. \A m \in Begun' : CallInv(m)'
  BY <1>2, <1>7
<1> QED BY <1>3, <1>4, <1>8, <1>9, <1>10 DEF MockInv

LEMMA StartForKeeps ==
  ASSUME LifecycleInv, MockInv, ~InSync, NEW c \in Clients, StartFor(c), Requested, disposed' = disposed
  PROVE  MockInv'
<1>1. ASSUME StartAnswersAtOnce(c) \/ JoinStart(c) PROVE MockInv'
  <2>1. SnapshotUnchanged /\ OperationUnchanged
    BY <1>1 DEF StartAnswersAtOnce, JoinStart
  <2>2. Untouched
    BY <2>1 DEF Requested, SnapshotUnchanged
  <2>3. PICK what, on : Await(c, what, on) /\ what # "shutdown"
    BY <1>1 DEF StartAnswersAtOnce, JoinStart
  <2>4. CloserInv'
    BY <2>1, <2>2, <2>3, CloserStands DEF Untouched, OperationUnchanged
  <2> QED BY <2>1, <2>2, <2>4, NothingBegins
<1>2. ASSUME StartBackend(c) PROVE MockInv'
  <2>1. /\ Begin("start") /\ "start" \in Kinds /\ state' = "starting" /\ ~disposed
        /\ state # "starting" /\ state' = BusyOf("start") /\ Await(c, "start", operationSeq + 1)
    BY <1>2 DEF StartBackend, BeginStart, MoveTo, Startable, Kinds, BusyOf
  <2>2. Untouched
    BY <2>1 DEF Requested
  <2>3. CloserInv'
    <3>1. \A m \in Begun : ops'[m] = ops[m]
      BY <2>1, BeginFacts DEF LifecycleInv
    <3> QED BY <2>1, <2>2, <3>1, CloserStands DEF Untouched
  <2> QED BY <2>1, <2>2, <2>3, OneBegins
<1> QED BY <1>1, <1>2 DEF StartFor

LEMMA StopForKeeps ==
  ASSUME LifecycleInv, MockInv, ~InSync, NEW c \in Clients, NEW what \in {"stop", "restart", "shutdown"},
         StopFor(c, what), Requested, disposed' = disposed, what = "shutdown" => ~disposed
  PROVE  MockInv'
<1> DEFINE told == IF what = "stop" THEN "nothing" ELSE what
<1>1. ASSUME NothingToStop(c, what) PROVE MockInv'
  <2>1. SnapshotUnchanged /\ OperationUnchanged /\ Await(c, told, 0)
    BY <1>1 DEF NothingToStop, StopReturns
  <2>2. Untouched
    BY <2>1 DEF Requested, SnapshotUnchanged
  <2>3. ASSUME told = "shutdown" PROVE ~running'
    <3>1. ~disposed /\ state \notin Stoppable /\ (state = "stopping" => ~LiveStop)
      BY <1>1, <2>3 DEF NothingToStop
    <3>2. state # "stopping"
      BY <3>1 DEF LifecycleInv, BusyIsOwned, Busy, LiveStop
    <3>3. ~running
      BY <3>1, <3>2 DEF MockInv, NothingWithoutBackend, Stoppable
    <3> QED BY <2>2, <3>3 DEF Untouched
  <2> HIDE DEF told
  <2>4. CloserInv'
    BY <2>1, <2>2, <2>3, CloserStands DEF Untouched, OperationUnchanged
  <2> QED BY <2>1, <2>2, <2>4, NothingBegins
<1>2. ASSUME JoinStop(c, what) PROVE MockInv'
  <2>1. /\ SnapshotUnchanged /\ OperationUnchanged /\ Await(c, what, operation)
        /\ operation # 0 /\ ops[operation].kind = "stop" /\ ~ops[operation].settled
    BY <1>2 DEF JoinStop, LiveStop
  <2>2. Untouched
    BY <2>1 DEF Requested, SnapshotUnchanged
  <2>3. CloserInv'
    BY <2>1, <2>2, CloserStands DEF Untouched, OperationUnchanged
  <2> QED BY <2>1, <2>2, <2>3, NothingBegins
<1>3. ASSUME AbandonStart(c, what) PROVE MockInv'
  <2>1. state = "starting" /\ state' = "stopped" /\ Abandon /\ Await(c, told, 0)
    BY <1>3 DEF AbandonStart, StopReturns, MoveTo
  <2>2. Released(operation)
    BY <2>1 DEF Requested
  <2>3. MockStop /\ running' = FALSE
    BY <2>2, Stopped DEF Released, MockInv
  <2> HIDE DEF told
  <2>4. CloserInv'
    <3>1. \A m \in Begun : ops'[m].kind = ops[m].kind
      <4>1. ASSUME NEW m \in Begun PROVE ops'[m].kind = ops[m].kind
        <5>1. m # 0
          BY MockFacts
        <5>2. CASE m = operation
          BY <2>1, <5>1, <5>2, AbandonFacts DEF LifecycleInv
        <5>3. CASE m # operation
          BY <2>1, <5>3, AbandonFacts DEF LifecycleInv
        <5> QED BY <5>2, <5>3
      <4> QED BY <4>1
    <3> QED BY <2>1, <2>3, <3>1, CloserStands
  <2> QED BY <2>1, <2>2, <2>3, <2>4, OneIsGivenUp DEF Released, BackendFrame
<1>4. ASSUME StopBackend(c, what) PROVE MockInv'
  <2>1. /\ Begin("stop") /\ "stop" \in Kinds /\ state' = "stopping" /\ ~disposed
        /\ state # "starting" /\ state' = BusyOf("stop") /\ Await(c, what, operationSeq + 1)
    BY <1>4 DEF StopBackend, BeginStop, MoveTo, Kinds, BusyOf
  <2>2. Untouched
    BY <2>1 DEF Requested
  <2>3. CloserInv'
    <3>1. /\ \A m \in Begun : ops'[m] = ops[m]
          /\ ops'[operationSeq'].kind = "stop" /\ ~ops'[operationSeq'].settled
          /\ operationSeq' = operationSeq + 1 /\ operationSeq \in Nat
      BY <2>1, BeginFacts DEF LifecycleInv
    <3>2. operationSeq + 1 # 0
      BY <3>1
    <3> QED BY <2>1, <2>2, <3>1, <3>2, CloserStands DEF Untouched
  <2> QED BY <2>1, <2>2, <2>3, OneBegins
<1> QED BY <1>1, <1>2, <1>3, <1>4 DEF StopFor

LEMMA ClickKeepsMock == ASSUME LifecycleInv, MockInv, Click PROVE MockInv'
<1>1. Requested /\ ~InSync
  BY DEF Click, Quiet, OnStack
<1>2. ASSUME NEW c \in Clients, Start(c) PROVE MockInv'
  BY <1>1, <1>2, StartForKeeps DEF Start
<1>3. ASSUME NEW c \in Clients, Stop(c) PROVE MockInv'
  BY <1>1, <1>3, StopForKeeps DEF Stop
<1>4. ASSUME NEW c \in Clients, Restart(c) PROVE MockInv'
  BY <1>1, <1>4, StopForKeeps DEF Restart
<1>5. ASSUME NEW c \in Clients, Startup(c) PROVE MockInv'
  <2>1. CASE StartFor(c)
    BY <1>1, <1>5, <2>1, StartForKeeps DEF Startup
  <2>2. CASE ~StartFor(c)
    <3>1. SnapshotUnchanged /\ OperationUnchanged /\ waiting' = waiting /\ disposed' = disposed
      BY <1>5, <2>2 DEF Startup, SnapshotUnchanged, OperationUnchanged
    <3>2. Untouched
      BY <1>1, <3>1 DEF Requested, SnapshotUnchanged
    <3>3. CloserInv'
      BY <3>1, <3>2 DEF MockInv, CloserInv, Resumable, OperationUnchanged, Untouched
    <3> QED BY <3>1, <3>2, <3>3, NothingBegins
  <2> QED BY <2>1, <2>2
<1> QED BY <1>2, <1>3, <1>4, <1>5, ClicksAreRequests

LEMMA CallerKeepsMock ==
  ASSUME LifecycleInv, MockInv, NEW c \in {launcher, panel}, CallerGoesOn(c)
  PROVE  MockInv'
<1>1. c \in Clients /\ ~InSync /\ Untouched
  BY TheCallers DEF CallerGoesOn, OnStack
<1>2. ASSUME ResumeCaller(c) PROVE MockInv'
  <2>1. SnapshotUnchanged /\ OperationUnchanged /\ Await(c, "nothing", 0) /\ disposed' = disposed
    BY <1>2 DEF ResumeCaller
  <2>2. CloserInv'
    BY <1>1, <2>1, CloserStands DEF Untouched, OperationUnchanged
  <2> QED BY <1>1, <2>1, <2>2, NothingBegins
<1>3. ASSUME ResumeRestart(c) PROVE MockInv'
  <2>1. StartFor(c) /\ disposed' = disposed
    BY <1>3 DEF ResumeRestart
  <2>2. ~(state = "starting" /\ state' = "stopped")
    BY <2>1 DEF StartFor, StartAnswersAtOnce, JoinStart, StartBackend, BeginStart, MoveTo, SnapshotUnchanged
  <2>3. Requested
    BY <1>1, <2>2 DEF Requested
  <2> QED BY <1>1, <2>1, <2>3, StartForKeeps
<1> QED BY <1>2, <1>3 DEF CallerGoesOn

LEMMA CloserKeepsMock == ASSUME LifecycleInv, MockInv, BackendStopAsked PROVE MockInv'
<1>1. ~InSync /\ Requested /\ StopFor(closer, "shutdown") /\ ~disposed /\ disposed' = disposed
  BY DEF BackendStopAsked, Shutdown
<1> QED BY <1>1, TheCallers, StopForKeeps

LEMMA DisposalKeepsMock == ASSUME LifecycleInv, MockInv, BackendDisposed PROVE MockInv'
<1>1. /\ ~InSync /\ Abandon /\ MockStop /\ intended' = intended
      /\ calls' = IF operation = 0 THEN calls ELSE Aborted(operation)
      /\ Resumable(closer) /\ waiting[closer].what = "shutdown"
      /\ Await(closer, "nothing", 0) /\ state' = state
  BY DEF BackendDisposed, OnStack, Dispose, SnapshotUnchanged
<1>2. CloserInv'
  <2>1. waiting'[closer].what = "nothing"
    BY <1>1, TheCallers DEF LifecycleInv, TypeOK, Await
  <2> QED BY <2>1 DEF CloserInv
<1>3. state' # "ready"
  <2>1. ~running
    BY <1>1 DEF MockInv, CloserInv
  <2> QED BY <1>1, <2>1 DEF MockInv, NothingWithoutBackend
<1> QED BY <1>1, <1>2, <1>3, OneIsGivenUp

(* An operation that is announced calls the mock while it is waited for; a *)
(* stop takes it down at once.                                             *)
LEMMA CallKeepsMock == ASSUME LifecycleInv, MockInv, NEW n \in Begun, CallBackend(n) PROVE MockInv'
<1>1. ops[n] \in Operation /\ OperationInv(n) /\ CallInv(n) /\ n # 0
  BY MockFacts
<1>2. /\ ops[n].phase = "announcing" /\ state' = state
      /\ UNCHANGED <<operation, operationSeq, waiting, disposed, intended>>
  BY DEF CallBackend, InvokeBackend, SnapshotUnchanged, BackendFrame
<1>3. IsLive(n) /\ ~ops[n].finishing
  BY <1>1, <1>2 DEF CallInv, OperationInv
<1> DEFINE op == [ops[n] EXCEPT !.phase = "calling"]
<1>4. /\ op \in Operation /\ op.kind = ops[n].kind /\ op.phase = "calling"
      /\ ~op.finishing /\ ~op.settled
  BY <1>1, <1>3 DEF Operation, IsLive
<1>5. ops' = [ops EXCEPT ![n] = op]
  BY <1>1, <1>3 DEF CallBackend, InvokeBackend
<1> HIDE DEF op
<1>6. ops'[n] = op
  BY <1>5 DEF LifecycleInv, TypeOK
<1>7. IsLive(n)'
  BY <1>2, <1>3, <1>4, <1>6 DEF IsLive
<1>8. calls \in [1 .. MaxOps -> CallStates] /\ n \in 1 .. MaxOps
  BY MockFacts DEF MockInv
<1>9. CASE ops[n].kind = "start"
  <2>1. PICK call : call = IF running THEN "started" ELSE "waiting"
    OBVIOUS
  <2>2. calls' = [calls EXCEPT ![n] = call] /\ UNCHANGED <<running, visible>>
    BY <1>9, <2>1 DEF CallBackend, heldVars
  <2>3. call \in CallStates /\ (call = "started" => running)
    BY <2>1 DEF CallStates
  <2>4. calls'[n] = call
    BY <1>8, <2>2
  <2>5. CallInv(n)'
    BY <1>4, <1>6, <1>7, <1>9, <2>1, <2>2, <2>3, <2>4 DEF CallInv
  <2>6. NothingWithoutBackend' /\ visible' \in BOOLEAN
    BY <1>2, <2>2 DEF MockInv, NothingWithoutBackend
  <2> QED BY <1>2, <1>4, <1>5, <2>2, <2>3, <2>5, <2>6, OneCallMoves
<1>10. CASE ops[n].kind # "start"
  <2>1. PICK call : call = IF running /\ closing THEN "closing" ELSE "stopped"
    OBVIOUS
  <2>2. ops[n].kind = "stop"
    BY <1>1, <1>10 DEF Operation, Kinds
  <2>3. calls' = [calls EXCEPT ![n] = call] /\ running' = FALSE /\ visible' = FALSE
    BY <1>10, <2>1, Stopped DEF CallBackend, MockInv
  <2>4. call \in {"closing", "stopped"} /\ call \in CallStates
    BY <2>1 DEF CallStates
  <2>5. calls'[n] = call
    BY <1>8, <2>3
  <2>6. CallInv(n)'
    BY <1>4, <1>6, <2>3, <2>4, <2>5 DEF CallInv
  <2>7. state = "stopping" /\ operation = n
    BY <1>1, <1>2, <1>3, <2>2 DEF LifecycleInv, CurrentInv, IsLive, BusyOf
  <2>8. NothingWithoutBackend'
    BY <1>2, <2>3, <2>7 DEF NothingWithoutBackend
  <2> QED BY <1>2, <1>4, <1>5, <2>3, <2>4, <2>6, <2>7, <2>8, OneCallMoves
<1> QED BY <1>9, <1>10

(* An answer is heard: a start that is still awaited has the mock running, *)
(* a stop has it down, and any other answer changes nothing.               *)
LEMMA AnswerKeepsMock == ASSUME LifecycleInv, MockInv, NEW n \in Begun, AnswerHeard(n) PROVE MockInv'
<1>1. ops[n] \in Operation /\ OperationInv(n) /\ CallInv(n) /\ n # 0 /\ n \in 1 .. MaxOps
  BY MockFacts
<1>2. /\ ops[n].phase = "calling" /\ ~ops[n].finishing
      /\ UNCHANGED <<operation, operationSeq, waiting, disposed, intended, running, visible>>
      /\ calls' = [calls EXCEPT ![n] = "none"]
  BY DEF AnswerHeard, StartAnswered, StopAnswered, LateAnswer, AnswerFrame, HandlersRan, InSync, Sync,
         BackendFrame, heldVars
<1>3. ASSUME NEW verdict \in Results, Answered(n, verdict),
             ops[n].kind = "start" \/ ops[n].settled \/ ~running, NothingWithoutBackend'
      PROVE  MockInv'
  <2>1. PICK op \in Operation :
           /\ ops' = [ops EXCEPT ![n] = op]
           /\ op.kind = ops[n].kind /\ op.finishing = ops[n].finishing
           /\ op.settled = ops[n].settled /\ op.timer = ops[n].timer
           /\ op.result = ops[n].result
           /\ op.phase = "answered" /\ op.verdict = verdict
    BY <1>3, AnsweredFacts DEF LifecycleInv
  <2>2. ops'[n] = op
    BY <2>1 DEF LifecycleInv, TypeOK
  <2>3. calls'[n] = "none" /\ "none" \in CallStates
    BY <1>1, <1>2 DEF MockInv, CallStates
  <2>4. CallInv(n)'
    BY <1>2, <1>3, <2>1, <2>2, <2>3 DEF CallInv
  <2>5. visible' \in BOOLEAN
    BY <1>2 DEF MockInv
  <2> QED BY <1>2, <1>3, <2>1, <2>3, <2>4, <2>5, OneCallMoves
<1>4. ASSUME calls[n] \in {"started", "cancelled"}, StartAnswered(n, calls[n]) PROVE MockInv'
  <2>1. IsLive(n) /\ ops[n].kind = "start"
    BY <1>4 DEF StartAnswered
  <2>2. calls[n] = "started" /\ running
    BY <1>1, <1>2, <1>4, <2>1 DEF CallInv
  <2>3. Answered(n, "started") /\ MoveTo("ready", FALSE, TRUE) /\ "started" \in Results
    BY <1>4, <2>2 DEF StartAnswered, Results
  <2>4. NothingWithoutBackend'
    BY <1>2, <2>2, <2>3 DEF NothingWithoutBackend, MoveTo
  <2> QED BY <1>3, <2>1, <2>3, <2>4
<1>5. ASSUME StopAnswered(n, "stopped") PROVE MockInv'
  <2>1. ~running
    BY <1>1, <1>2, <1>5 DEF StopAnswered, CallInv
  <2>2. Answered(n, "stopped") /\ MoveTo("stopped", FALSE, FALSE) /\ "stopped" \in Results
    BY <1>5 DEF StopAnswered, Results
  <2>3. NothingWithoutBackend'
    BY <1>2, <2>1, <2>2 DEF MockInv, NothingWithoutBackend, MoveTo
  <2> QED BY <1>3, <2>1, <2>2, <2>3
<1>6. ASSUME LateAnswer(n) PROVE MockInv'
  <2>1. ~IsLive(n) /\ Answered(n, "cancelled") /\ state' = state /\ "cancelled" \in Results
    BY <1>6 DEF LateAnswer, SnapshotUnchanged, Results
  <2>2. ops[n].settled
    BY <1>1, <1>2, <2>1 DEF OperationInv, IsLive
  <2>3. NothingWithoutBackend'
    BY <1>2, <2>1 DEF MockInv, NothingWithoutBackend
  <2> QED BY <1>3, <2>1, <2>2, <2>3
<1> QED BY <1>4, <1>5, <1>6 DEF AnswerHeard

(* A timeout releases the backend in the turn that gives the call up.      *)
LEMMA TimeoutKeepsMock == ASSUME LifecycleInv, MockInv, NEW n \in Begun, OperationTimesOut(n) PROVE MockInv'
<1>1. ops[n] \in Operation /\ OperationInv(n) /\ CallInv(n) /\ n # 0 /\ n \in 1 .. MaxOps /\ calls[n] \in CallStates
  BY MockFacts
<1>2. /\ ~ops[n].settled /\ ops[n].phase \notin {"announcing", "answered"} /\ ~ops[n].finishing
      /\ UNCHANGED <<operation, operationSeq, waiting, disposed>> /\ state' = "error"
  BY DEF OperationTimesOut, TimerFires, MoveTo, Settled, HandlersRan, InSync, Sync
<1>3. Released(n)
  BY DEF OperationTimesOut
<1>4. operation = n
  BY <1>1, <1>2 DEF OperationInv
<1> DEFINE op == [ops[n] EXCEPT !.timer = FALSE, !.finishing = TRUE]
<1>5. /\ op \in Operation /\ op.kind = ops[n].kind /\ op.phase = ops[n].phase
      /\ op.finishing /\ ~op.settled
  BY <1>1, <1>2 DEF Operation
<1>6. ops' = [ops EXCEPT ![n] = op]
  BY <1>1, <1>2 DEF OperationTimesOut, TimerFires
<1> HIDE DEF op
<1>7. ops'[n] = op
  BY <1>6 DEF LifecycleInv, TypeOK
<1>8. PICK call : call = IF calls[n] = "waiting" THEN "cancelled" ELSE calls[n]
  OBVIOUS
<1>9. call \in CallStates /\ call # "waiting"
  BY <1>1, <1>8 DEF CallStates
<1>10. calls' = [calls EXCEPT ![n] = call]
  BY <1>1, <1>3, <1>8 DEF Released, Aborted
<1>11. calls'[n] = call
  BY <1>1, <1>10 DEF MockInv
<1>12. running' = FALSE /\ visible' = FALSE /\ intended' = intended
  BY <1>3, Stopped DEF Released, BackendFrame, MockInv
<1>13. CallInv(n)'
  BY <1>1, <1>2, <1>5, <1>7, <1>8, <1>9, <1>11, <1>12 DEF CallInv
<1>14. NothingWithoutBackend' /\ visible' \in BOOLEAN
  BY <1>2, <1>12 DEF NothingWithoutBackend
<1> QED BY <1>2, <1>4, <1>5, <1>6, <1>9, <1>10, <1>12, <1>13, <1>14, OneCallMoves

LEMMA ContinuationKeepsMock == ASSUME LifecycleInv, MockInv, NEW n \in Begun, Continues(n) PROVE MockInv'
<1>1. ops[n] \in Operation /\ OperationInv(n) /\ CallInv(n) /\ n # 0 /\ n \in 1 .. MaxOps /\ calls[n] \in CallStates
  BY MockFacts
<1>2. UNCHANGED <<calls, running, visible, intended>>
  BY DEF Continues, Untouched, heldVars, BackendFrame
<1>3. state' = state /\ UNCHANGED <<operationSeq, waiting, disposed>>
  BY DEF Continues, FinishFailed, Settle, SnapshotUnchanged
<1>4. calls' = [calls EXCEPT ![n] = calls[n]]
  BY <1>2 DEF MockInv
<1>5. NothingWithoutBackend' /\ visible' \in BOOLEAN
  BY <1>2, <1>3 DEF MockInv, NothingWithoutBackend
<1>6. ASSUME NEW op \in Operation, ops' = [ops EXCEPT ![n] = op], op.kind = ops[n].kind,
             operation' \in {operation, IF operation = n THEN 0 ELSE operation},
             op.phase # "announcing", ~op.finishing,
             \/ ops[n].phase = "answered" /\ op.phase = "over"
             \/ ops[n].finishing /\ op.phase = ops[n].phase /\ op.settled
      PROVE  MockInv'
  <2>1. ops'[n] = op
    BY <1>6 DEF LifecycleInv, TypeOK
  <2>2. CallInv(n)'
    BY <1>1, <1>2, <1>6, <2>1 DEF CallInv, IsLive
  <2>3. op.settled => ops[n].settled \/ ops[n].kind = "start" \/ ~running'
    BY <1>1, <1>2, <1>6 DEF CallInv, Operation, Kinds
  <2>4. running' = running
    BY <1>2
  <2> QED BY <1>1, <1>2, <1>3, <1>4, <1>5, <1>6, <2>2, <2>3, <2>4, OneCallMoves
<1>7. ASSUME FinishFailed(n) PROVE MockInv'
  <2> DEFINE un == [ops[n] EXCEPT !.finishing = FALSE]
  <2> DEFINE op == Cleared(Resolve(un, "failed"))
  <2>1. un \in Operation /\ un.kind = ops[n].kind /\ un.phase = ops[n].phase /\ ~un.finishing
    BY <1>1 DEF Operation
  <2>2. ops[n].finishing /\ Finish(n, un, "failed") /\ "failed" \in Results
    BY <1>7 DEF FinishFailed, Results
  <2>3. ops' = [ops EXCEPT ![n] = op] /\ operation' = IF operation = n THEN 0 ELSE operation
    BY <2>2 DEF Finish
  <2> HIDE DEF un
  <2>4. op \in Operation /\ op.settled /\ op.kind = un.kind /\ op.phase = un.phase /\ op.finishing = un.finishing
    BY <2>1, <2>2, ResolvedFacts
  <2>5. ops[n].phase # "announcing"
    BY <1>1, <2>2 DEF OperationInv
  <2> HIDE DEF op
  <2> QED BY <1>6, <2>1, <2>2, <2>3, <2>4, <2>5
<1>8. ASSUME Settle(n) PROVE MockInv'
  <2> DEFINE over == [ops[n] EXCEPT !.phase = "over"]
  <2>1. ops[n].phase = "answered" /\ ~ops[n].finishing
    BY <1>1, <1>8 DEF Settle, OperationInv
  <2>2. over \in Operation /\ over.kind = ops[n].kind /\ over.phase = "over" /\ ~over.finishing
    BY <1>1, <2>1 DEF Operation
  <2>3. \/ ops' = [ops EXCEPT ![n] = over] /\ operation' = operation
        \/ \E r \in Results :
             \/ ops' = [ops EXCEPT ![n] = Resolve(over, r)] /\ operation' = operation
             \/ /\ ops' = [ops EXCEPT ![n] = Cleared(Resolve(over, r))]
                /\ operation' = IF operation = n THEN 0 ELSE operation
    <3>1. ops[n].verdict \in Results /\ "cancelled" \in Results
      BY <1>1, <2>1 DEF OperationInv, Operation, Results
    <3> QED BY <1>8, <3>1 DEF Settle, Finish
  <2> HIDE DEF over
  <2>4. CASE ops' = [ops EXCEPT ![n] = over] /\ operation' = operation
    BY <1>6, <2>1, <2>2, <2>4
  <2>5. ASSUME NEW r \in Results, NEW op, op \in {Resolve(over, r), Cleared(Resolve(over, r))},
               ops' = [ops EXCEPT ![n] = op],
               operation' \in {operation, IF operation = n THEN 0 ELSE operation}
        PROVE  MockInv'
    <3>1. op \in Operation /\ op.kind = over.kind /\ op.phase = over.phase /\ op.finishing = over.finishing
      BY <2>2, <2>5, ResolvedFacts
    <3> QED BY <1>6, <2>1, <2>2, <2>5, <3>1
  <2> QED BY <2>3, <2>4, <2>5
<1> QED BY <1>7, <1>8 DEF Continues

LEMMA OthersKeepMock ==
  ASSUME LifecycleInv, MockInv,
         \/ \E n \in DOMAIN attempts : InjectHeard(n) \/ InjectTimerFires(n)
         \/ \E outcome \in Target!Outcomes : InjectEnds(outcome)
         \/ \E next \in BOOLEAN : Switch(next)
         \/ DisconnectHeard \/ TargetReleased \/ Closed
         \/ TargetAsks \/ CancelClicked \/ DisconnectClicked
         \/ ShutdownBegins \/ Executes
  PROVE  MockInv'
<1>1. calls \in [1 .. MaxOps -> CallStates] /\ visible \in BOOLEAN /\ intended \in BOOLEAN /\ (visible => running)
  BY DEF MockInv, NothingWithoutBackend
<1>2. ASSUME UNCHANGED <<backendVars, mockVars, visible>> PROVE MockInv'
  BY <1>1, <1>2, StandingStill DEF mockVars
<1>3. ASSUME NEW next \in BOOLEAN, Switch(next) PROVE MockInv'
  <2>1. UNCHANGED <<backendVars, running, calls>> /\ intended' = next
    BY <1>3 DEF Switch
  <2>2. visible' \in BOOLEAN /\ (visible' => running)
    BY <1>1, <1>3 DEF Switch, SetVisible, heldVars
  <2> QED BY <1>1, <2>1, <2>2, StandingStill
<1>4. ASSUME Closed PROVE MockInv'
  <2>1. UNCHANGED <<backendVars, running, intended, visible>>
    BY <1>4 DEF Closed
  <2>2. calls' = [n \in 1 .. MaxOps |-> IF calls[n] = "closing" THEN "stopped" ELSE calls[n]]
    BY <1>4 DEF Closed
  <2>3. calls' \in [1 .. MaxOps -> CallStates]
    BY <1>1, <2>2 DEF CallStates
  <2>4. \A n \in 1 .. MaxOps : calls'[n] = calls[n] \/ (calls[n] = "closing" /\ calls'[n] = "stopped")
    BY <2>2
  <2> QED BY <1>1, <2>1, <2>3, <2>4, StandingStill
<1>5. ASSUME \/ \E n \in DOMAIN attempts : InjectHeard(n) \/ InjectTimerFires(n)
             \/ \E outcome \in Target!Outcomes : InjectEnds(outcome)
             \/ DisconnectHeard \/ TargetAsks \/ CancelClicked \/ DisconnectClicked
      PROVE  UNCHANGED <<backendVars, mockVars, visible>>
  BY <1>5 DEF InjectHeard, InjectTimerFires, InjectEnds, DisconnectHeard, TargetAsks, CancelClicked,
              DisconnectClicked, TargetFrame, heldVars, ProviderDisconnect
<1>6. ASSUME TargetReleased \/ ShutdownBegins \/ Executes
      PROVE  UNCHANGED <<backendVars, mockVars, visible>>
  BY <1>6 DEF TargetReleased, ShutdownBegins, Executes, heldVars, ProviderDisconnect
<1> QED BY <1>2, <1>3, <1>4, <1>5, <1>6

LEMMA MockInvStart == NovaInit => LifecycleInv /\ MockInv
<1> SUFFICES ASSUME NovaInit PROVE LifecycleInv /\ MockInv
  OBVIOUS
<1>1. LifecycleInv
  BY NovaStartsTheBackend
<1>2. Begun = {}
  BY DEF NovaInit, Init, Begun
<1>3. waiting[closer].what = "nothing"
  BY TheCallers DEF NovaInit, Init, Nothing
<1>4. calls \in [1 .. MaxOps -> CallStates] /\ \A n \in 1 .. MaxOps : calls[n] = "none"
  BY DEF NovaInit, CallStates
<1>5. running = FALSE /\ visible = FALSE /\ intended = TRUE /\ state = "created"
  BY DEF NovaInit, Init
<1> QED BY <1>1, <1>2, <1>3, <1>4, <1>5 DEF MockInv, CloserInv, NothingWithoutBackend

LEMMA MockInvStep == LifecycleInv /\ MockInv /\ [NovaNext]_novaVars => LifecycleInv' /\ MockInv'
<1> SUFFICES ASSUME LifecycleInv, MockInv, [NovaNext]_novaVars PROVE MockInv'
  BY NovaKeepsTheBackend
<1>1. CASE UNCHANGED novaVars
  <2>1. UNCHANGED <<backendVars, mockVars, visible>>
    BY <1>1 DEF novaVars, heldVars
  <2>2. calls \in [1 .. MaxOps -> CallStates] /\ visible \in BOOLEAN /\ intended \in BOOLEAN /\ (visible => running)
    BY DEF MockInv, NothingWithoutBackend
  <2> QED BY <2>1, <2>2, StandingStill DEF mockVars
<1>2. CASE NovaNext
  <2>1. ASSUME NEW n \in Begun, CallBackend(n) \/ AnswerHeard(n) \/ Continues(n) PROVE MockInv'
    BY <2>1, CallKeepsMock, AnswerKeepsMock, ContinuationKeepsMock
  <2>2. ASSUME NEW n \in Begun, MockStarts(n) \/ OperationTimesOut(n) PROVE MockInv'
    BY <2>2, StartTimer, TimeoutKeepsMock
  <2>3. ASSUME NEW c \in {launcher, panel}, CallerGoesOn(c) PROVE MockInv'
    BY <2>3, CallerKeepsMock
  <2>4. CASE BackendStopAsked \/ BackendDisposed
    BY <2>4, CloserKeepsMock, DisposalKeepsMock
  <2>5. CASE Click
    BY <2>5, ClickKeepsMock
  <2> QED BY <1>2, <2>1, <2>2, <2>3, <2>4, <2>5, OthersKeepMock DEF NovaNext, Microtasks, Timers, Clicks
<1> QED BY <1>1, <1>2

(* "Backend not running, target visible" cannot be reached, the mock runs  *)
(* only while the controller starts it, has it ready or stops it, and a    *)
(* controller that says "ready" has it running, whichever calls are given  *)
(* up, time out or answer late (LocalMockDeveloperBackend.ts).             *)
THEOREM NothingShowsWithoutTheBackend == NovaSpec => []NothingWithoutBackend
<1>1. MockInv => NothingWithoutBackend
  BY DEF MockInv
<1> QED BY <1>1, MockInvStart, MockInvStep, PTL DEF NovaSpec

-----------------------------------------------------------------------------
(* The target controller over the simulated target: what is proved of it   *)
(* under any provider holds here.                                          *)

Proved == INSTANCE TargetControllerProofs

LEMMA SameTarget == [Target!TargetNext]_(Target!targetVars) => [Proved!TargetNext]_(Proved!targetVars)
<1> USE DEF Target!attemptVars, Proved!attemptVars, Target!passVars, Proved!passVars
<1>1. Target!BeginAttempt <=> Proved!BeginAttempt
  BY DEF Target!BeginAttempt, Proved!BeginAttempt
<1>2. \A n, outcome : Target!Ended(n, outcome) <=> Proved!Ended(n, outcome)
  BY DEF Target!Ended, Proved!Ended
<1>3. \A n, outcome, holding : Target!InjectAnswered(n, outcome, holding) <=> Proved!InjectAnswered(n, outcome, holding)
  BY DEF Target!InjectAnswered, Proved!InjectAnswered, Target!StatusOf, Proved!StatusOf
<1>4. \A n, holding : Target!InjectTimesOut(n, holding) <=> Proved!InjectTimesOut(n, holding)
  BY <1>2 DEF Target!InjectTimesOut, Proved!InjectTimesOut, Target!Finish, Proved!Finish,
              Target!StatusOf, Proved!StatusOf
<1>5. Target!TargetGone <=> Proved!TargetGone
  BY <1>2 DEF Target!TargetGone, Proved!TargetGone, Target!LoseTarget, Proved!LoseTarget
<1>6. \A detection : Target!TargetFound(detection) <=> Proved!TargetFound(detection)
  BY <1>1 DEF Target!TargetFound, Proved!TargetFound
<1>7. \A detection, source : Target!ApplyDetection(detection, source) <=> Proved!ApplyDetection(detection, source)
  BY <1>5, <1>6 DEF Target!ApplyDetection, Proved!ApplyDetection, Target!LeftAlone, Proved!LeftAlone
<1>8. Target!BeginPass <=> Proved!BeginPass
  BY DEF Target!BeginPass, Proved!BeginPass
<1>9. Target!UserAsks <=> Proved!UserAsks
  BY <1>1, <1>8
     DEF Target!UserAsks, Proved!UserAsks, Target!Inject, Proved!Inject, Target!Injectable, Proved!Injectable,
         Target!CancelInject, Proved!CancelInject, Target!InjectCancellable, Proved!InjectCancellable,
         Target!Disconnect, Proved!Disconnect, Target!Dismiss, Proved!Dismiss, Target!Rest, Proved!Rest,
         Target!Detect, Proved!Detect, Target!StartTarget, Proved!StartTarget,
         Target!DisposeTarget, Proved!DisposeTarget
<1>10. Target!ProviderAnswers <=> Proved!ProviderAnswers
  BY <1>3, <1>7
     DEF Target!ProviderAnswers, Proved!ProviderAnswers, Target!PassAnswered, Proved!PassAnswered,
         Target!PassFails, Proved!PassFails, Target!Disconnected, Proved!Disconnected, Target!Rest, Proved!Rest,
         Target!Announce, Proved!Announce, Target!Outcomes, Proved!Outcomes,
         Target!Detections, Proved!Detections
<1>11. Target!TimerEnds <=> Proved!TimerEnds
  BY <1>4 DEF Target!TimerEnds, Proved!TimerEnds
<1> QED
  BY <1>9, <1>10, <1>11 DEF Target!TargetNext, Proved!TargetNext, Target!targetVars, Proved!targetVars

PipelineInv == Proved!StepInv /\ Proved!PanelInv

LEMMA TargetMoves ==
  ASSUME PipelineInv, Target!TargetNext \/ UNCHANGED targetVars
  PROVE  PipelineInv'
<1>1. [Target!TargetNext]_(Target!targetVars)
  BY DEF targetVars, Target!targetVars, Target!attemptVars, Target!passVars
<1>2. [Proved!TargetNext]_(Proved!targetVars)
  BY <1>1, SameTarget
<1> QED BY <1>2, Proved!TargetStepInv, Proved!PanelStep, BoundsAssumption DEF PipelineInv

LEMMA PipelineFacts ==
  ASSUME PipelineInv
  PROVE  /\ attempts \in Seq(Target!Attempt) /\ Len(attempts) \in Nat /\ Len(attempts) <= MaxAttempts
         /\ DOMAIN attempts = 1 .. Len(attempts)
         /\ attempt \in 0 .. Len(attempts) /\ (attempt # 0 => attempt \in 1 .. MaxAttempts)
         /\ status \in Target!Statuses /\ session \in BOOLEAN /\ targetDisposed \in BOOLEAN
         /\ attempt # 0 => /\ status = "injecting"
                           /\ ~attempts[attempt].settled /\ attempts[attempt].timer
         /\ status = "injecting" /\ ~targetDisposed => attempt # 0
         /\ \A n \in DOMAIN attempts : n # attempt => attempts[n].settled /\ ~attempts[n].timer
         /\ known = "gone" => status \in {"unavailable", "disconnecting"}
         /\ leaving <=> status = "disconnecting"
<1>1. /\ attempts \in Seq(Target!Attempt) /\ Len(attempts) <= MaxAttempts /\ attempt \in 0 .. Len(attempts)
      /\ status \in Target!Statuses /\ session \in BOOLEAN /\ targetDisposed \in BOOLEAN
  BY DEF PipelineInv, Proved!StepInv, Proved!AttemptsInv, Proved!Attempt, Target!Attempt,
         Proved!Outcomes, Target!Outcomes, Proved!Statuses, Target!Statuses
<1>2. Len(attempts) \in Nat /\ DOMAIN attempts = 1 .. Len(attempts)
  BY <1>1
<1>3. attempt # 0 => attempt \in 1 .. MaxAttempts
  BY <1>1, <1>2, BoundsAssumption
<1>4. /\ attempt # 0 => /\ status = "injecting"
                        /\ ~attempts[attempt].settled /\ attempts[attempt].timer
      /\ status = "injecting" /\ ~targetDisposed => attempt # 0
      /\ \A n \in DOMAIN attempts : n # attempt => attempts[n].settled /\ ~attempts[n].timer
  BY DEF PipelineInv, Proved!StepInv, Proved!AttemptsInv, Proved!InjectingIsOwned, Proved!NoAttemptIsForgotten
<1>5. /\ known = "gone" => status \in {"unavailable", "disconnecting"}
      /\ leaving <=> status = "disconnecting"
  BY DEF PipelineInv, Proved!StepInv, Proved!RestInv, Proved!GoneIsNotShown, Proved!PanelInv
<1> QED BY <1>1, <1>2, <1>3, <1>4, <1>5

(* What a detection finds is what the target controller is told: gone, or  *)
(* usable, which may begin an attempt.                                     *)
LEMMA Learned ==
  ASSUME PipelineInv, status # "detected", NEW detection \in {"gone", "usable"}, NEW source,
         Target!ApplyDetection(detection, source)
  PROVE  /\ known' = detection
         /\ status' # "detected"
         /\ detection = "gone" => /\ session' = FALSE /\ attempt' = 0 /\ Len(attempts') = Len(attempts)
                                  /\ status' \in {"unavailable", "disconnecting"}
         /\ detection = "usable" =>
              /\ session' = session
              /\ \/ UNCHANGED <<attempt, attempts>> /\ (status' = status \/ (status = "unavailable" /\ status' = "ready"))
                 \/ /\ status = "unavailable" /\ status' = "injecting"
                    /\ attempt' = Len(attempts') /\ Len(attempts') = Len(attempts) + 1
                    /\ Len(attempts') <= MaxAttempts
<1>1. known' = detection
  BY DEF Target!ApplyDetection
<1>2. CASE detection = "gone"
  <2>1. Target!TargetGone
    BY <1>2 DEF Target!ApplyDetection, Target!TargetFound
  <2>2. session' = FALSE /\ status' \in {"unavailable", "disconnecting"}
    BY <2>1 DEF Target!TargetGone, Target!LoseTarget
  <2>3. CASE attempt = 0
    <3>1. UNCHANGED <<attempt, attempts>>
      BY <2>1, <2>3 DEF Target!TargetGone, Target!LoseTarget, Target!attemptVars
    <3> QED BY <1>1, <1>2, <2>2, <2>3, <3>1
  <2>4. CASE attempt # 0
    <3>1. status = "injecting" /\ attempt \in DOMAIN attempts /\ attempts \in Seq(Target!Attempt)
      BY <2>4, PipelineFacts
    <3>2. Target!Ended(attempt, "failed")
      BY <2>1, <2>4, <3>1 DEF Target!TargetGone, Target!LoseTarget
    <3>3. attempt' = 0 /\ Len(attempts') = Len(attempts)
      BY <3>1, <3>2 DEF Target!Ended
    <3> QED BY <1>1, <1>2, <2>2, <3>3
  <2> QED BY <2>3, <2>4
<1>3. CASE detection = "usable"
  <2>1. CASE Target!LeftAlone
    BY <1>1, <1>3, <2>1 DEF Target!LeftAlone, Target!attemptVars
  <2>2. CASE status = "unavailable" /\ Target!TargetFound("usable")
    <3>1. CASE Target!BeginAttempt
      <4>1. attempts \in Seq(Target!Attempt) /\ Len(attempts) \in Nat
        BY PipelineFacts
      <4>2. Len(attempts') = Len(attempts) + 1
        BY <3>1, <4>1 DEF Target!BeginAttempt
      <4>3. attempt' = Len(attempts') /\ status' = "injecting" /\ Len(attempts') <= MaxAttempts
        BY <3>1, <4>1, <4>2, BoundsAssumption DEF Target!BeginAttempt
      <4>4. session' = session
        BY <2>2 DEF Target!TargetFound
      <4> QED BY <1>1, <1>3, <2>2, <4>2, <4>3, <4>4
    <3>2. CASE ~Target!BeginAttempt
      BY <1>1, <1>3, <2>2, <3>2 DEF Target!TargetFound, Target!attemptVars
    <3> QED BY <3>1, <3>2
  <2> QED BY <1>3, <2>1, <2>2 DEF Target!ApplyDetection
<1> QED BY <1>2, <1>3

(* The provider and the controller: an attempt waited for is pending with  *)
(* the provider, or has been answered and is about to be heard; what is    *)
(* held or known to be there is visible.                                   *)
ProviderInv ==
    /\ held \in BOOLEAN /\ closing \in BOOLEAN
    /\ said \in [1 .. MaxAttempts -> Target!Outcomes \cup {"none"}]
    /\ pendingInject # 0 => pendingInject = attempt /\ said[attempt] = "none" /\ visible
    /\ attempt # 0 => pendingInject = attempt \/ said[attempt] # "none"
    /\ \A n \in 1 .. MaxAttempts : n > Len(attempts) => said[n] = "none"
    /\ status # "detected"
    /\ held => visible
    /\ known # "gone" => visible \/ targetDisposed

(* The session the controller shows is the one the provider holds, but for *)
(* an answer and for the end of a disconnect that are about to be heard.   *)
SessionInv ==
    ~targetDisposed =>
       /\ closing => leaving
       /\ session => status \in {"injected", "disconnecting"}
       /\ status = "injected" => session
       /\ session => held \/ (leaving /\ ~closing)
       /\ held => session \/ (attempt # 0 /\ said[attempt] = "injected")
       /\ leaving /\ ~closing => ~held
       /\ attempt # 0 /\ said[attempt] = "injected" => held

LEMMA ProviderStays ==
  ASSUME ProviderInv, SessionInv, UNCHANGED <<targetVars, heldVars, closing>>
  PROVE  ProviderInv' /\ SessionInv'
BY DEF ProviderInv, SessionInv, targetVars, heldVars

LEMMA InjectEnded ==
  ASSUME PipelineInv, ProviderInv, NEW outcome \in Target!Outcomes, EndInject(outcome)
  PROVE  /\ pendingInject' = 0
         /\ said' \in [1 .. MaxAttempts -> Target!Outcomes \cup {"none"}]
         /\ \A n \in 1 .. MaxAttempts : said'[n] = IF n = pendingInject THEN outcome ELSE said[n]
<1>1. pendingInject # 0 => pendingInject \in 1 .. MaxAttempts
  BY PipelineFacts DEF ProviderInv
<1> QED BY <1>1 DEF ProviderInv, EndInject

(* The target appears or vanishes.                                         *)
LEMMA VisibleKeeps ==
  ASSUME PipelineInv, ProviderInv, SessionInv, visible \in BOOLEAN, NEW next \in BOOLEAN,
         SetVisible(next), closing' = closing
  PROVE  PipelineInv' /\ ProviderInv' /\ SessionInv'
<1>1. visible' = next
  BY DEF SetVisible
<1>2. CASE next = visible
  <2>1. UNCHANGED targetVars
    BY <1>2 DEF SetVisible
  <2>2. UNCHANGED heldVars
    <3>1. Len(attempts') = Len(attempts)
      BY <2>1 DEF targetVars
    <3>2. held' = held /\ UNCHANGED <<pendingInject, said>>
      BY <1>2, <3>1 DEF SetVisible, ProviderInject, ProviderInv
    <3> QED BY <1>1, <1>2, <3>2 DEF heldVars
  <2> QED BY <2>1, <2>2, TargetMoves, ProviderStays
<1>3. CASE next # visible /\ targetDisposed
  <2>1. UNCHANGED targetVars /\ targetDisposed' /\ Len(attempts') = Len(attempts)
        /\ UNCHANGED <<attempt, attempts, status, known>>
    BY <1>3 DEF SetVisible, targetVars
  <2>2. CASE next
    <3>1. UNCHANGED <<pendingInject, said, held>>
      BY <1>3, <2>1, <2>2 DEF SetVisible, ProviderInject, ProviderInv
    <3>2. ProviderInv'
      BY <1>1, <2>1, <2>2, <3>1 DEF ProviderInv
    <3> QED BY <2>1, <3>2, TargetMoves DEF SessionInv
  <2>3. CASE ~next
    <3>1. EndInject("failed") /\ held' = FALSE /\ "failed" \in Target!Outcomes
      BY <1>3, <2>3 DEF SetVisible, ProviderInv, Target!Outcomes
    <3>2. /\ pendingInject' = 0
          /\ said' \in [1 .. MaxAttempts -> Target!Outcomes \cup {"none"}]
          /\ \A n \in 1 .. MaxAttempts : said'[n] = IF n = pendingInject THEN "failed" ELSE said[n]
      BY <3>1, InjectEnded
    <3>3. attempt # 0 => attempt \in 1 .. MaxAttempts
      BY PipelineFacts
    <3>4. pendingInject # 0 => ~(pendingInject > Len(attempts))
      BY PipelineFacts DEF ProviderInv
    <3>5. attempt' # 0 => said'[attempt'] # "none"
      BY <2>1, <3>2, <3>3 DEF ProviderInv
    <3>6. \A n \in 1 .. MaxAttempts : n > Len(attempts') => said'[n] = "none"
      BY <2>1, <3>2, <3>4 DEF ProviderInv
    <3>7. ProviderInv'
      BY <2>1, <3>1, <3>2, <3>5, <3>6 DEF ProviderInv
    <3> QED BY <2>1, <3>7, TargetMoves DEF SessionInv
  <2> QED BY <2>2, <2>3
<1>4. CASE next # visible /\ ~targetDisposed /\ ~next
  <2>1. Target!Announce("gone") /\ EndInject("failed") /\ held' = FALSE
        /\ "failed" \in Target!Outcomes /\ "gone" \in Target!Detections
    BY <1>4 DEF SetVisible, ProviderInv, Target!Outcomes, Target!Detections
  <2>2. PipelineInv'
    BY <2>1, TargetMoves DEF Target!TargetNext, Target!ProviderAnswers
  <2>3. Target!ApplyDetection("gone", "announcement") /\ leaving' = leaving /\ targetDisposed' = targetDisposed
    BY <2>1 DEF Target!Announce
  <2>4. /\ known' = "gone" /\ status' \in {"unavailable", "disconnecting"} /\ status' # "detected"
        /\ session' = FALSE /\ attempt' = 0 /\ Len(attempts') = Len(attempts)
    BY <2>3, Learned DEF ProviderInv
  <2>5. /\ pendingInject' = 0
        /\ said' \in [1 .. MaxAttempts -> Target!Outcomes \cup {"none"}]
        /\ \A n \in 1 .. MaxAttempts : said'[n] = IF n = pendingInject THEN "failed" ELSE said[n]
    BY <2>1, InjectEnded
  <2>6. pendingInject # 0 => ~(pendingInject > Len(attempts))
    BY PipelineFacts DEF ProviderInv
  <2>7. \A n \in 1 .. MaxAttempts : n > Len(attempts') => said'[n] = "none"
    BY <2>4, <2>5, <2>6 DEF ProviderInv
  <2>8. ProviderInv'
    BY <2>1, <2>4, <2>5, <2>7 DEF ProviderInv
  <2>9. SessionInv'
    BY <2>1, <2>3, <2>4, <1>4 DEF SessionInv
  <2> QED BY <2>2, <2>8, <2>9
<1>5. CASE next # visible /\ ~targetDisposed /\ next
  <2>1. Target!Announce("usable") /\ ProviderInject /\ "usable" \in Target!Detections
    BY <1>5 DEF SetVisible, Target!Detections
  <2>2. PipelineInv'
    BY <2>1, TargetMoves DEF Target!TargetNext, Target!ProviderAnswers
  <2>3. Target!ApplyDetection("usable", "announcement") /\ leaving' = leaving /\ targetDisposed' = targetDisposed
    BY <2>1 DEF Target!Announce
  <2>4. ~held /\ pendingInject = 0 /\ status \in {"unavailable", "disconnecting"} /\ attempt = 0
    BY <1>5, PipelineFacts DEF ProviderInv
  <2>5. held' = FALSE
    BY <2>4 DEF SetVisible
  <2>7. known' = "usable" /\ status' # "detected" /\ session' = session
    BY <2>3, Learned DEF ProviderInv
  <2>8. \/ UNCHANGED <<attempt, attempts>> /\ (status' = status \/ (status = "unavailable" /\ status' = "ready"))
        \/ /\ status = "unavailable" /\ status' = "injecting"
           /\ attempt' = Len(attempts') /\ Len(attempts') = Len(attempts) + 1 /\ Len(attempts') <= MaxAttempts
    BY <2>3, Learned DEF ProviderInv
  <2>9. CASE UNCHANGED <<attempt, attempts>> /\ (status' = status \/ (status = "unavailable" /\ status' = "ready"))
    <3>1. UNCHANGED <<pendingInject, said>>
      BY <2>1, <2>9 DEF ProviderInject
    <3>2. ProviderInv'
      BY <1>1, <1>5, <2>4, <2>5, <2>7, <2>9, <3>1 DEF ProviderInv
    <3>3. SessionInv'
      BY <1>5, <2>3, <2>4, <2>5, <2>7, <2>9, <3>1 DEF SessionInv
    <3> QED BY <2>2, <3>2, <3>3
  <2>10. CASE /\ status = "unavailable" /\ status' = "injecting"
              /\ attempt' = Len(attempts') /\ Len(attempts') = Len(attempts) + 1 /\ Len(attempts') <= MaxAttempts
    <3>1. Len(attempts) \in Nat
      BY PipelineFacts
    <3>2. pendingInject' = Len(attempts') /\ said' = said
      BY <1>1, <1>5, <2>1, <2>10, <3>1 DEF ProviderInject
    <3>3. said[Len(attempts) + 1] = "none" /\ Len(attempts) + 1 \in 1 .. MaxAttempts
      BY <2>10, <3>1, BoundsAssumption DEF ProviderInv
    <3>4. \A n \in 1 .. MaxAttempts : n > Len(attempts') => said'[n] = "none"
      BY <2>10, <3>1, <3>2 DEF ProviderInv
    <3>5. ProviderInv'
      BY <1>1, <1>5, <2>5, <2>7, <2>10, <3>2, <3>3, <3>4 DEF ProviderInv
    <3>7. ~leaving /\ ~closing /\ ~session
      BY <1>5, <2>4, <2>10, PipelineFacts DEF SessionInv
    <3>8. SessionInv'
      BY <2>3, <2>5, <2>7, <2>10, <3>2, <3>3, <3>7 DEF SessionInv
    <3> QED BY <2>2, <3>5, <3>8
  <2> QED BY <2>8, <2>9, <2>10
<1> QED BY <1>2, <1>3, <1>4, <1>5

LEMMA StopKeepsSession ==
  ASSUME PipelineInv, ProviderInv, SessionInv, visible \in BOOLEAN, MockStop, closing' = closing
  PROVE  PipelineInv' /\ ProviderInv' /\ SessionInv'
<1>1. CASE running
  BY <1>1, VisibleKeeps DEF MockStop
<1>2. CASE ~running
  BY <1>2, TargetMoves, ProviderStays DEF MockStop
<1> QED BY <1>1, <1>2

(* Steps that only show a finished request's rest or count a pass.         *)
LEMMA StatusRests ==
  ASSUME PipelineInv, ProviderInv, SessionInv, UNCHANGED <<heldVars, closing>>,
         UNCHANGED <<session, known, attempt, attempts, leaving, targetDisposed>>,
         \/ status' = status
         \/ status \in {"error", "cancelled"} /\ status' \in {"ready", "unavailable"}
  PROVE  ProviderInv' /\ SessionInv'
<1>1. ProviderInv'
  BY DEF ProviderInv, heldVars
<1>2. attempt = 0 \/ status' = status
  BY PipelineFacts
<1>3. SessionInv'
  BY DEF SessionInv, heldVars
<1> QED BY <1>1, <1>3

(* A new attempt goes to the provider, which takes it or fails it at once. *)
LEMMA AttemptBegins ==
  ASSUME PipelineInv, ProviderInv, SessionInv, status \in {"ready", "error", "cancelled", "unavailable"},
         attempt' = Len(attempts'), Len(attempts') = Len(attempts) + 1, Len(attempts') <= MaxAttempts,
         status' = "injecting", ProviderInject,
         UNCHANGED <<visible, held, closing, session, leaving, targetDisposed>>,
         known' # "gone" => visible \/ targetDisposed
  PROVE  ProviderInv' /\ SessionInv'
<1>1. Len(attempts) \in Nat /\ attempt = 0 /\ pendingInject = 0
  BY PipelineFacts DEF ProviderInv
<1> DEFINE n == Len(attempts) + 1
<1>2. n \in 1 .. MaxAttempts /\ said[n] = "none" /\ n # 0 /\ n = Len(attempts')
  BY <1>1, BoundsAssumption DEF ProviderInv
<1>3. IF visible THEN pendingInject' = n /\ said' = said
                 ELSE pendingInject' = pendingInject /\ said' = [said EXCEPT ![n] = "failed"]
  BY <1>1, <1>2 DEF ProviderInject
<1>4. "failed" \in Target!Outcomes
  BY DEF Target!Outcomes
<1>5. /\ said' \in [1 .. MaxAttempts -> Target!Outcomes \cup {"none"}]
      /\ \A m \in 1 .. MaxAttempts : m # n => said'[m] = said[m]
      /\ said'[n] = IF visible THEN "none" ELSE "failed"
  BY <1>2, <1>3, <1>4 DEF ProviderInv
<1>6. \A m \in 1 .. MaxAttempts : m > Len(attempts') => said'[m] = "none"
  BY <1>1, <1>2, <1>5 DEF ProviderInv
<1> HIDE DEF n
<1>7. ProviderInv'
  BY <1>1, <1>2, <1>3, <1>5, <1>6 DEF ProviderInv
<1>8. ~targetDisposed => ~session /\ ~held /\ ~leaving /\ ~closing
  BY <1>1, PipelineFacts DEF SessionInv
<1>9. SessionInv'
  BY <1>2, <1>5, <1>8 DEF SessionInv
<1> QED BY <1>7, <1>9

LEMMA AsksKeepSession ==
  ASSUME PipelineInv, ProviderInv, SessionInv, visible \in BOOLEAN, TargetAsks
  PROVE  PipelineInv' /\ ProviderInv' /\ SessionInv'
<1> USE DEF Target!attemptVars, Target!passVars
<1>1. UNCHANGED <<visible, held, closing>> /\ ProviderInject
  BY DEF TargetAsks
<1>2. ASSUME Target!Inject PROVE PipelineInv' /\ ProviderInv' /\ SessionInv'
  <2>1. PipelineInv'
    BY <1>2, TargetMoves DEF Target!TargetNext, Target!UserAsks
  <2>2. /\ status \in {"ready", "error", "cancelled"} /\ status' = "injecting"
        /\ UNCHANGED <<session, known, leaving, targetDisposed>>
    BY <1>2 DEF Target!Inject, Target!Injectable, Target!BeginAttempt
  <2>3. attempts \in Seq(Target!Attempt) /\ Len(attempts) \in Nat
    BY PipelineFacts
  <2>4. Len(attempts') = Len(attempts) + 1
    BY <1>2, <2>3 DEF Target!Inject, Target!BeginAttempt
  <2>5. attempt' = Len(attempts') /\ Len(attempts') <= MaxAttempts
    BY <1>2, <2>3, <2>4, BoundsAssumption DEF Target!Inject, Target!BeginAttempt
  <2>6. known' # "gone" => visible \/ targetDisposed
    BY <2>2 DEF ProviderInv
  <2> QED BY <1>1, <2>1, <2>2, <2>4, <2>5, <2>6, AttemptBegins
<1>3. ASSUME UNCHANGED <<attempts, visible>> PROVE UNCHANGED <<pendingInject, said>>
  BY <1>1, <1>3 DEF ProviderInject
<1>4. ASSUME Target!Detect \/ Target!StartTarget \/ Target!Dismiss
      PROVE  PipelineInv' /\ ProviderInv' /\ SessionInv'
  <2>1. PipelineInv'
    BY <1>4, TargetMoves DEF Target!TargetNext, Target!UserAsks
  <2>2. /\ UNCHANGED <<session, known, attempt, attempts, leaving, targetDisposed>>
        /\ \/ status' = status
           \/ status \in {"error", "cancelled"} /\ status' \in {"ready", "unavailable"}
    BY <1>4 DEF Target!Detect, Target!StartTarget, Target!Dismiss, Target!Rest
  <2>3. UNCHANGED <<heldVars, closing>>
    BY <1>1, <1>3, <2>2 DEF heldVars
  <2> QED BY <2>1, <2>2, <2>3, StatusRests
<1>5. ASSUME NEW pass \in asked, PassEnds(pass) PROVE PipelineInv' /\ ProviderInv' /\ SessionInv'
  <2>1. PICK detection \in {"gone", "usable"} :
           Target!PassAnswered(pass, detection) /\ (detection = "usable" <=> visible)
    BY <1>5 DEF PassEnds
  <2>2. PipelineInv'
    <3>1. detection \in Target!Detections
      BY DEF Target!Detections
    <3> QED BY <2>1, <3>1, TargetMoves DEF Target!TargetNext, Target!ProviderAnswers
  <2>3. UNCHANGED <<leaving, targetDisposed>>
    BY <2>1 DEF Target!PassAnswered
  <2>4. CASE ~(pass = detectPass /\ ~targetDisposed)
    <3>1. UNCHANGED <<status, session, known, attempt, attempts, leaving, targetDisposed>>
      BY <2>1, <2>4 DEF Target!PassAnswered
    <3>2. UNCHANGED <<heldVars, closing>>
      BY <1>1, <1>3, <3>1 DEF heldVars
    <3> QED BY <2>2, <3>1, <3>2, StatusRests
  <2>5. CASE pass = detectPass /\ ~targetDisposed
    <3>1. Target!ApplyDetection(detection, "pass")
      BY <2>1, <2>5 DEF Target!PassAnswered
    <3>2. status # "detected"
      BY DEF ProviderInv
    <3>3. CASE detection = "gone"
      <4>1. ~held /\ pendingInject = 0 /\ status \in {"unavailable", "disconnecting"} /\ attempt = 0
        BY <2>1, <2>5, <3>3, PipelineFacts DEF ProviderInv
      <4>2. known' = "gone" /\ session' = FALSE /\ status' # "detected" /\ attempt' = 0
        BY <3>1, <3>2, <3>3, Learned
      <4>3. attempts' = attempts /\ status' = status
        BY <3>1, <3>3, <4>1 DEF Target!ApplyDetection, Target!TargetGone, Target!TargetFound
      <4>4. UNCHANGED <<pendingInject, said>>
        BY <1>1, <1>3, <4>3
      <4>5. ProviderInv'
        BY <1>1, <4>1, <4>2, <4>3, <4>4 DEF ProviderInv
      <4>6. SessionInv'
        BY <1>1, <2>3, <4>1, <4>2, <4>3, <4>4 DEF SessionInv
      <4> QED BY <2>2, <4>5, <4>6
    <3>4. CASE detection = "usable"
      <4>1. visible
        BY <2>1, <3>4
      <4>2. known' = "usable" /\ status' # "detected" /\ session' = session
        BY <3>1, <3>2, <3>4, Learned
      <4>3. CASE UNCHANGED <<attempt, attempts>> /\ (status' = status \/ (status = "unavailable" /\ status' = "ready"))
        <5>1. UNCHANGED <<pendingInject, said>>
          BY <1>1, <1>3, <4>3
        <5>2. ProviderInv'
          BY <1>1, <4>1, <4>2, <4>3, <5>1 DEF ProviderInv
        <5>3. SessionInv'
          BY <1>1, <2>3, <4>2, <4>3, <5>1 DEF SessionInv
        <5> QED BY <2>2, <5>2, <5>3
      <4>4. CASE /\ status = "unavailable" /\ status' = "injecting"
                 /\ attempt' = Len(attempts') /\ Len(attempts') = Len(attempts) + 1 /\ Len(attempts') <= MaxAttempts
        BY <1>1, <2>2, <2>3, <4>1, <4>2, <4>4, AttemptBegins
      <4> QED BY <3>1, <3>2, <3>4, <4>3, <4>4, Learned
    <3> QED BY <3>3, <3>4
  <2> QED BY <2>4, <2>5
<1> QED BY <1>2, <1>4, <1>5 DEF TargetAsks, InjectClicked, Detects

(* The user takes back an injection: the provider answers "cancelled".     *)
LEMMA CancelKeepsSession ==
  ASSUME PipelineInv, ProviderInv, SessionInv, Target!CancelInject, AbortInject(attempt),
         UNCHANGED <<visible, held, closing>>
  PROVE  PipelineInv' /\ ProviderInv' /\ SessionInv'
<1>1. PipelineInv'
  BY TargetMoves DEF Target!TargetNext, Target!UserAsks
<1>2. attempt # 0 /\ UNCHANGED <<attempt, status, session, known, leaving, targetDisposed>>
  BY DEF Target!CancelInject, Target!InjectCancellable
<1>3. attempts \in Seq(Target!Attempt) /\ attempt \in 1 .. MaxAttempts /\ attempt \in DOMAIN attempts
  BY <1>2, PipelineFacts
<1>4. Len(attempts') = Len(attempts)
  BY <1>3 DEF Target!CancelInject
<1>5. CASE attempt = pendingInject
  <2>1. EndInject("cancelled") /\ "cancelled" \in Target!Outcomes
    BY <1>2, <1>5 DEF AbortInject, Target!Outcomes
  <2>2. /\ pendingInject' = 0
        /\ said' \in [1 .. MaxAttempts -> Target!Outcomes \cup {"none"}]
        /\ \A n \in 1 .. MaxAttempts : said'[n] = IF n = pendingInject THEN "cancelled" ELSE said[n]
    BY <2>1, InjectEnded
  <2>3. said'[attempt] = "cancelled" /\ said[attempt] = "none"
    BY <1>2, <1>3, <1>5, <2>2 DEF ProviderInv
  <2>4. ~(attempt > Len(attempts))
    BY PipelineFacts
  <2>5. \A n \in 1 .. MaxAttempts : n > Len(attempts') => said'[n] = "none"
    BY <1>4, <1>5, <2>2, <2>4 DEF ProviderInv
  <2>6. ProviderInv'
    BY <1>2, <2>2, <2>3, <2>5 DEF ProviderInv
  <2>7. SessionInv'
    BY <1>2, <2>3 DEF SessionInv
  <2> QED BY <1>1, <2>6, <2>7
<1>6. CASE attempt # pendingInject
  <2>1. UNCHANGED <<pendingInject, said>>
    BY <1>6 DEF AbortInject
  <2> QED BY <1>1, <1>2, <1>4, <2>1 DEF ProviderInv, SessionInv
<1> QED BY <1>5, <1>6

LEMMA DisconnectKeepsSession ==
  ASSUME PipelineInv, ProviderInv, SessionInv, Target!Disconnect, ProviderDisconnect
  PROVE  PipelineInv' /\ ProviderInv' /\ SessionInv'
<1>1. PipelineInv'
  BY TargetMoves DEF Target!TargetNext, Target!UserAsks
<1>2. /\ status = "injected" /\ status' = "disconnecting" /\ leaving'
      /\ UNCHANGED <<attempt, attempts, session, known, targetDisposed>>
  BY DEF Target!Disconnect, Target!attemptVars
<1>3. attempt = 0 /\ pendingInject = 0 /\ ~leaving
  BY <1>2, PipelineFacts DEF ProviderInv
<1>4. UNCHANGED <<pendingInject, said, visible, held>> /\ closing' = (closing \/ held)
  BY <1>3 DEF ProviderDisconnect, EndInject
<1>5. ProviderInv'
  BY <1>2, <1>3, <1>4 DEF ProviderInv
<1>6. SessionInv'
  BY <1>2, <1>3, <1>4 DEF SessionInv
<1> QED BY <1>1, <1>5, <1>6

(* The provider ends an injection; an injected target is held from now on. *)
LEMMA EndKeepsSession ==
  ASSUME PipelineInv, ProviderInv, SessionInv, NEW outcome \in Target!Outcomes, InjectEnds(outcome)
  PROVE  PipelineInv' /\ ProviderInv' /\ SessionInv'
<1>1. /\ pendingInject # 0 /\ held' = (held \/ outcome = "injected") /\ EndInject(outcome)
      /\ UNCHANGED <<visible, closing, targetVars>>
  BY DEF InjectEnds
<1>2. PipelineInv'
  BY <1>1, TargetMoves
<1>3. /\ pendingInject' = 0
      /\ said' \in [1 .. MaxAttempts -> Target!Outcomes \cup {"none"}]
      /\ \A n \in 1 .. MaxAttempts : said'[n] = IF n = pendingInject THEN outcome ELSE said[n]
  BY <1>1, InjectEnded
<1>4. /\ attempt = pendingInject /\ said[attempt] = "none" /\ visible /\ status = "injecting"
      /\ attempt \in 1 .. MaxAttempts /\ ~(attempt > Len(attempts)) /\ ~leaving
  BY <1>1, PipelineFacts DEF ProviderInv
<1>5. said'[attempt] = outcome /\ outcome # "none"
  BY <1>3, <1>4 DEF Target!Outcomes
<1>6. UNCHANGED <<status, session, known, attempt, attempts, leaving, targetDisposed>>
  BY <1>1 DEF targetVars
<1>7. \A n \in 1 .. MaxAttempts : n > Len(attempts') => said'[n] = "none"
  BY <1>3, <1>4, <1>6 DEF ProviderInv
<1>8. ProviderInv'
  BY <1>1, <1>3, <1>4, <1>5, <1>6, <1>7 DEF ProviderInv
<1>9. SessionInv'
  BY <1>1, <1>4, <1>5, <1>6 DEF SessionInv
<1> QED BY <1>2, <1>8, <1>9

LEMMA HeardKeepsSession ==
  ASSUME PipelineInv, ProviderInv, SessionInv, NEW n \in DOMAIN attempts, InjectHeard(n)
  PROVE  PipelineInv' /\ ProviderInv' /\ SessionInv'
<1>1. /\ said[n] # "none" /\ Target!InjectAnswered(n, said[n], held) /\ said' = [said EXCEPT ![n] = "none"]
      /\ UNCHANGED <<visible, held, pendingInject, closing>>
  BY DEF InjectHeard
<1>2. n \in 1 .. MaxAttempts /\ attempts \in Seq(Target!Attempt)
  BY PipelineFacts, BoundsAssumption
<1>3. said[n] \in Target!Outcomes /\ held \in BOOLEAN
  BY <1>1, <1>2 DEF ProviderInv
<1>4. PipelineInv'
  BY <1>1, <1>3, TargetMoves DEF Target!TargetNext, Target!ProviderAnswers
<1>5. /\ said' \in [1 .. MaxAttempts -> Target!Outcomes \cup {"none"}]
      /\ \A m \in 1 .. MaxAttempts : said'[m] = IF m = n THEN "none" ELSE said[m]
  BY <1>1, <1>2 DEF ProviderInv
<1>6. UNCHANGED <<known, leaving, targetDisposed>>
  BY <1>1 DEF Target!InjectAnswered
<1>7. Len(attempts') = Len(attempts)
  BY <1>1, <1>2 DEF Target!InjectAnswered
<1>8. \A m \in 1 .. MaxAttempts : m > Len(attempts') => said'[m] = "none"
  BY <1>5, <1>7 DEF ProviderInv
<1>9. CASE attempts[n].settled
  <2>1. UNCHANGED <<attempt, status, session>>
    BY <1>1, <1>9 DEF Target!InjectAnswered
  <2>2. attempt # 0 => attempt # n /\ attempt \in 1 .. MaxAttempts
    BY <1>9, PipelineFacts
  <2>3. attempt # 0 => said'[attempt] = said[attempt]
    BY <1>5, <2>2
  <2>4. ProviderInv'
    BY <1>1, <1>5, <1>6, <1>8, <2>1, <2>3 DEF ProviderInv
  <2>5. SessionInv'
    BY <1>1, <1>6, <2>1, <2>3 DEF SessionInv
  <2> QED BY <1>4, <2>4, <2>5
<1>10. CASE ~attempts[n].settled
  <2>1. n = attempt /\ attempt # 0 /\ status = "injecting" /\ ~leaving
    BY <1>10, PipelineFacts
  <2>2. pendingInject = 0
    BY <1>1, <2>1 DEF ProviderInv
  <2>3. attempt' = 0 /\ status' = Target!StatusOf(said[n]) /\ session' = held
    BY <1>1, <1>10, <2>1 DEF Target!InjectAnswered
  <2>4. status' \in {"injected", "error", "cancelled"} /\ (status' = "injected" <=> said[n] = "injected")
    BY <1>3, <2>3 DEF Target!StatusOf, Target!Outcomes
  <2>5. ProviderInv'
    BY <1>1, <1>5, <1>6, <1>8, <2>2, <2>3, <2>4 DEF ProviderInv
  <2>6. ~targetDisposed => (held <=> said[n] = "injected") /\ ~closing
    BY <2>1 DEF SessionInv
  <2>7. SessionInv'
    BY <1>1, <1>6, <2>1, <2>3, <2>4, <2>6 DEF SessionInv
  <2> QED BY <1>4, <2>5, <2>7
<1> QED BY <1>9, <1>10

LEMMA TimerKeepsSession ==
  ASSUME PipelineInv, ProviderInv, SessionInv, NEW n \in DOMAIN attempts, InjectTimerFires(n)
  PROVE  PipelineInv' /\ ProviderInv' /\ SessionInv'
<1>1. Quiet /\ Target!InjectTimesOut(n, held) /\ ProviderDisconnect
  BY DEF InjectTimerFires
<1>2. PipelineInv'
  BY <1>1, TargetMoves DEF ProviderInv, Target!TargetNext, Target!TimerEnds
<1>3. n = attempt /\ status = "injecting" /\ ~leaving /\ attempt # 0 /\ attempt \in 1 .. MaxAttempts
      /\ attempts \in Seq(Target!Attempt) /\ ~(attempt > Len(attempts))
  <2>1. n = attempt /\ n # 0
    BY <1>1, PipelineFacts DEF Target!InjectTimesOut
  <2> QED BY <2>1, PipelineFacts
<1>4. /\ attempt' = 0 /\ status' = "error" /\ session' = held
      /\ UNCHANGED <<known, leaving, targetDisposed>>
  BY <1>1, <1>3 DEF Target!InjectTimesOut, Target!Finish, Target!Ended, Target!StatusOf
<1>5. Len(attempts') = Len(attempts)
  BY <1>1, <1>3 DEF Target!InjectTimesOut, Target!Finish, Target!Ended
<1>6. said[attempt] = "none"
  BY <1>1, <1>3 DEF Quiet
<1>7. pendingInject = attempt /\ visible
  BY <1>3, <1>6 DEF ProviderInv
<1>8. EndInject("cancelled") /\ closing' = (closing \/ held) /\ UNCHANGED <<visible, held>>
      /\ "cancelled" \in Target!Outcomes
  BY <1>1 DEF ProviderDisconnect, Target!Outcomes
<1>9. /\ pendingInject' = 0
      /\ said' \in [1 .. MaxAttempts -> Target!Outcomes \cup {"none"}]
      /\ \A m \in 1 .. MaxAttempts : said'[m] = IF m = pendingInject THEN "cancelled" ELSE said[m]
  BY <1>8, InjectEnded
<1>10. \A m \in 1 .. MaxAttempts : m > Len(attempts') => said'[m] = "none"
  BY <1>3, <1>5, <1>7, <1>9 DEF ProviderInv
<1>11. ~targetDisposed => ~held /\ ~closing
  BY <1>3, <1>6 DEF SessionInv
<1>12. closing' \in BOOLEAN
  BY <1>8 DEF ProviderInv
<1>13. ProviderInv'
  BY <1>4, <1>8, <1>9, <1>10, <1>12 DEF ProviderInv
<1>14. SessionInv'
  BY <1>3, <1>4, <1>8, <1>11 DEF SessionInv
<1> QED BY <1>2, <1>13, <1>14

LEMMA ClosedKeepsSession ==
  ASSUME PipelineInv, ProviderInv, SessionInv, Closed
  PROVE  PipelineInv' /\ ProviderInv' /\ SessionInv'
<1>1. /\ closing /\ closing' = FALSE /\ held' = FALSE
      /\ UNCHANGED <<visible, pendingInject, said, targetVars>>
  BY DEF Closed
<1>2. PipelineInv'
  BY <1>1, TargetMoves
<1>3. ProviderInv'
  BY <1>1 DEF ProviderInv, targetVars
<1>4. ~targetDisposed => leaving /\ attempt = 0
  BY <1>1, PipelineFacts DEF SessionInv
<1>5. SessionInv'
  BY <1>1, <1>4, PipelineFacts DEF SessionInv, targetVars
<1> QED BY <1>2, <1>3, <1>5

LEMMA DisconnectedKeepsSession ==
  ASSUME PipelineInv, ProviderInv, SessionInv, DisconnectHeard
  PROVE  PipelineInv' /\ ProviderInv' /\ SessionInv'
<1>1. ~closing /\ Target!Disconnected(held) /\ UNCHANGED <<heldVars, closing>>
  BY DEF DisconnectHeard
<1>2. PipelineInv'
  <2>1. held \in BOOLEAN
    BY DEF ProviderInv
  <2> QED BY <1>1, <2>1, TargetMoves DEF Target!TargetNext, Target!ProviderAnswers
<1>3. leaving /\ status = "disconnecting" /\ attempt = 0
  BY <1>1, PipelineFacts DEF Target!Disconnected
<1>4. /\ status' \in {"ready", "unavailable"} /\ session' = held /\ leaving' = FALSE
      /\ UNCHANGED <<known, attempt, attempts, targetDisposed>>
  BY <1>1, <1>3 DEF Target!Disconnected, Target!Rest, Target!attemptVars
<1>5. ProviderInv'
  BY <1>1, <1>4 DEF ProviderInv, heldVars
<1>6. SessionInv'
  BY <1>1, <1>3, <1>4 DEF SessionInv, heldVars
<1> QED BY <1>2, <1>5, <1>6

LEMMA ReleaseKeepsSession ==
  ASSUME PipelineInv, ProviderInv, SessionInv, TargetReleased
  PROVE  PipelineInv' /\ ProviderInv' /\ SessionInv'
<1>1. Target!DisposeTarget
  BY DEF TargetReleased
<1>2. PipelineInv'
  BY <1>1, TargetMoves DEF Target!TargetNext, Target!UserAsks
<1>3. targetDisposed' /\ attempt' = 0 /\ UNCHANGED <<status, session, known, leaving>>
  BY <1>1 DEF Target!DisposeTarget
<1>4. Len(attempts') = Len(attempts)
  <2>1. attempts \in Seq(Target!Attempt)
    BY PipelineFacts
  <2> QED BY <1>1, <2>1 DEF Target!DisposeTarget
<1>5. SessionInv'
  BY <1>3 DEF SessionInv
<1>6. CASE status \in {"injecting", "injected"}
  <2>1. EndInject("cancelled") /\ closing' = (closing \/ held) /\ UNCHANGED <<visible, held>>
        /\ "cancelled" \in Target!Outcomes
    BY <1>6 DEF TargetReleased, ProviderDisconnect, Target!Outcomes
  <2>2. /\ pendingInject' = 0
        /\ said' \in [1 .. MaxAttempts -> Target!Outcomes \cup {"none"}]
        /\ \A m \in 1 .. MaxAttempts : said'[m] = IF m = pendingInject THEN "cancelled" ELSE said[m]
    BY <2>1, InjectEnded
  <2>3. pendingInject # 0 => ~(pendingInject > Len(attempts))
    BY PipelineFacts DEF ProviderInv
  <2>4. \A m \in 1 .. MaxAttempts : m > Len(attempts') => said'[m] = "none"
    BY <1>4, <2>2, <2>3 DEF ProviderInv
  <2>5. closing' \in BOOLEAN
    BY <2>1 DEF ProviderInv
  <2> QED BY <1>2, <1>3, <1>5, <2>1, <2>2, <2>4, <2>5 DEF ProviderInv
<1>7. CASE status \notin {"injecting", "injected"}
  <2>1. UNCHANGED <<heldVars, closing>>
    BY <1>7 DEF TargetReleased
  <2>2. pendingInject = 0
    BY <1>7, PipelineFacts DEF ProviderInv
  <2>3. ProviderInv'
    BY <1>3, <1>4, <2>1, <2>2 DEF ProviderInv, heldVars
  <2> QED BY <1>2, <1>5, <2>3
<1> QED BY <1>6, <1>7

LEMMA ShutdownKeepsSession ==
  ASSUME PipelineInv, ProviderInv, SessionInv, ShutdownBegins
  PROVE  PipelineInv' /\ ProviderInv' /\ SessionInv'
<1>1. CASE Target!Disconnect /\ ProviderDisconnect
  BY <1>1, DisconnectKeepsSession
<1>2. CASE Target!CancelInject /\ AbortInject(attempt) /\ UNCHANGED <<visible, held, closing>>
  BY <1>2, CancelKeepsSession
<1>3. CASE Target!Dismiss /\ UNCHANGED <<heldVars, closing>>
  <2>1. /\ UNCHANGED <<session, known, attempt, attempts, leaving, targetDisposed>>
        /\ status \in {"error", "cancelled"} /\ status' \in {"ready", "unavailable"}
    BY <1>3 DEF Target!Dismiss, Target!Rest, Target!attemptVars
  <2> QED BY <1>3, <2>1, StatusRests, TargetMoves DEF Target!TargetNext, Target!UserAsks
<1>4. CASE UNCHANGED <<targetVars, heldVars, closing>>
  BY <1>4, TargetMoves, ProviderStays
<1> QED BY <1>1, <1>2, <1>3, <1>4 DEF ShutdownBegins

(* The steps of the backend and of its callers.                            *)
LEMMA BackendKeepsSession ==
  ASSUME PipelineInv, ProviderInv, SessionInv, visible \in BOOLEAN,
         \/ \E n \in Begun : \/ CallBackend(n) \/ AnswerHeard(n) \/ Continues(n)
                             \/ MockStarts(n) \/ OperationTimesOut(n)
         \/ \E c \in {launcher, panel} : CallerGoesOn(c)
         \/ Click \/ BackendStopAsked \/ BackendDisposed,
         intended \in BOOLEAN
  PROVE  PipelineInv' /\ ProviderInv' /\ SessionInv'
<1>1. ASSUME UNCHANGED <<heldVars, targetVars, closing>> PROVE PipelineInv' /\ ProviderInv' /\ SessionInv'
  BY <1>1, TargetMoves, ProviderStays
<1>2. ASSUME MockStop, closing' = closing PROVE PipelineInv' /\ ProviderInv' /\ SessionInv'
  BY <1>2, StopKeepsSession
<1>3. ASSUME NEW n \in Begun, MockStarts(n) PROVE PipelineInv' /\ ProviderInv' /\ SessionInv'
  BY <1>3, VisibleKeeps DEF MockStarts, BackendFrame
<1>4. ASSUME Requested PROVE PipelineInv' /\ ProviderInv' /\ SessionInv'
  BY <1>1, <1>2, <1>4 DEF Requested, Released, Untouched, BackendFrame
<1>5. ASSUME NEW n \in Begun, CallBackend(n) \/ OperationTimesOut(n) \/ AnswerHeard(n) \/ Continues(n)
      PROVE  PipelineInv' /\ ProviderInv' /\ SessionInv'
  BY <1>1, <1>2, <1>5 DEF CallBackend, OperationTimesOut, Released, AnswerHeard, Continues, Untouched, BackendFrame
<1>6. ASSUME NEW c \in {launcher, panel}, CallerGoesOn(c) PROVE PipelineInv' /\ ProviderInv' /\ SessionInv'
  BY <1>1, <1>6 DEF CallerGoesOn, Untouched, BackendFrame
<1>7. CASE Click \/ BackendStopAsked
  BY <1>4, <1>7 DEF Click, BackendStopAsked
<1>8. CASE BackendDisposed
  BY <1>2, <1>8 DEF BackendDisposed
<1> QED BY <1>3, <1>5, <1>6, <1>7, <1>8

LEMMA SwitchKeepsSession ==
  ASSUME PipelineInv, ProviderInv, SessionInv, visible \in BOOLEAN, NEW next \in BOOLEAN, Switch(next)
  PROVE  PipelineInv' /\ ProviderInv' /\ SessionInv'
<1>1. closing' = closing
  BY DEF Switch
<1>2. CASE running
  BY <1>1, <1>2, VisibleKeeps DEF Switch
<1>3. CASE ~running
  <2>1. UNCHANGED <<heldVars, targetVars, closing>>
    BY <1>3 DEF Switch
  <2> QED BY <2>1, TargetMoves, ProviderStays
<1> QED BY <1>2, <1>3

LEMMA SessionStart == NovaInit => PipelineInv /\ ProviderInv /\ SessionInv
<1> SUFFICES ASSUME NovaInit PROVE PipelineInv /\ ProviderInv /\ SessionInv
  OBVIOUS
<1>1. Proved!TargetInit
  BY DEF NovaInit, Target!TargetInit, Proved!TargetInit
<1>2. Proved!TargetInv
  BY <1>1, Proved!TargetInitInv, BoundsAssumption
<1>3. Proved!GoneIsNotShown /\ Proved!PanelInv
  BY <1>1 DEF Proved!TargetInit, Proved!GoneIsNotShown, Proved!PanelInv
<1>4. PipelineInv
  BY <1>2, <1>3, Proved!StepInvIsTargetInv, BoundsAssumption DEF PipelineInv
<1>5. /\ attempt = 0 /\ status = "unavailable" /\ known = "gone" /\ session = FALSE /\ leaving = FALSE
      /\ held = FALSE /\ closing = FALSE /\ pendingInject = 0
      /\ said = [n \in 1 .. MaxAttempts |-> "none"]
  BY DEF NovaInit, Target!TargetInit
<1>6. said \in [1 .. MaxAttempts -> Target!Outcomes \cup {"none"}] /\ \A n \in 1 .. MaxAttempts : said[n] = "none"
  BY <1>5
<1> QED BY <1>4, <1>5, <1>6 DEF ProviderInv, SessionInv

LEMMA SessionStep ==
  MockInv /\ PipelineInv /\ ProviderInv /\ SessionInv /\ [NovaNext]_novaVars
    => PipelineInv' /\ ProviderInv' /\ SessionInv'
<1> SUFFICES ASSUME MockInv, PipelineInv, ProviderInv, SessionInv, [NovaNext]_novaVars
             PROVE  PipelineInv' /\ ProviderInv' /\ SessionInv'
  OBVIOUS
<1>1. visible \in BOOLEAN /\ intended \in BOOLEAN
  BY DEF MockInv
<1>2. ASSUME UNCHANGED <<targetVars, heldVars, closing>> PROVE PipelineInv' /\ ProviderInv' /\ SessionInv'
  BY <1>2, TargetMoves, ProviderStays
<1>3. CASE UNCHANGED novaVars \/ Executes
  BY <1>2, <1>3 DEF novaVars, Executes
<1>4. CASE \/ \E n \in Begun : \/ CallBackend(n) \/ AnswerHeard(n) \/ Continues(n)
                               \/ MockStarts(n) \/ OperationTimesOut(n)
           \/ \E c \in {launcher, panel} : CallerGoesOn(c)
           \/ Click \/ BackendStopAsked \/ BackendDisposed
  BY <1>1, <1>4, BackendKeepsSession
<1>5. CASE \/ \E n \in DOMAIN attempts : InjectHeard(n) \/ InjectTimerFires(n)
           \/ DisconnectHeard \/ TargetReleased
  BY <1>5, HeardKeepsSession, TimerKeepsSession, DisconnectedKeepsSession, ReleaseKeepsSession
<1>6. CASE (\E outcome \in Target!Outcomes : InjectEnds(outcome)) \/ Closed
  BY <1>6, EndKeepsSession, ClosedKeepsSession
<1>7. CASE \E next \in BOOLEAN : Switch(next)
  BY <1>1, <1>7, SwitchKeepsSession
<1>8. CASE TargetAsks \/ CancelClicked \/ DisconnectClicked
  BY <1>1, <1>8, AsksKeepSession, CancelKeepsSession, DisconnectKeepsSession DEF CancelClicked, DisconnectClicked
<1>9. CASE ShutdownBegins
  BY <1>9, ShutdownKeepsSession
<1> QED BY <1>3, <1>4, <1>5, <1>6, <1>7, <1>8, <1>9 DEF NovaNext, Microtasks, Timers, Clicks

ServicesInv == LifecycleInv /\ MockInv /\ PipelineInv /\ ProviderInv /\ SessionInv

LEMMA ServicesStart == NovaInit => ServicesInv
BY MockInvStart, SessionStart DEF ServicesInv

LEMMA ServicesStep == ServicesInv /\ [NovaNext]_novaVars => ServicesInv'
BY MockInvStep, SessionStep DEF ServicesInv

LEMMA ServicesAgree == NovaSpec => []ServicesInv
BY ServicesStart, ServicesStep, PTL DEF NovaSpec

(* Between turns Nova and the provider agree on the session, however       *)
(* late, cancelled, timed-out or lost the injections are (services.tsx,    *)
(* LocalTestTargetProvider.ts).                                            *)
THEOREM NovaHoldsTheSessionItShows == NovaSpec => []SessionIsHeld
<1>1. ServicesInv => SessionIsHeld
  <2> SUFFICES ASSUME ServicesInv, Quiet, ~targetDisposed
               PROVE  /\ session = held
                      /\ status = "injected" => held
                      /\ held => status \in {"injected", "disconnecting"}
    BY DEF SessionIsHeld
  <2>1. attempt # 0 => said[attempt] = "none"
    BY PipelineFacts DEF ServicesInv, Quiet
  <2>2. leaving => closing
    BY DEF Quiet
  <2>3. session \in BOOLEAN /\ held \in BOOLEAN
    BY PipelineFacts DEF ServicesInv, ProviderInv
  <2>4. session <=> held
    BY <2>1, <2>2 DEF ServicesInv, SessionInv
  <2>5. session = held
    BY <2>3, <2>4
  <2> QED BY <2>4, <2>5 DEF ServicesInv, SessionInv
<1> QED BY <1>1, ServicesAgree, PTL

-----------------------------------------------------------------------------
(* The stages of the shutdown: the listeners are gone once it has begun,   *)
(* the controllers are disposed of in turn, and what is disposed of runs   *)
(* nothing.                                                                *)
StageInv ==
    /\ shutdownStage \in Stages
    /\ watching <=> shutdownStage = "open"
    /\ targetDisposed => shutdownStage \in {"stopping", "closed"}
    /\ disposed <=> shutdownStage = "closed"
    /\ disposed => ~running
    /\ \A c \in Clients : waiting[c].what = "shutdown" => shutdownStage \in {"stopping", "closed"}

(* Only the release of the target and the disposal of the backend dispose. *)
LEMMA DisposalIsTheShutdowns ==
  ASSUME NovaNext, ~ShutdownBegins, ~TargetReleased, ~BackendDisposed
  PROVE  UNCHANGED <<watching, shutdownStage, targetDisposed, disposed>>
<1> USE DEF BackendFrame, appVars, heldVars, backendVars, vars, targetVars
<1>1. ASSUME SetVisible(TRUE) \/ SetVisible(FALSE) PROVE targetDisposed' = targetDisposed
  BY <1>1 DEF SetVisible, Target!Announce
<1>2. ASSUME MockStop PROVE targetDisposed' = targetDisposed
  BY <1>1, <1>2 DEF MockStop
<1>3. ASSUME Requested PROVE UNCHANGED <<watching, shutdownStage, targetDisposed>>
  BY <1>2, <1>3 DEF Requested, Released, Untouched
<1>4. ASSUME NEW n \in Begun, CallBackend(n) \/ AnswerHeard(n) \/ Continues(n)
      PROVE  UNCHANGED <<watching, shutdownStage, targetDisposed, disposed>>
  <2>1. CASE CallBackend(n)
    BY <1>2, <2>1 DEF CallBackend, InvokeBackend
  <2>2. CASE AnswerHeard(n)
    BY <2>2 DEF AnswerHeard, StartAnswered, StopAnswered, LateAnswer, AnswerFrame
  <2>3. CASE Continues(n)
    BY <2>3 DEF Continues, FinishFailed, Settle, Untouched
  <2> QED BY <1>4, <2>1, <2>2, <2>3
<1>5. ASSUME NEW c \in {launcher, panel}, CallerGoesOn(c)
      PROVE  UNCHANGED <<watching, shutdownStage, targetDisposed, disposed>>
  BY <1>5 DEF CallerGoesOn, ResumeCaller, ResumeRestart, Untouched
<1>6. ASSUME BackendStopAsked \/ Click PROVE UNCHANGED <<watching, shutdownStage, targetDisposed, disposed>>
  BY <1>3, <1>6 DEF BackendStopAsked, Click, Shutdown, Start, Startup, Stop, Restart
<1>7. ASSUME NEW n \in Begun, OperationTimesOut(n)
      PROVE  UNCHANGED <<watching, shutdownStage, targetDisposed, disposed>>
  BY <1>2, <1>7 DEF OperationTimesOut, TimerFires, Released
<1>8. ASSUME NEW n \in Begun, MockStarts(n)
      PROVE  UNCHANGED <<watching, shutdownStage, targetDisposed, disposed>>
  BY <1>8 DEF MockStarts, SetVisible, Target!Announce
<1>9. ASSUME \/ \E n \in DOMAIN attempts : InjectHeard(n) \/ InjectTimerFires(n)
             \/ \E outcome \in Target!Outcomes : InjectEnds(outcome)
             \/ DisconnectHeard
      PROVE  UNCHANGED <<watching, shutdownStage, targetDisposed, disposed>>
  BY <1>9 DEF InjectHeard, InjectTimerFires, InjectEnds, DisconnectHeard, TargetFrame,
              Target!InjectAnswered, Target!InjectTimesOut, Target!Disconnected
<1>10. ASSUME TargetAsks \/ CancelClicked \/ DisconnectClicked
       PROVE  UNCHANGED <<watching, shutdownStage, targetDisposed, disposed>>
  BY <1>10 DEF TargetAsks, CancelClicked, DisconnectClicked, TargetFrame, InjectClicked, Detects, PassEnds,
               Target!Inject, Target!Detect, Target!StartTarget, Target!Dismiss, Target!PassAnswered,
               Target!CancelInject, Target!Disconnect
<1>11. ASSUME (\E next \in BOOLEAN : Switch(next)) \/ Closed \/ Executes
       PROVE  UNCHANGED <<watching, shutdownStage, targetDisposed, disposed>>
  BY <1>1, <1>11 DEF Switch, Closed, Executes, SetVisible, Target!Announce
<1> QED BY <1>4, <1>5, <1>6, <1>7, <1>8, <1>9, <1>10, <1>11 DEF NovaNext, Microtasks, Timers, Clicks

(* Only the start timer starts the mock, and it is never armed when the    *)
(* controller is disposed of.                                              *)
LEMMA OnlyTheStartTimerStarts ==
  ASSUME NovaNext, \A n \in Begun : ~MockStarts(n)
  PROVE  running' \in {running, FALSE}
<1> USE DEF mockVars
<1>1. ASSUME Requested \/ MockStop PROVE running' \in {running, FALSE}
  BY <1>1 DEF Requested, Released, Untouched, MockStop
<1>2. ASSUME \/ \E n \in Begun : CallBackend(n) \/ AnswerHeard(n) \/ Continues(n) \/ OperationTimesOut(n)
             \/ \E c \in {launcher, panel} : CallerGoesOn(c)
             \/ Click \/ BackendStopAsked \/ BackendDisposed
      PROVE  running' \in {running, FALSE}
  BY <1>1, <1>2 DEF CallBackend, AnswerHeard, Continues, OperationTimesOut, CallerGoesOn, Click,
                    BackendStopAsked, BackendDisposed, Released, Untouched
<1>3. ASSUME \/ \E n \in DOMAIN attempts : InjectHeard(n) \/ InjectTimerFires(n)
             \/ \E outcome \in Target!Outcomes : InjectEnds(outcome)
             \/ \E next \in BOOLEAN : Switch(next)
             \/ DisconnectHeard \/ TargetReleased \/ Closed
             \/ TargetAsks \/ CancelClicked \/ DisconnectClicked
             \/ ShutdownBegins \/ Executes
      PROVE  running' = running
  BY <1>3 DEF InjectHeard, InjectTimerFires, InjectEnds, Switch, DisconnectHeard, TargetReleased, Closed,
              TargetAsks, CancelClicked, DisconnectClicked, ShutdownBegins, Executes, TargetFrame
<1> QED BY <1>2, <1>3 DEF NovaNext, Microtasks, Timers, Clicks

(* Only the shutdown asks the backend controller for a last stop.          *)
LEMMA OnlyTheShutdownAwaitsIt ==
  ASSUME LifecycleInv, [NovaNext]_novaVars, ~BackendStopAsked, NEW c \in Clients, waiting'[c].what = "shutdown"
  PROVE  waiting[c].what = "shutdown"
<1>1. ASSUME NEW d \in Clients, NEW what, NEW on, Await(d, what, on), what # "shutdown"
      PROVE  waiting[c].what = "shutdown"
  <2>1. waiting'[c] = IF c = d THEN [what |-> what, on |-> on] ELSE waiting[c]
    BY <1>1 DEF Await, LifecycleInv, TypeOK
  <2> QED BY <1>1, <2>1
<1>2. ASSUME waiting' = waiting PROVE waiting[c].what = "shutdown"
  BY <1>2
<1>3. ASSUME NEW d \in Clients, StartFor(d) PROVE waiting[c].what = "shutdown"
  BY <1>1, <1>3 DEF StartFor, StartAnswersAtOnce, JoinStart, StartBackend
<1>4. ASSUME NEW d \in Clients, NEW what \in {"stop", "restart"}, StopFor(d, what) PROVE waiting[c].what = "shutdown"
  <2>1. PICK told : told = IF what = "stop" THEN "nothing" ELSE what
    OBVIOUS
  <2>2. told # "shutdown"
    BY <2>1
  <2>3. Await(d, told, 0) \/ Await(d, what, operation) \/ Await(d, what, operationSeq + 1)
    BY <1>4, <2>1 DEF StopFor, NothingToStop, JoinStop, AbandonStart, StopBackend, StopReturns
  <2> QED BY <1>1, <2>2, <2>3
<1>5. CASE Click
  <2>1. PICK d \in Clients : Start(d) \/ Startup(d) \/ Stop(d) \/ Restart(d)
    BY <1>5, ClicksAreRequests
  <2> QED BY <1>2, <1>3, <1>4, <2>1 DEF Start, Startup, Stop, Restart
<1>6. ASSUME NEW d \in {launcher, panel}, CallerGoesOn(d) PROVE waiting[c].what = "shutdown"
  <2>1. d \in Clients
    BY TheCallers
  <2> QED BY <1>1, <1>3, <1>6, <2>1 DEF CallerGoesOn, ResumeCaller, ResumeRestart
<1>7. ASSUME NEW n \in Begun, CallBackend(n) \/ AnswerHeard(n) \/ Continues(n) \/ OperationTimesOut(n) \/ MockStarts(n)
      PROVE  waiting[c].what = "shutdown"
  <2>1. waiting' = waiting
    BY <1>7 DEF CallBackend, AnswerHeard, Continues, OperationTimesOut, MockStarts, InvokeBackend, StartAnswered,
                StopAnswered, LateAnswer, AnswerFrame, FinishFailed, Settle, TimerFires, backendVars, vars
  <2> QED BY <2>1
<1>8. CASE BackendDisposed
  BY <1>1, <1>8, TheCallers DEF BackendDisposed, Dispose
<1>9. CASE UNCHANGED backendVars
  BY <1>2, <1>9 DEF backendVars, vars
<1>10. ASSUME \/ \E n \in DOMAIN attempts : InjectHeard(n) \/ InjectTimerFires(n)
              \/ \E outcome \in Target!Outcomes : InjectEnds(outcome)
              \/ \E next \in BOOLEAN : Switch(next)
              \/ DisconnectHeard \/ TargetReleased \/ Closed
              \/ TargetAsks \/ CancelClicked \/ DisconnectClicked
              \/ ShutdownBegins \/ Executes \/ UNCHANGED novaVars
       PROVE  UNCHANGED backendVars
  BY <1>10 DEF InjectHeard, InjectTimerFires, InjectEnds, Switch, DisconnectHeard, TargetReleased, Closed,
               TargetAsks, CancelClicked, DisconnectClicked, ShutdownBegins, Executes, TargetFrame, novaVars
<1> QED BY <1>5, <1>6, <1>7, <1>8, <1>9, <1>10 DEF NovaNext, Microtasks, Timers, Clicks

LEMMA StageStep ==
  ASSUME ServicesInv, StageInv, [NovaNext]_novaVars
  PROVE  StageInv'
<1> DEFINE LastStops == \A c \in Clients : waiting[c].what = "shutdown" => shutdownStage \in {"stopping", "closed"}
<1>0. LastStops'
  <2>1. CASE BackendStopAsked
    <3>1. shutdownStage = "stopping" /\ shutdownStage' = shutdownStage
      BY <2>1 DEF BackendStopAsked, OnStack, Requested, Released, Untouched, BackendFrame, appVars
    <3> QED BY <3>1
  <2>2. CASE ~BackendStopAsked
    <3>1. shutdownStage \in {"stopping", "closed"} => shutdownStage' \in {"stopping", "closed"}
      <4>1. CASE UNCHANGED novaVars
        BY <4>1 DEF novaVars, appVars
      <4>2. CASE ShutdownBegins \/ TargetReleased \/ BackendDisposed
        BY <4>2 DEF ShutdownBegins, TargetReleased, BackendDisposed
      <4>3. CASE NovaNext /\ ~ShutdownBegins /\ ~TargetReleased /\ ~BackendDisposed
        BY <4>3, DisposalIsTheShutdowns
      <4> QED BY <4>1, <4>2, <4>3
    <3>2. ASSUME NEW c \in Clients, waiting'[c].what = "shutdown" PROVE shutdownStage \in {"stopping", "closed"}
      <4>1. waiting[c].what = "shutdown"
        BY <2>2, <3>2, OnlyTheShutdownAwaitsIt DEF ServicesInv
      <4> QED BY <4>1 DEF StageInv
    <3> QED BY <3>1, <3>2
  <2> QED BY <2>1, <2>2
<1> HIDE DEF LastStops
<1>a. StageInv' <=> /\ (shutdownStage \in Stages)'
                   /\ (watching <=> shutdownStage = "open")'
                   /\ (targetDisposed => shutdownStage \in {"stopping", "closed"})'
                   /\ (disposed <=> shutdownStage = "closed")'
                   /\ (disposed => ~running)'
                   /\ LastStops'
  BY DEF StageInv, LastStops
<1>1. CASE UNCHANGED novaVars
  BY <1>0, <1>1, <1>a DEF StageInv, novaVars, appVars, mockVars, backendVars, vars, targetVars
<1>2. CASE ShutdownBegins
  <2>1. UNCHANGED <<disposed, running>> /\ shutdownStage = "open" /\ shutdownStage' = "leaving" /\ watching' = FALSE
    BY <1>2 DEF ShutdownBegins, backendVars, vars, mockVars
  <2>2. targetDisposed' = targetDisposed
    BY <1>2 DEF ShutdownBegins, Target!Disconnect, Target!CancelInject, Target!Dismiss, targetVars
  <2> QED BY <1>0, <1>a, <2>1, <2>2 DEF StageInv, Stages
<1>3. CASE TargetReleased
  <2>1. UNCHANGED <<disposed, running, watching>> /\ shutdownStage = "leaving" /\ shutdownStage' = "stopping"
    BY <1>3 DEF TargetReleased, backendVars, vars, mockVars
  <2> QED BY <1>0, <1>a, <2>1 DEF StageInv, Stages
<1>4. CASE BackendDisposed
  <2>1. ~running
    BY <1>4, TheCallers DEF BackendDisposed, Dispose, ServicesInv, MockInv, CloserInv
  <2>2. shutdownStage' = "closed" /\ disposed' = TRUE /\ watching' = watching /\ ~running'
    BY <1>4, <2>1 DEF BackendDisposed, Dispose, MockStop
  <2>3. ~watching
    BY <1>4, TheCallers DEF BackendDisposed, Dispose, StageInv
  <2> QED BY <1>0, <1>a, <2>2, <2>3 DEF StageInv, Stages
<1>5. CASE NovaNext /\ ~ShutdownBegins /\ ~TargetReleased /\ ~BackendDisposed
  <2>1. UNCHANGED <<watching, shutdownStage, targetDisposed, disposed>>
    BY <1>5, DisposalIsTheShutdowns
  <2>2. disposed /\ ~running => ~running'
    <3>1. ASSUME NEW n \in Begun, MockStarts(n) PROVE ~disposed
      <4>1. n \in 1 .. MaxOps
        BY MockFacts DEF ServicesInv
      <4>2. IsLive(n)
        BY <3>1, <4>1, WaitingCall DEF MockStarts, ServicesInv
      <4> QED BY <4>2 DEF IsLive
    <3>2. running \in BOOLEAN
      BY DEF ServicesInv, MockInv
    <3> QED BY <1>5, <3>1, <3>2, OnlyTheStartTimerStarts
  <2> QED BY <1>0, <1>a, <2>1, <2>2 DEF StageInv
<1> QED BY <1>1, <1>2, <1>3, <1>4, <1>5

(* The health row and the dialog: what the row says "healthy" of is there. *)
RowInv ==
    /\ healthy \in BOOLEAN /\ confirming \in BOOLEAN
    /\ HealthyIsVisible

LEMMA RowStep ==
  ASSUME ServicesInv, StageInv, RowInv, [NovaNext]_novaVars
  PROVE  RowInv'
<1>1. visible \in BOOLEAN /\ running \in BOOLEAN
  BY DEF ServicesInv, MockInv
<1>2. visible' \in BOOLEAN
  BY ServicesStep DEF ServicesInv, MockInv
<1>3. confirming' \in BOOLEAN
  <2>1. CASE Executes
    BY <2>1 DEF Executes, ExecuteClicked, ConfirmationEnds, RowInv
  <2>2. CASE ~Executes
    <3>1. confirming' = confirming
      BY <2>2 DEF NovaNext, Microtasks, Timers, Clicks, CallBackend, AnswerHeard, Continues, CallerGoesOn, InjectHeard,
                  DisconnectHeard, TargetReleased, BackendStopAsked, BackendDisposed, MockStarts, OperationTimesOut,
                  InjectTimerFires, InjectEnds, Closed, Click, Switch, TargetAsks, CancelClicked, DisconnectClicked,
                  ShutdownBegins, TargetFrame, BackendFrame, Requested, Released, Untouched, appVars, novaVars
    <3> QED BY <3>1 DEF RowInv
  <2> QED BY <2>1, <2>2
<1>4. ASSUME HealthRow PROVE healthy' \in BOOLEAN
  BY <1>4 DEF HealthRow, Health, RowInv
<1>5. CASE UNCHANGED novaVars
  BY <1>3, <1>5 DEF RowInv, HealthyIsVisible, novaVars, heldVars, appVars, backendVars, vars
<1>6. CASE Executes
  BY <1>3, <1>6 DEF Executes, RowInv, HealthyIsVisible, heldVars, backendVars, vars
<1>7. CASE ShutdownBegins
  <2>1. watching' = FALSE /\ HealthRow
    BY <1>7 DEF ShutdownBegins
  <2> QED BY <1>3, <1>4, <2>1 DEF RowInv, HealthyIsVisible
<1>8. CASE NovaNext /\ ~ShutdownBegins /\ ~Executes
  <2>1. HealthRow /\ watching' = watching
    BY <1>8, StepsAreHeard DEF Listeners
  <2>2. ASSUME healthy', watching' PROVE visible' /\ state' = "ready"
    <3>1. ~disposed /\ ~targetDisposed /\ watching
      BY <2>1, <2>2 DEF StageInv
    <3>2. CASE state' # state \/ Published
      BY <2>1, <2>2, <3>1, <3>2 DEF HealthRow, Health
    <3>3. CASE ~(state' # state \/ Published)
      <4>1. healthy' = healthy /\ state' = state
        BY <3>3 , <2>1 DEF HealthRow
      <4>2. visible /\ state = "ready"
        BY <2>2, <3>1, <4>1 DEF RowInv, HealthyIsVisible
      <4>3. ~(visible /\ ~visible')
        BY <3>1, <3>3 DEF Published
      <4> QED BY <4>1, <4>2, <4>3
    <3> QED BY <3>2, <3>3
  <2> QED BY <1>3, <1>4, <2>1, <2>2 DEF RowInv, HealthyIsVisible
<1> QED BY <1>5, <1>6, <1>7, <1>8

(* What the executions are beside what ExecInv says: bounded.              *)
RunsBounded == stopping \in BOOLEAN /\ Len(runs) <= MaxRuns

LEMMA BoundStep ==
  ASSUME ExecInv, RunsBounded, [NovaNext]_novaVars
  PROVE  RunsBounded'
<1>1. runs \in Seq(Execution!Run) /\ Len(runs) \in Nat
  BY DEF ExecInv, ExecutionsTyped
<1>2. ASSUME NEW n \in DOMAIN runs, NEW run \in Execution!Run, NEW outcome, Execution!FinishRun(n, run, outcome)
      PROVE  RunsBounded'
  <2>1. runs' = [runs EXCEPT ![n] = Execution!Over(run)] /\ stopping' = FALSE
    BY <1>2 DEF Execution!FinishRun
  <2>2. Len(runs') = Len(runs)
    BY <2>1, RunFields, OneRunChanges DEF ExecInv
  <2> QED BY <2>1, <2>2 DEF RunsBounded
<1>3. ASSUME UNCHANGED executionVars PROVE RunsBounded'
  BY <1>3 DEF executionVars, RunsBounded
<1>4. CASE UNCHANGED novaVars
  BY <1>3, <1>4 DEF novaVars
<1>5. CASE ShutdownBegins
  BY <1>1, <1>5 DEF ShutdownBegins, Execution!DisposeExecution, RunsBounded
<1>6. CASE NovaNext /\ ~ShutdownBegins /\ ~Executes
  <2>1. Execution!Interrupt \/ UNCHANGED executionVars
    BY <1>6, StepsAreHeard DEF Listeners, TargetLoss
  <2>2. CASE Execution!Interrupt /\ Execution!InFlight
    <3>1. active \in DOMAIN runs /\ runs[active] \in Execution!Run
      BY <2>2 DEF Execution!InFlight, ExecInv, ExecutionsTyped
    <3> QED BY <1>2, <2>2, <3>1 DEF Execution!Interrupt
  <2>3. CASE Execution!Interrupt /\ ~Execution!InFlight
    BY <1>3, <2>3 DEF Execution!Interrupt, Execution!executionVars, executionVars
  <2> QED BY <1>3, <2>1, <2>2, <2>3
<1>7. CASE Submit
  <2>1. CASE Accepts
    <3>1. Len(runs) < MaxRuns /\ runs' = Append(runs, Execution!NewRun) /\ stopping' = FALSE
      BY <1>7, <2>1 DEF Submit, Execution!Execute
    <3>2. Len(runs') = Len(runs) + 1
      BY <1>1, <3>1
    <3>3. Len(runs') <= MaxRuns
      BY <1>1, <3>1, <3>2, BoundsAssumption
    <3> QED BY <3>1, <3>3 DEF RunsBounded
  <2>2. CASE ~Accepts
    BY <1>3, <1>7, <2>2 DEF Submit
  <2> QED BY <2>1, <2>2
<1>8. CASE Execution!CancelRun
  BY <1>1, <1>8 DEF Execution!CancelRun, RunsBounded
<1>9. CASE Execution!ProviderRuns
  <2>1. PICK n \in DOMAIN runs :
           Execution!MarkRunning(n) \/ \E outcome \in Execution!RunResults : Execution!RunAnswered(n, outcome)
    BY <1>9 DEF Execution!ProviderRuns
  <2>2. CASE Execution!MarkRunning(n)
    BY <2>2 DEF Execution!MarkRunning, RunsBounded
  <2>3. ASSUME NEW outcome \in Execution!RunResults, Execution!RunAnswered(n, outcome) PROVE RunsBounded'
    <3>1. CASE runs[n].settled
      BY <1>1, <2>3, <3>1 DEF Execution!RunAnswered, RunsBounded
    <3>2. CASE ~runs[n].settled
      <4>1. runs[n] \in Execution!Run
        BY <1>1
      <4>2. [runs[n] EXCEPT !.out = FALSE] \in Execution!Run
        BY <4>1, RunFields
      <4>3. Execution!FinishRun(n, [runs[n] EXCEPT !.out = FALSE], outcome)
        BY <2>3, <3>2 DEF Execution!RunAnswered
      <4> QED BY <1>2, <4>2, <4>3
    <3> QED BY <3>1, <3>2
  <2> QED BY <2>1, <2>2, <2>3
<1>10. CASE Execution!RunTimer
  BY <1>1, <1>2, <1>10 DEF Execution!RunTimer, Execution!RunTimesOut
<1>11. CASE Executes
  BY <1>3, <1>7, <1>8, <1>9, <1>10, <1>11 DEF Executes, ExecuteClicked, ConfirmationEnds
<1> QED BY <1>4, <1>5, <1>6, <1>11

WholeInv == ServicesInv /\ StageInv /\ RowInv /\ ExecInv /\ RunsBounded

LEMMA WholeStart == NovaInit => WholeInv
<1> SUFFICES ASSUME NovaInit PROVE WholeInv
  OBVIOUS
<1>1. ServicesInv /\ ExecInv
  BY ServicesStart, ExecInvStart
<1>2. StageInv
  BY DEF NovaInit, Init, Target!TargetInit, StageInv, Stages, Nothing
<1>3. RowInv
  BY DEF NovaInit, RowInv, HealthyIsVisible
<1>4. RunsBounded
  <2>1. stopping = FALSE /\ Len(runs) = 0
    BY DEF NovaInit, Execution!ExecutionInit
  <2>2. Len(runs) <= MaxRuns
    BY <2>1, BoundsAssumption
  <2> QED BY <2>1, <2>2 DEF RunsBounded
<1> QED BY <1>1, <1>2, <1>3, <1>4 DEF WholeInv

LEMMA WholeStep == WholeInv /\ [NovaNext]_novaVars => WholeInv'
BY ServicesStep, StageStep, RowStep, ExecInvStep, BoundStep DEF WholeInv

LEMMA WholeInvariant == NovaSpec => []WholeInv
BY WholeStart, WholeStep, PTL DEF NovaSpec

(* A shutdown that is through leaves nothing running and nobody waiting,   *)
(* whatever it interrupted (services.tsx, shutdown).                       *)
THEOREM NothingSurvivesTheShutdown == NovaSpec => []ShutdownLeavesNothing
<1>1. WholeInv => ShutdownLeavesNothing
  <2> SUFFICES ASSUME WholeInv, shutdownStage = "closed", Quiet
               PROVE  /\ ~running /\ ~visible /\ ~held /\ pendingInject = 0
                      /\ \A n \in Begun : ops[n].settled /\ calls[n] # "waiting"
                      /\ \A n \in DOMAIN attempts : attempts[n].settled
    BY DEF ShutdownLeavesNothing
  <2>1. disposed /\ ~running
    BY DEF WholeInv, StageInv
  <2>2. ~visible
    BY <2>1 DEF WholeInv, ServicesInv, MockInv, NothingWithoutBackend
  <2>3. ~held /\ pendingInject = 0
    BY <2>2 DEF WholeInv, ServicesInv, ProviderInv
  <2>4. ASSUME NEW n \in Begun PROVE ops[n].settled /\ calls[n] # "waiting"
    <3>1. ops[n].settled
      BY <2>1, MockFacts DEF WholeInv, ServicesInv, OperationInv
    <3>2. ~IsLive(n) /\ n \in 1 .. MaxOps
      BY <2>1, MockFacts DEF WholeInv, ServicesInv, IsLive
    <3> QED BY <3>1, <3>2, WaitingCall DEF WholeInv, ServicesInv
  <2>5. attempt = 0
    <3>1. attempt # 0 => said[attempt] = "none" /\ attempt # pendingInject
      BY <2>3, PipelineFacts DEF WholeInv, ServicesInv, Quiet
    <3> QED BY <3>1 DEF WholeInv, ServicesInv, ProviderInv
  <2>6. \A n \in DOMAIN attempts : attempts[n].settled
    <3>1. \A n \in DOMAIN attempts : n # attempt
      BY <2>5, PipelineFacts DEF WholeInv, ServicesInv
    <3> QED BY <3>1, PipelineFacts DEF WholeInv, ServicesInv
  <2> QED BY <2>1, <2>2, <2>3, <2>4, <2>6
<1> QED BY <1>1, WholeInvariant, PTL

LEMMA PipelineTyped ==
  ASSUME PipelineInv
  PROVE  /\ Target!TargetTypeOK
         /\ detecting /\ ~targetDisposed => detectPass \in asked
         /\ attempt # 0 /\ attempts[attempt].cancelRequested => cancelling
BY DEF PipelineInv, Proved!StepInv, Proved!AttemptsInv, Proved!PassInv, Proved!RestInv, Proved!PanelInv,
       Proved!DetectingIsTheNewest, Proved!Attempt, Proved!Outcomes, Proved!Statuses, Proved!Detections,
       Target!TargetTypeOK, Target!Attempt, Target!Outcomes, Target!Statuses, Target!Detections

LEMMA EverythingTyped == WholeInv => NovaTypeOK
<1> SUFFICES ASSUME WholeInv PROVE NovaTypeOK
  OBVIOUS
<1>1. TypeOK /\ Target!TargetTypeOK
  BY PipelineTyped DEF WholeInv, ServicesInv, LifecycleInv
<1>2. Execution!ExecutionTypeOK
  BY DEF WholeInv, ExecInv, ExecutionsTyped, RunsBounded, Execution!ExecutionTypeOK
<1>3. /\ running \in BOOLEAN /\ intended \in BOOLEAN /\ visible \in BOOLEAN /\ held \in BOOLEAN
      /\ calls \in [1 .. MaxOps -> CallStates]
      /\ said \in [1 .. MaxAttempts -> Target!Outcomes \cup {"none"}] /\ closing \in BOOLEAN
  BY DEF WholeInv, ServicesInv, MockInv, ProviderInv
<1>4. pendingInject \in 0 .. Len(attempts)
  <2>1. pendingInject = 0 \/ pendingInject = attempt
    BY DEF WholeInv, ServicesInv, ProviderInv
  <2> QED BY <2>1, PipelineFacts DEF WholeInv, ServicesInv
<1>5. watching \in BOOLEAN /\ healthy \in BOOLEAN /\ confirming \in BOOLEAN /\ shutdownStage \in Stages
  BY DEF WholeInv, StageInv, RowInv, ExecInv, ExecutionsTyped
<1> QED BY <1>1, <1>2, <1>3, <1>4, <1>5 DEF NovaTypeOK

LEMMA ToolsAreToldTheTruth == WholeInv => ToolsHaveATarget
<1> SUFFICES ASSUME WholeInv, ToolsTold PROVE running /\ (visible \/ status = "disconnecting")
  BY DEF ToolsHaveATarget
<1>1. watching /\ state = "ready" /\ status \in ToolingStatuses
  BY DEF ToolsTold
<1>2. running /\ ~targetDisposed
  BY <1>1 DEF WholeInv, StageInv, ServicesInv, MockInv, NothingWithoutBackend
<1>3. CASE known = "gone"
  BY <1>1, <1>2, <1>3, PipelineFacts DEF WholeInv, ServicesInv, ToolingStatuses
<1>4. CASE known # "gone"
  BY <1>2, <1>4 DEF WholeInv, ServicesInv, ProviderInv
<1> QED BY <1>3, <1>4

(* Whatever the control offers next is accepted, and a disabled button     *)
(* waits for something that will end.                                      *)
LEMMA OffersAreTaken == WholeInv => OfferIsTaken
<1> SUFFICES ASSUME WholeInv, Quiet, watching PROVE OfferIsTaken
  BY DEF OfferIsTaken
<1>1. ~targetDisposed
  BY DEF WholeInv, StageInv
<1>2. status \in Target!Statuses /\ status # "detected" /\ (leaving <=> status = "disconnecting")
  BY PipelineFacts DEF WholeInv, ServicesInv, ProviderInv
<1>3. CASE status = "injected"
  <2>1. Offer = [step |-> "disconnect", busy |-> FALSE]
    BY <1>3 DEF Offer
  <2>2. held
    BY <1>1, <1>2, <1>3 DEF WholeInv, ServicesInv, SessionInv
  <2> QED BY <2>1, <2>2 DEF OfferIsTaken
<1>4. CASE status = "disconnecting"
  <2>1. Offer = [step |-> "disconnect", busy |-> TRUE]
    BY <1>4 DEF Offer
  <2> QED BY <1>2, <1>4, <2>1 DEF OfferIsTaken
<1>5. CASE status = "injecting"
  <2>1. Offer = [step |-> "cancel", busy |-> cancelling]
    BY <1>5 DEF Offer
  <2>2. attempt # 0 /\ ~attempts[attempt].settled /\ attempts[attempt].timer
    BY <1>1, <1>5, PipelineFacts DEF WholeInv, ServicesInv
  <2>3. ~cancelling => Target!InjectCancellable /\ ~attempts[attempt].cancelRequested
    BY <1>5, <2>2, PipelineTyped DEF WholeInv, ServicesInv, Target!InjectCancellable
  <2> QED BY <2>1, <2>2, <2>3 DEF OfferIsTaken
<1>6. detecting => asked # {}
  BY <1>1, PipelineTyped DEF WholeInv, ServicesInv
<1>7. CASE status = "unavailable"
  <2>1. Offer = [step |-> "detect", busy |-> detecting]
    BY <1>7 DEF Offer
  <2> QED BY <1>1, <1>6, <2>1 DEF OfferIsTaken
<1>8. CASE status = "error"
  <2>1. Offer = [step |-> "inject", busy |-> FALSE]
    BY <1>8 DEF Offer
  <2> QED BY <1>8, <2>1 DEF OfferIsTaken, Target!Injectable
<1>9. CASE status \in {"ready", "cancelled"}
  <2>1. Offer = [step |-> "inject", busy |-> detecting]
    BY <1>9 DEF Offer
  <2> QED BY <1>6, <1>9, <2>1 DEF OfferIsTaken, Target!Injectable
<1> QED BY <1>2, <1>3, <1>4, <1>5, <1>7, <1>8, <1>9 DEF Target!Statuses

(* The backend, its target, the health row, the developer tools, the       *)
(* execution pipeline and the target control agree on what exists, however *)
(* the turns of the services interleave (services.tsx).                    *)
THEOREM TheServicesAgree == NovaSpec => []NovaInv
<1>1. WholeInv => NovaInv
  BY EverythingTyped, ToolsAreToldTheTruth, OffersAreTaken
     DEF WholeInv, ServicesInv, MockInv, RowInv, ExecInv, NovaInv
<1> QED BY <1>1, WholeInvariant, PTL
=============================================================================
