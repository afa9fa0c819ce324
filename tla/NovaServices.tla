---------------------------- MODULE NovaServices ----------------------------
(***************************************************************************)
(* Nova's services as src/app/services.tsx composes them over the Local    *)
(* Mock backend: the backend, target and execution controllers, the mock   *)
(* backend (LocalMockDeveloperBackend.ts) with its simulated target        *)
(* (LocalTestTargetProvider.ts), the listeners that link them, and the     *)
(* shutdown.  An action is what one turn of the event loop does to all of  *)
(* them: a controller's action, the calls it makes, and the listeners.     *)
(*                                                                         *)
(* A click or a timer begins a turn; it finds nothing on the stack and no  *)
(* continuation queued (Quiet).  The continuations of the turn run in any  *)
(* order.  The launcher starts the backend, the panel stops and restarts   *)
(* it, the closer shuts down.                                              *)
(***************************************************************************)
EXTENDS BackendController, Sequences

CONSTANTS
  launcher, panel, closer, \* the callers of the backend controller
  MaxAttempts,             \* bound on injections
  MaxPasses,               \* bound on detection passes
  MaxRuns                  \* bound on executions

ASSUME CallersAssumption == Clients = {launcher, panel, closer}

ASSUME BoundsAssumption == MaxAttempts \in Nat /\ MaxPasses \in Nat /\ MaxRuns \in Nat

VARIABLES
  status, detecting, session, cancelling, known, attempt, attempts, detectPass, asked,
  leaving, reconnectPending, startHandled, targetDisposed, \* of the target controller
  phase, stopping, active, runs,                           \* of the execution controller
  running,       \* the mock backend has started
  intended,      \* its target is to be available once it runs
  calls,         \* what became of the call that operation n made
  visible,       \* the provider's target is available
  held,          \* the provider's sessionActive
  pendingInject, \* the attempt whose provider timer is armed, 0 for null
  said,          \* what the provider answered attempt n, before it is heard
  closing,       \* the provider's disconnect timer is armed
  watching,      \* the listeners are subscribed
  confirming,    \* the dialog "Execute script?" is open on a captured request
  healthy,       \* the panel's health row of the target
  shutdownStage

Target    == INSTANCE TargetController
Execution == INSTANCE ExecutionController

backendVars   == vars
targetVars    == <<status, detecting, session, cancelling, known, attempt, attempts, detectPass,
                   asked, leaving, reconnectPending, startHandled, targetDisposed>>
executionVars == <<phase, stopping, active, runs>>
heldVars      == <<visible, held, pendingInject, said>>
mockVars      == <<running, intended, calls>>
appVars       == <<watching, confirming, shutdownStage>>

novaVars == <<backendVars, targetVars, executionVars, heldVars, closing, mockVars, appVars, healthy>>

CallStates == {"none", "waiting", "closing", "started", "stopped", "cancelled"}
Stages     == {"open", "leaving", "stopping", "closed"}

NovaTypeOK ==
  /\ TypeOK /\ Target!TargetTypeOK /\ Execution!ExecutionTypeOK
  /\ running \in BOOLEAN /\ intended \in BOOLEAN /\ visible \in BOOLEAN /\ held \in BOOLEAN
  /\ calls \in [1 .. MaxOps -> CallStates]
  /\ pendingInject \in 0 .. Len(attempts)
  /\ said \in [1 .. MaxAttempts -> Target!Outcomes \cup {"none"}]
  /\ closing \in BOOLEAN /\ watching \in BOOLEAN /\ healthy \in BOOLEAN /\ confirming \in BOOLEAN
  /\ shutdownStage \in Stages

NovaInit ==
  /\ Init /\ Target!TargetInit /\ Execution!ExecutionInit
  /\ running = FALSE /\ intended = TRUE /\ visible = FALSE /\ held = FALSE
  /\ calls = [n \in 1 .. MaxOps |-> "none"]
  /\ pendingInject = 0 /\ said = [n \in 1 .. MaxAttempts |-> "none"]
  /\ closing = FALSE /\ watching = TRUE /\ healthy = FALSE /\ confirming = FALSE
  /\ shutdownStage = "open"

-----------------------------------------------------------------------------
(* Turns.                                                                  *)

\* target.dispose() and backend.stop() are one turn of the shutdown.
OnStack ==
  \/ InSync
  \/ shutdownStage = "stopping" /\ waiting[closer].what # "shutdown"

Returned(n) == ops[n].phase = "calling" /\ calls[n] \in {"started", "stopped", "cancelled"}

Quiet ==
  /\ Settled /\ ~OnStack
  /\ \A n \in Begun : ~Returned(n)
  /\ \A n \in DOMAIN attempts : said[n] = "none"
  /\ leaving => closing
  /\ shutdownStage = "leaving" => leaving

-----------------------------------------------------------------------------
(* The listeners, called before the turn goes on.                          *)

\* The target controller published a snapshot in this turn.
Published ==
  \/ <<status, detecting, session, cancelling>>' # <<status, detecting, session, cancelling>>
  \/ detectPass' # detectPass
  \/ visible /\ ~visible' /\ ~targetDisposed

\* getHealth() of the mock, while the controller is ready.
Health == state' = "ready" /\ running' /\ visible'

HealthRow == healthy' = IF state' # state \/ (watching' /\ ~disposed /\ Published) THEN Health ELSE healthy

\* Variant: losing the target is not told to the execution controller.
TargetLossUnheard == UNCHANGED executionVars

\* An execution cannot outlive the target it runs on.
TargetLoss ==
  IF watching' /\ status = "injected" /\ status' # "injected"
  THEN Execution!Interrupt ELSE UNCHANGED executionVars

Listeners == TargetLoss /\ HealthRow

\* What the developer tools have been told: the binding hears both
\* controllers and reads both snapshots.
ToolingStatuses == {"detected", "ready", "injecting", "injected", "disconnecting"}
ToolsTold == watching /\ state = "ready" /\ status \in ToolingStatuses

-----------------------------------------------------------------------------
(* The simulated target.                                                   *)

\* pendingInject?.end(): its timer is cleared and it answers.
EndInject(outcome) ==
  /\ pendingInject' = 0
  /\ said' = IF pendingInject = 0 THEN said ELSE [said EXCEPT ![pendingInject] = outcome]

\* The signal of attempt n is aborted.
AbortInject(n) == IF n # 0 /\ n = pendingInject THEN EndInject("cancelled")
                                                ELSE UNCHANGED <<pendingInject, said>>

\* disconnect(): what is pending ends, and a session takes time to close.
ProviderDisconnect ==
  /\ EndInject("cancelled")
  /\ closing' = (closing \/ held)
  /\ UNCHANGED <<visible, held>>

\* inject(), when the turn began attempt Len(attempts').
ProviderInject ==
  IF Len(attempts') = Len(attempts)
  THEN UNCHANGED <<pendingInject, said>>
  ELSE IF visible' THEN pendingInject' = Len(attempts') /\ UNCHANGED said
                   ELSE said' = [said EXCEPT ![Len(attempts')] = "failed"] /\ UNCHANGED pendingInject

\* Variant: the session survives the target that carried it.
SetVisibleKeepingSession(next) ==
  /\ visible' = next
  /\ IF next = visible \/ targetDisposed
     THEN UNCHANGED targetVars
     ELSE Target!Announce(IF next THEN "usable" ELSE "gone")
  /\ UNCHANGED held
  /\ IF visible /\ ~next THEN EndInject("failed") ELSE ProviderInject

\* setAvailability(): the target vanishes with its session, or appears, and
\* the target controller is told while it still listens.
SetVisible(next) ==
  /\ visible' = next
  /\ IF next = visible \/ targetDisposed
     THEN UNCHANGED targetVars
     ELSE Target!Announce(IF next THEN "usable" ELSE "gone")
  /\ held' = (held /\ ~(visible /\ ~next))
  /\ IF visible /\ ~next THEN EndInject("failed") ELSE ProviderInject

-----------------------------------------------------------------------------
(* The mock backend.                                                       *)

\* stop(): the target goes away first, and its session with it.
MockStop ==
  /\ running' = FALSE
  /\ IF running THEN SetVisible(FALSE) ELSE UNCHANGED <<heldVars, targetVars>>

\* Variant: an aborted start goes on waiting.
AbortedUnheard(n) == calls

\* The signal of operation n is aborted: a start that waits is cancelled.
Aborted(n) == [calls EXCEPT ![n] = IF @ = "waiting" THEN "cancelled" ELSE @]

BackendFrame == UNCHANGED <<intended, closing, appVars>>

\* releaseBackend() for operation n: abort, then stop() without waiting.
Released(n) ==
  /\ calls' = IF n = 0 THEN calls ELSE Aborted(n)
  /\ MockStop /\ BackendFrame

Untouched == UNCHANGED <<calls, running, heldVars, targetVars>> /\ BackendFrame

\* A request abandons the start in flight, or calls the backend later.
Requested ==
  IF state = "starting" /\ state' = "stopped" THEN Released(operation) ELSE Untouched

\* One operation is kept for the shutdown, and one for a pending restart.
MayBegin(needed) ==
  operationSeq + needed + (IF waiting[panel].what = "restart" THEN 1 ELSE 0) < MaxOps

Click ==
  /\ Quiet
  /\ \/ MayBegin(1) /\ (Start(launcher) \/ Startup(launcher) \/ Stop(panel))
     \/ MayBegin(2) /\ Restart(panel)
  /\ Requested /\ Listeners

\* The rest of run() in the turn that announced the operation: the call.
CallBackend(n) ==
  /\ InvokeBackend(n)
  /\ IF ops[n].kind = "start"
     THEN /\ calls' = [calls EXCEPT ![n] = IF running THEN "started" ELSE "waiting"]
          /\ UNCHANGED <<running, heldVars, targetVars>> /\ BackendFrame
     ELSE /\ calls' = [calls EXCEPT ![n] = IF running /\ closing THEN "closing" ELSE "stopped"]
          /\ MockStop /\ BackendFrame
  /\ Listeners

\* The start timer: the backend runs and announces the target it has.
MockStarts(n) ==
  /\ Quiet /\ calls[n] = "waiting"
  /\ calls' = [calls EXCEPT ![n] = "started"]
  /\ running' = TRUE
  /\ SetVisible(intended)
  /\ UNCHANGED backendVars /\ BackendFrame
  /\ Listeners

AnswerHeard(n) ==
  /\ Returned(n)
  /\ \/ calls[n] \in {"started", "cancelled"} /\ StartAnswered(n, calls[n])
     \/ calls[n] = "stopped" /\ StopAnswered(n, "stopped")
     \/ LateAnswer(n)
  /\ calls' = [calls EXCEPT ![n] = "none"]
  /\ UNCHANGED <<running, heldVars, targetVars>> /\ BackendFrame
  /\ Listeners

OperationTimesOut(n) ==
  /\ Quiet /\ ~ops[n].settled
  /\ TimerFires(n)
  /\ Released(n) /\ Listeners

Continues(n) == (FinishFailed(n) \/ (~OnStack /\ Settle(n))) /\ Untouched /\ Listeners

CallerGoesOn(c) == ~OnStack /\ (ResumeCaller(c) \/ ResumeRestart(c)) /\ Untouched /\ Listeners

\* The developer's test switch; only a running backend shows its target.
Switch(next) ==
  /\ Quiet
  /\ intended' = next
  /\ IF running THEN SetVisible(next) ELSE UNCHANGED <<heldVars, targetVars>>
  /\ UNCHANGED <<backendVars, running, calls, closing, appVars>>
  /\ Listeners
-----------------------------------------------------------------------------
(* The target controller and its provider.                                 *)

TargetFrame == UNCHANGED <<backendVars, mockVars, appVars>> /\ Listeners

\* useTargetAction: the next step the target control offers, and whether its
\* button is disabled.
Offer ==
  CASE status = "injected"      -> [step |-> "disconnect", busy |-> FALSE]
    [] status = "disconnecting" -> [step |-> "disconnect", busy |-> TRUE]
    [] status = "injecting"     -> [step |-> "cancel", busy |-> cancelling]
    [] status = "unavailable"   -> [step |-> "detect", busy |-> detecting]
    [] status = "error"         -> [step |-> "inject", busy |-> FALSE]
    [] status = "detected"      -> [step |-> "inject", busy |-> TRUE]
    [] OTHER                    -> [step |-> "inject", busy |-> detecting]

\* A click on Inject, or the answer of a detection pass (PassAnswered), each
\* of which may begin an attempt.
InjectClicked == Target!Inject /\ Quiet

PassEnds(pass) == Quiet /\ Target!PassAnswered(pass, IF visible THEN "usable" ELSE "gone")

Detects == Quiet /\ (Target!Detect \/ Target!StartTarget \/ Target!Dismiss)

TargetAsks ==
  /\ InjectClicked \/ Detects \/ \E pass \in asked : PassEnds(pass)
  /\ UNCHANGED <<visible, held, closing>>
  /\ ProviderInject
  /\ TargetFrame

CancelClicked ==
  /\ Quiet /\ Target!CancelInject
  /\ AbortInject(attempt)
  /\ UNCHANGED <<visible, held, closing>> /\ TargetFrame

DisconnectClicked == Quiet /\ Target!Disconnect /\ ProviderDisconnect /\ TargetFrame

\* The provider's inject timer, whatever the scenario plans.
InjectEnds(outcome) ==
  /\ Quiet /\ pendingInject # 0
  /\ held' = (held \/ outcome = "injected")
  /\ EndInject(outcome)
  /\ UNCHANGED <<visible, closing, targetVars>> /\ TargetFrame

InjectHeard(n) ==
  /\ ~OnStack /\ said[n] # "none"
  /\ Target!InjectAnswered(n, said[n], held)
  /\ said' = [said EXCEPT ![n] = "none"]
  /\ UNCHANGED <<visible, held, pendingInject, closing>> /\ TargetFrame

InjectTimerFires(n) ==
  /\ Quiet /\ Target!InjectTimesOut(n, held)
  /\ ProviderDisconnect /\ TargetFrame

\* Variant: the disconnect timer lets go and resolves nobody.
ClosedUnresolved ==
  /\ Quiet /\ closing /\ held
  /\ held' = FALSE
  /\ UNCHANGED <<backendVars, running, intended, calls, visible, pendingInject, said, closing,
                 appVars, targetVars>>
  /\ Listeners

\* The provider's disconnect timer; it also answers a stop that waits.
Closed ==
  /\ Quiet /\ closing
  /\ closing' = FALSE /\ held' = FALSE
  /\ calls' = [n \in 1 .. MaxOps |-> IF calls[n] = "closing" THEN "stopped" ELSE calls[n]]
  /\ UNCHANGED <<backendVars, running, intended, visible, pendingInject, said, appVars, targetVars>>
  /\ Listeners

DisconnectHeard ==
  /\ ~OnStack /\ ~closing /\ Target!Disconnected(held)
  /\ UNCHANGED <<heldVars, closing>> /\ TargetFrame
-----------------------------------------------------------------------------
(* Shutting down.                                                          *)

\* shutdown() up to its await of target.disconnect().
ShutdownBegins ==
  /\ Quiet /\ shutdownStage = "open"
  /\ shutdownStage' = "leaving"
  /\ watching' = FALSE /\ UNCHANGED confirming
  /\ \/ Target!Disconnect /\ ProviderDisconnect
     \/ Target!CancelInject /\ AbortInject(attempt) /\ UNCHANGED <<visible, held, closing>>
     \/ Target!Dismiss /\ UNCHANGED <<heldVars, closing>>
     \/ /\ status \notin {"injected", "error", "cancelled"}
        /\ status = "injecting" => attempts[attempt].cancelRequested
        /\ UNCHANGED <<targetVars, heldVars, closing>>
  /\ Execution!DisposeExecution
  /\ UNCHANGED <<backendVars, mockVars>> /\ HealthRow

\* target.dispose().
TargetReleased ==
  /\ ~OnStack /\ shutdownStage = "leaving" /\ ~leaving
  /\ shutdownStage' = "stopping"
  /\ Target!DisposeTarget
  /\ IF status \in {"injecting", "injected"} THEN ProviderDisconnect
                                             ELSE UNCHANGED <<heldVars, closing>>
  /\ UNCHANGED <<backendVars, mockVars, watching, confirming>> /\ Listeners

\* backend.stop(), in the same turn.
BackendStopAsked ==
  /\ ~InSync /\ OnStack
  /\ Shutdown(closer)
  /\ Requested /\ Listeners

\* backend.dispose(), when it has returned.
BackendDisposed ==
  /\ ~OnStack /\ Dispose(closer)
  /\ calls' = IF operation = 0 THEN calls ELSE Aborted(operation)
  /\ MockStop
  /\ shutdownStage' = "closed"
  /\ UNCHANGED <<intended, closing, watching, confirming>> /\ Listeners
-----------------------------------------------------------------------------
(* Execution.                                                              *)

\* Validation of a request: nothing runs, and the target is injected.
Accepts == phase \notin Execution!BusyPhases /\ status = "injected"

\* Variant: a request that was accepted before is not validated again.
SubmitAccepted == Execution!Execute

\* submit(): the controller validates whatever was asked before.
Submit == IF Accepts THEN Execution!Execute ELSE UNCHANGED executionVars

\* execute(): an acceptable request is asked about, when the setting is on,
\* or submitted; the request captures its script and text now.
ExecuteClicked ==
  /\ ~confirming /\ Accepts
  /\ \/ confirming' = TRUE /\ UNCHANGED executionVars
     \/ Submit /\ UNCHANGED confirming

\* The dialog is answered, whatever has become of the target meanwhile.
ConfirmationEnds ==
  /\ confirming /\ confirming' = FALSE
  /\ Submit \/ UNCHANGED executionVars

Executes ==
  /\ Quiet
  /\ \/ ExecuteClicked \/ ConfirmationEnds
     \/ UNCHANGED confirming /\ (Execution!CancelRun \/ Execution!ProviderRuns \/ Execution!RunTimer)
  /\ UNCHANGED <<backendVars, targetVars, mockVars, heldVars, closing, watching, shutdownStage, healthy>>

Microtasks ==
  \/ \E n \in Begun : CallBackend(n) \/ AnswerHeard(n) \/ Continues(n)
  \/ \E c \in {launcher, panel} : CallerGoesOn(c)
  \/ \E n \in DOMAIN attempts : InjectHeard(n)
  \/ DisconnectHeard
  \/ TargetReleased \/ BackendStopAsked \/ BackendDisposed

Timers ==
  \/ \E n \in Begun : MockStarts(n) \/ OperationTimesOut(n)
  \/ \E n \in DOMAIN attempts : InjectTimerFires(n)
  \/ \E outcome \in Target!Outcomes : InjectEnds(outcome)
  \/ Closed

Clicks ==
  \/ Click
  \/ \E next \in BOOLEAN : Switch(next)
  \/ TargetAsks \/ CancelClicked \/ DisconnectClicked

NovaNext == Microtasks \/ Timers \/ Clicks \/ ShutdownBegins \/ Executes

NovaSpec == NovaInit /\ [][NovaNext]_novaVars

(* Queued continuations run, and armed timers fire.                        *)
NovaFairSpec ==
  /\ NovaSpec
  /\ WF_novaVars(Microtasks)
  /\ WF_novaVars(Timers)
-----------------------------------------------------------------------------
(* Properties.                                                             *)

(* "An execution in flight cannot outlive the target it runs on"           *)
(* (services.tsx): whatever takes the target away, a click, the switch, a  *)
(* stop, a timeout of the backend, ends it in the same turn.               *)
ExecutionNeedsTarget == active # 0 /\ watching => status = "injected"

(* "Backend not running, target visible" cannot be reached                 *)
(* (LocalMockDeveloperBackend.ts), and the mock runs only while the        *)
(* controller starts it, has it ready or is about to stop it.              *)
NothingWithoutBackend ==
  /\ visible => running
  /\ running => state \in {"starting", "ready", "stopping"}
  /\ state = "ready" => running

(* Between turns Nova and the provider agree on the session: injected      *)
(* means that the provider holds one, and a provider that holds one is     *)
(* shown injected or leaving.  No late, timed-out or cancelled injection   *)
(* leaves a session behind.                                                *)
SessionIsHeld ==
  Quiet /\ ~targetDisposed =>
    /\ session = held
    /\ status = "injected" => held
    /\ held => status \in {"injected", "disconnecting"}

(* The health row never says "healthy" of a target that is gone            *)
(* (services.tsx, unwatchHealth).                                          *)
HealthyIsVisible == healthy /\ watching => visible /\ state = "ready"

(* The developer tools are never told of a target while the backend does   *)
(* not run or the target is gone, but for a disconnect that a session      *)
(* which went away has not ended yet ("three separate facts decide that",  *)
(* devTools.ts).                                                           *)
ToolsHaveATarget == ToolsTold => running /\ (visible \/ status = "disconnecting")

(* After the shutdown nothing is left: no running mock, target, session,   *)
(* pending injection or start, and nobody waits for an answer.             *)
ShutdownLeavesNothing ==
  shutdownStage = "closed" /\ Quiet =>
    /\ ~running /\ ~visible /\ ~held /\ pendingInject = 0
    /\ \A n \in Begun : ops[n].settled /\ calls[n] # "waiting"
    /\ \A n \in DOMAIN attempts : attempts[n].settled

(* A busy phase belongs to the run waited for, every other run is over,    *)
(* and none is left without its timer.                                     *)
RunIsOwned ==
  /\ Execution!RunIsOwned
  /\ phase \in Execution!BusyPhases /\ watching => active # 0

(* Between turns the target control leads on: the step it offers is one    *)
(* the controller accepts, and a disabled button waits for something in    *)
(* flight that will end, never for nothing.                                *)
OfferIsTaken ==
  Quiet /\ watching =>
    IF Offer.busy
    THEN leaving \/ asked # {} \/ (attempt # 0 /\ attempts[attempt].timer)
    ELSE CASE Offer.step = "inject"     -> status \in Target!Injectable
           [] Offer.step = "cancel"     -> Target!InjectCancellable /\ ~attempts[attempt].cancelRequested
           [] Offer.step = "disconnect" -> held
           [] Offer.step = "detect"     -> ~targetDisposed

(* The backend, its target, the health row, the developer tools, the       *)
(* execution pipeline and the target control agree on what exists.         *)
NovaInv ==
  /\ NovaTypeOK
  /\ NothingWithoutBackend /\ HealthyIsVisible /\ ToolsHaveATarget
  /\ RunIsOwned /\ OfferIsTaken

(* The shutdown ends whatever it finds in flight: it does not wait for a   *)
(* disconnect or a stop that never comes back.                             *)
ShutdownEnds == shutdownStage = "leaving" ~> disposed
=============================================================================
