-------------------------- MODULE TargetController --------------------------
(***************************************************************************)
(* The target pipeline (src/features/target/targetController.ts and        *)
(* targetState.ts): one status, inject attempts of which at most one is    *)
(* waited for, detection passes, the session, and the automatic steps of   *)
(* the settings (Auto detect, Auto inject, Auto reconnect), which are read *)
(* when they are used and so may be either way each time.                  *)
(*                                                                         *)
(* The provider is what the interface TargetProvider promises: it answers  *)
(* an inject, a detection or a disconnect once, with any outcome, at any   *)
(* time or never, and announces what it sees whenever it likes between     *)
(* two turns.  What a detection finds is read when it is answered, as both *)
(* shipped providers do.  NovaServices gives it the simulated target.      *)
(***************************************************************************)
EXTENDS Naturals, Sequences

CONSTANTS
  MaxAttempts, \* bound on the injections one run of the program begins
  MaxPasses    \* bound on its detection passes

ASSUME TargetBounds == MaxAttempts \in Nat /\ MaxPasses \in Nat

VARIABLES
  status,            \* snapshot.status
  detecting,         \* snapshot.detecting
  session,           \* snapshot.session is "active"
  cancelling,        \* snapshot.cancelling
  known,             \* what detection last established
  attempt,           \* the attempt waited for, 0 for null
  attempts,          \* every attempt begun
  detectPass,        \* the newest detection pass
  asked,             \* passes the provider has not answered
  leaving,           \* disconnect() awaits the provider
  reconnectPending,
  startHandled,
  targetDisposed

attemptVars == <<attempt, attempts>>
passVars    == <<detectPass, asked, detecting>>
targetVars  == <<status, session, cancelling, known, attemptVars, passVars, leaving,
                 reconnectPending, startHandled, targetDisposed>>

-----------------------------------------------------------------------------
Statuses == {"unavailable", "detected", "ready", "injecting", "injected",
             "disconnecting", "error", "cancelled"}

Moves ==
  [ unavailable   |-> {"detected"},
    detected      |-> {"ready", "unavailable"},
    ready         |-> {"injecting", "unavailable"},
    injecting     |-> {"injected", "error", "cancelled"},
    injected      |-> {"disconnecting", "error"},
    disconnecting |-> {"ready", "unavailable"},
    error         |-> {"injecting", "ready", "unavailable", "detected"},
    cancelled     |-> {"injecting", "ready", "unavailable", "detected"} ]

\* Variant: a target in use may be injected again.
InjectableAnytime == {"ready", "error", "cancelled", "injected"}

Injectable == {"ready", "error", "cancelled"}
Tooling    == {"detected", "ready", "injecting", "injected", "disconnecting"}

(* A detection: nothing there, there but not usable yet, or usable.        *)
Detections == {"gone", "seen", "usable"}

Outcomes == {"injected", "failed", "cancelled"}

(* out: the provider has not answered the attempt yet.                     *)
Attempt ==
  [ settled: BOOLEAN, timer: BOOLEAN, cancelRequested: BOOLEAN, out: BOOLEAN,
    result: Outcomes \cup {"none"} ]

TargetTypeOK ==
  /\ status \in Statuses
  /\ detecting \in BOOLEAN /\ session \in BOOLEAN /\ cancelling \in BOOLEAN
  /\ known \in Detections
  /\ attempts \in Seq(Attempt) /\ Len(attempts) <= MaxAttempts
  /\ attempt \in 0 .. Len(attempts)
  /\ detectPass \in 0 .. MaxPasses /\ asked \subseteq 1 .. detectPass
  /\ leaving \in BOOLEAN /\ reconnectPending \in BOOLEAN
  /\ startHandled \in BOOLEAN /\ targetDisposed \in BOOLEAN

TargetInit ==
  /\ status = "unavailable"
  /\ known = "gone"
  /\ attempt = 0 /\ attempts = <<>>
  /\ detectPass = 0 /\ asked = {} /\ detecting = FALSE
  /\ session = FALSE /\ cancelling = FALSE /\ leaving = FALSE
  /\ reconnectPending = FALSE /\ startHandled = FALSE /\ targetDisposed = FALSE

-----------------------------------------------------------------------------
(* Attempts.                                                               *)

\* finish(): attempt n is over.
Ended(n, outcome) ==
  /\ attempts' = [attempts EXCEPT ![n].settled = TRUE, ![n].timer = FALSE, ![n].result = outcome]
  /\ attempt' = IF attempt = n THEN 0 ELSE attempt

StatusOf(outcome) == IF outcome = "failed" THEN "error" ELSE outcome

\* finish() with what it shows; active is what the provider says of its session.
Finish(n, outcome, active) ==
  /\ Ended(n, outcome)
  /\ status' = StatusOf(outcome)
  /\ cancelling' = FALSE
  /\ session' = active

\* Variant: the attempt begins before its timer is armed.
BeginUntimed ==
  /\ Len(attempts) < MaxAttempts
  /\ attempts' = Append(attempts, [settled |-> FALSE, timer |-> FALSE, cancelRequested |-> FALSE,
                                   out |-> TRUE, result |-> "none"])
  /\ attempt' = Len(attempts) + 1
  /\ status' = "injecting"
  /\ cancelling' = FALSE

\* The accepted part of inject().
BeginAttempt ==
  /\ Len(attempts) < MaxAttempts
  /\ attempts' = Append(attempts, [settled |-> FALSE, timer |-> TRUE, cancelRequested |-> FALSE,
                                   out |-> TRUE, result |-> "none"])
  /\ attempt' = Len(attempts) + 1
  /\ status' = "injecting"
  /\ cancelling' = FALSE

Inject ==
  /\ status \in Injectable
  /\ BeginAttempt
  /\ UNCHANGED <<session, known, passVars, leaving, reconnectPending, startHandled, targetDisposed>>

\* Variant: the provider's word is taken whether or not it is awaited.
InjectAnsweredLate(n, outcome, active) ==
  /\ n \in DOMAIN attempts /\ attempts[n].out
  /\ attempts' = [attempts EXCEPT ![n].settled = TRUE, ![n].timer = FALSE, ![n].out = FALSE,
                                  ![n].result = outcome]
  /\ attempt' = IF attempt = n THEN 0 ELSE attempt
  /\ status' = StatusOf(outcome) /\ cancelling' = FALSE /\ session' = active
  /\ UNCHANGED <<known, passVars, leaving, reconnectPending, startHandled, targetDisposed>>

\* settle(): the provider answered attempt n, in time or too late.
InjectAnswered(n, outcome, active) ==
  /\ n \in DOMAIN attempts /\ attempts[n].out
  /\ IF attempts[n].settled
     THEN /\ attempts' = [attempts EXCEPT ![n].out = FALSE]
          /\ UNCHANGED <<attempt, status, cancelling, session>>
     ELSE /\ attempts' = [attempts EXCEPT ![n].settled = TRUE, ![n].timer = FALSE,
                                          ![n].out = FALSE, ![n].result = outcome]
          /\ attempt' = IF attempt = n THEN 0 ELSE attempt
          /\ status' = StatusOf(outcome)
          /\ cancelling' = FALSE
          /\ session' = active
  /\ UNCHANGED <<known, passVars, leaving, reconnectPending, startHandled, targetDisposed>>

\* onTimeout(): the provider is told to stop, and the attempt has failed.
InjectTimesOut(n, active) ==
  /\ n \in DOMAIN attempts /\ attempts[n].timer /\ ~attempts[n].settled
  /\ Finish(n, "failed", active)
  /\ UNCHANGED <<known, passVars, leaving, reconnectPending, startHandled, targetDisposed>>

InjectCancellable == attempt # 0 /\ ~attempts[attempt].settled /\ status = "injecting"

\* cancelInject() of a provider that supports it: asks, and decides nothing.
CancelInject ==
  /\ InjectCancellable /\ ~attempts[attempt].cancelRequested
  /\ attempts' = [attempts EXCEPT ![attempt].cancelRequested = TRUE]
  /\ cancelling' = TRUE
  /\ UNCHANGED <<attempt, status, session, known, passVars, leaving, reconnectPending,
                 startHandled, targetDisposed>>
-----------------------------------------------------------------------------
(* Disconnecting.                                                          *)

Rest(detection) == IF detection = "usable" THEN "ready" ELSE "unavailable"

\* A finished request is dismissed.
Dismiss ==
  /\ status \in {"error", "cancelled"}
  /\ status' = Rest(known)
  /\ cancelling' = FALSE
  /\ UNCHANGED <<session, known, attemptVars, passVars, leaving, reconnectPending,
                 startHandled, targetDisposed>>

\* disconnect() of a session, up to the await of the provider.
Disconnect ==
  /\ status = "injected"
  /\ status' = "disconnecting"
  /\ cancelling' = FALSE
  /\ leaving' = TRUE
  /\ UNCHANGED <<session, known, attemptVars, passVars, reconnectPending, startHandled,
                 targetDisposed>>

\* The rest of it, whether the provider succeeded or threw.
Disconnected(active) ==
  /\ leaving
  /\ leaving' = FALSE
  /\ IF status = "disconnecting" THEN status' = Rest(known) /\ session' = active
                                 ELSE UNCHANGED <<status, session>>
  /\ UNCHANGED <<cancelling, known, attemptVars, passVars, reconnectPending, startHandled,
                 targetDisposed>>
-----------------------------------------------------------------------------
(* What detection found: applyDetection().                                 *)

\* Variant: losing the target leaves the attempt in flight running.
LoseTargetOnly ==
  /\ status \in {"injecting", "injected"}
  /\ reconnectPending' \in BOOLEAN
  /\ UNCHANGED attemptVars
  /\ status' = "unavailable"
  /\ cancelling' = FALSE
  /\ session' = FALSE

\* reportLost() and the move to unavailable that follows it.
LoseTarget ==
  /\ status \in {"injecting", "injected"}
  /\ reconnectPending' \in BOOLEAN
  /\ IF attempt # 0 THEN Ended(attempt, "failed") ELSE UNCHANGED attemptVars
  /\ status' = "unavailable"
  /\ cancelling' = FALSE
  /\ session' = FALSE

\* Variant: an injection in flight is left to find out by itself.
TargetGoneUnlessInjecting ==
  IF status = "injected"
  THEN LoseTarget
  ELSE /\ status' = IF status \in {"disconnecting", "injecting"} THEN status ELSE "unavailable"
       /\ session' = FALSE
       /\ UNCHANGED <<attemptVars, cancelling, reconnectPending>>

TargetGone ==
  /\ IF status \in {"injecting", "injected"}
     THEN LoseTarget
     ELSE /\ status' = IF status = "disconnecting" THEN status ELSE "unavailable"
          /\ session' = FALSE
          /\ UNCHANGED <<attemptVars, cancelling, reconnectPending>>

\* A target appears and Auto detect is off, or nothing new is to be learnt.
LeftAlone == UNCHANGED <<status, session, cancelling, attemptVars, reconnectPending>>

\* detected, or ready, or straight on to an injection: Auto reconnect when
\* one is pending, else Auto inject when it is on.
TargetFound(detection) ==
  IF detection = "seen"
  THEN status' = "detected" /\ UNCHANGED <<session, cancelling, attemptVars, reconnectPending>>
  ELSE /\ reconnectPending' = FALSE
       /\ UNCHANGED session
       /\ \/ BeginAttempt
          \/ /\ ~reconnectPending
             /\ status' = "ready" /\ UNCHANGED <<cancelling, attemptVars>>

ApplyDetection(detection, source) ==
  /\ known' = detection
  /\ \/ detection = "gone" /\ TargetGone
     \/ detection # "gone" /\ status = "unavailable" /\ source = "announcement" /\ LeftAlone
     \/ detection # "gone" /\ status = "unavailable" /\ TargetFound(detection)
     \/ detection = "usable" /\ status = "detected" /\ TargetFound(detection)
     \/ detection = "seen" /\ status = "detected" /\ LeftAlone
     \/ detection # "gone" /\ status \notin {"unavailable", "detected"} /\ LeftAlone

\* The provider announces a change it noticed.
Announce(detection) ==
  /\ ~targetDisposed
  /\ ApplyDetection(detection, "announcement")
  /\ UNCHANGED <<passVars, leaving, startHandled, targetDisposed>>

BeginPass ==
  /\ detectPass < MaxPasses
  /\ detectPass' = detectPass + 1
  /\ asked' = asked \cup {detectPass + 1}
  /\ detecting' = TRUE

Detect ==
  /\ BeginPass
  /\ UNCHANGED <<status, session, cancelling, known, attemptVars, leaving, reconnectPending,
                 startHandled, targetDisposed>>

\* The startup pass; without Auto detect it does nothing but count.
StartTarget ==
  /\ ~startHandled
  /\ startHandled' = TRUE
  /\ BeginPass \/ UNCHANGED passVars
  /\ UNCHANGED <<status, session, cancelling, known, attemptVars, leaving, reconnectPending,
                 targetDisposed>>

\* The provider answers a detection pass; only the newest counts.
PassAnswered(pass, detection) ==
  /\ pass \in asked
  /\ asked' = asked \ {pass}
  /\ IF pass = detectPass /\ ~targetDisposed
     THEN detecting' = FALSE /\ ApplyDetection(detection, "pass")
     ELSE UNCHANGED <<status, session, cancelling, known, attemptVars, detecting, reconnectPending>>
  /\ UNCHANGED <<detectPass, leaving, startHandled, targetDisposed>>

\* The provider threw while detecting.
PassFails(pass) ==
  /\ pass \in asked
  /\ asked' = asked \ {pass}
  /\ detecting' = IF pass = detectPass /\ ~targetDisposed THEN FALSE ELSE detecting
  /\ UNCHANGED <<status, session, cancelling, known, attemptVars, detectPass, leaving,
                 reconnectPending, startHandled, targetDisposed>>

\* dispose(): the attempt in flight is told it was cancelled, the status stays.
DisposeTarget ==
  /\ targetDisposed' = TRUE
  /\ attempt' = 0
  /\ attempts' = IF attempt = 0 THEN attempts
                 ELSE [attempts EXCEPT ![attempt].settled = TRUE, ![attempt].timer = FALSE,
                                       ![attempt].result = "cancelled"]
  /\ UNCHANGED <<status, session, cancelling, known, passVars, leaving, reconnectPending,
                 startHandled>>
-----------------------------------------------------------------------------
UserAsks == Inject \/ CancelInject \/ Disconnect \/ Dismiss \/ Detect \/ StartTarget \/ DisposeTarget

ProviderAnswers ==
  \/ \E n \in DOMAIN attempts, outcome \in Outcomes, active \in BOOLEAN :
       InjectAnswered(n, outcome, active)
  \/ \E pass \in asked, detection \in Detections : PassAnswered(pass, detection)
  \/ \E pass \in asked : PassFails(pass)
  \/ \E active \in BOOLEAN : Disconnected(active)
  \/ \E detection \in Detections : Announce(detection)

TimerEnds == \E n \in DOMAIN attempts, active \in BOOLEAN : InjectTimesOut(n, active)

TargetNext == UserAsks \/ ProviderAnswers \/ TimerEnds

TargetSpec == TargetInit /\ [][TargetNext]_targetVars

(* Timers fire; the provider is not obliged to answer anything but a       *)
(* disconnect.                                                             *)
TargetFairSpec ==
  /\ TargetSpec
  /\ WF_targetVars(TimerEnds)
  /\ WF_targetVars(\E active \in BOOLEAN : Disconnected(active))
-----------------------------------------------------------------------------
(* Properties.                                                             *)

(* The panel says "injecting" exactly while one attempt is waited for, and *)
(* that attempt can always end: it is unsettled and its timer is armed     *)
(* (targetController.ts, inject and finish).                               *)
InjectingIsOwned ==
  /\ attempt # 0 => /\ status = "injecting"
                    /\ ~attempts[attempt].settled /\ attempts[attempt].timer
  /\ status = "injecting" /\ ~targetDisposed => attempt # 0

(* No caller of inject() is forgotten: an attempt that is not the one      *)
(* waited for has been told its result, and no timer is left behind to     *)
(* disconnect a later session (abandonAttempt, finish, dispose).           *)
NoAttemptIsForgotten ==
  \A n \in DOMAIN attempts :
    n # attempt => attempts[n].settled /\ ~attempts[n].timer /\ attempts[n].result # "none"

(* The panel says "detecting" exactly while the newest pass is unanswered: *)
(* an older answer neither ends it nor is taken for it (detect).           *)
DetectingIsTheNewest ==
  /\ detectPass \in asked => detecting
  /\ detecting /\ ~targetDisposed => detectPass \in asked

(* No order of requests, answers, timers and announcements leaves an       *)
(* injection nobody can end, a caller nobody tells, or a "detecting" that  *)
(* no pass answers.                                                        *)
TargetInv == TargetTypeOK /\ InjectingIsOwned /\ NoAttemptIsForgotten /\ DetectingIsTheNewest

(* Once detection says that the target is gone, nothing shows it: no       *)
(* injection goes on, none has succeeded, none can be asked for            *)
(* (applyDetection: "pretending to still be injected would be a lie").     *)
GoneIsNotShown == known = "gone" => status \in {"unavailable", "disconnecting"}

\* What one turn may do: a move, or the moves that follow each other in it.
TurnMoves ==
  [ Moves EXCEPT !["unavailable"] = @ \cup {"ready", "injecting"},
                 !["detected"]    = @ \cup {"injecting"},
                 !["injecting"]   = @ \cup {"unavailable"},
                 !["injected"]    = @ \cup {"unavailable"} ]

(* transitionTarget() never throws: no order of requests, answers, timers  *)
(* and announcements asks for a move the machine does not have.            *)
EveryMoveIsLegal == [][status' # status => status' \in TurnMoves[status]]_targetVars

(* A target becomes injected only by the answer to the attempt waited for, *)
(* never by one that timed out, was lost or was abandoned.                 *)
OnlyLiveAnswersInject ==
  [][status # "injected" /\ status' = "injected" =>
       attempt # 0 /\ ~attempts[attempt].settled /\ attempts'[attempt].result = "injected"]_targetVars

(* Every injection ends, whatever the provider does, by its timer.         *)
InjectionEnds == status = "injecting" /\ ~targetDisposed ~> status # "injecting" \/ targetDisposed

=============================================================================
