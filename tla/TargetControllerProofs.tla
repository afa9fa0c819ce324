----------------------- MODULE TargetControllerProofs -----------------------
(***************************************************************************)
(* Proofs about TargetController, for any number of injections and of      *)
(* detection passes.  TargetInv is inductive as it stands: an attempt that *)
(* is not settled is the one waited for, so whatever ends an attempt, its  *)
(* answer or its timer, finds the status it may leave.                     *)
(***************************************************************************)
EXTENDS TargetController, TLAPS

USE TargetBounds

LEMMA TargetInitInv == TargetInit => TargetInv
<1> SUFFICES ASSUME TargetInit PROVE TargetInv
  OBVIOUS
<1> USE DEF TargetInit
<1>1. TargetTypeOK
  <2>1. attempts \in Seq(Attempt) /\ Len(attempts) = 0 /\ attempt \in 0 .. Len(attempts)
    OBVIOUS
  <2>2. Len(attempts) <= MaxAttempts /\ detectPass \in 0 .. MaxPasses
    BY <2>1
  <2>3. QED
    BY <2>1, <2>2 DEF TargetTypeOK, Statuses, Detections
<1>2. InjectingIsOwned /\ NoAttemptIsForgotten
  BY DEF InjectingIsOwned, NoAttemptIsForgotten
<1>3. DetectingIsTheNewest
  BY DEF DetectingIsTheNewest
<1>4. QED
  BY <1>1, <1>2, <1>3 DEF TargetInv

-----------------------------------------------------------------------------
(* The attempts.                                                           *)

(* Everything the invariant says of the attempts and the status.           *)
AttemptsInv ==
  /\ attempts \in Seq(Attempt) /\ Len(attempts) <= MaxAttempts
  /\ attempt \in 0 .. Len(attempts)
  /\ status \in Statuses /\ cancelling \in BOOLEAN /\ session \in BOOLEAN
  /\ targetDisposed \in BOOLEAN
  /\ InjectingIsOwned /\ NoAttemptIsForgotten

(* Replacing one attempt of the sequence.                                  *)
LEMMA OneAttemptChanges ==
  ASSUME attempts \in Seq(Attempt), NEW n \in DOMAIN attempts, NEW a \in Attempt,
         attempts' = [attempts EXCEPT ![n] = a]
  PROVE  /\ attempts' \in Seq(Attempt) /\ Len(attempts') = Len(attempts)
         /\ DOMAIN attempts' = DOMAIN attempts
         /\ attempts'[n] = a
         /\ \A m \in DOMAIN attempts : m # n => attempts'[m] = attempts[m]
  OBVIOUS

(* An attempt is given its result once: nobody but the one waited for is   *)
(* unsettled, or has its timer armed.                                      *)
LEMMA UnsettledIsWaitedFor ==
  ASSUME AttemptsInv, NEW n \in DOMAIN attempts, ~attempts[n].settled \/ attempts[n].timer
  PROVE  n = attempt /\ attempt # 0 /\ status = "injecting"
<1>1. n = attempt /\ n # 0
  BY DEF AttemptsInv, NoAttemptIsForgotten
<1>2. QED
  BY <1>1 DEF AttemptsInv, InjectingIsOwned

(* However the attempt waited for ends, nobody is forgotten.               *)
LEMMA EndingInv ==
  ASSUME AttemptsInv, NEW n \in DOMAIN attempts, n = attempt \/ attempt = 0,
         NEW out \in BOOLEAN, NEW outcome \in Outcomes,
         attempts' = [attempts EXCEPT ![n] = [attempts[n] EXCEPT !.settled = TRUE, !.timer = FALSE,
                                                                 !.out = out, !.result = outcome]],
         attempt' = 0,
         status' \in Statuses, status' # "injecting" \/ targetDisposed', cancelling' \in BOOLEAN,
         session' \in BOOLEAN, targetDisposed' \in BOOLEAN
  PROVE  AttemptsInv' /\ attempts'[n].result = outcome
<1> DEFINE over == [attempts[n] EXCEPT !.settled = TRUE, !.timer = FALSE, !.out = out,
                                       !.result = outcome]
<1>1. attempts[n] \in Attempt
  BY DEF AttemptsInv
<1>2. over \in Attempt /\ over.settled /\ ~over.timer /\ over.result = outcome /\ outcome # "none"
  BY <1>1 DEF Attempt, Outcomes
<1> HIDE DEF over
<1>3. /\ attempts' \in Seq(Attempt) /\ Len(attempts') = Len(attempts)
      /\ DOMAIN attempts' = DOMAIN attempts
      /\ attempts'[n] = over
      /\ \A m \in DOMAIN attempts : m # n => attempts'[m] = attempts[m]
  <2>1. attempts \in Seq(Attempt) /\ attempts' = [attempts EXCEPT ![n] = over]
    BY DEF AttemptsInv, over
  <2>2. QED
    BY <1>2, <2>1, OneAttemptChanges
<1>4. NoAttemptIsForgotten'
  <2>1. \A m \in DOMAIN attempts : m # n =>
          attempts[m].settled /\ ~attempts[m].timer /\ attempts[m].result # "none"
    BY DEF AttemptsInv, NoAttemptIsForgotten
  <2>2. QED
    BY <1>2, <1>3, <2>1 DEF NoAttemptIsForgotten
<1>5. InjectingIsOwned'
  BY DEF InjectingIsOwned
<1>6. QED
  BY <1>2, <1>3, <1>4, <1>5 DEF AttemptsInv

(* A new attempt begins when none is waited for.                           *)
LEMMA BeginAttemptInv ==
  ASSUME AttemptsInv, status # "injecting", BeginAttempt, UNCHANGED <<session, targetDisposed>>
  PROVE  AttemptsInv'
<1> DEFINE fresh == [settled |-> FALSE, timer |-> TRUE, cancelRequested |-> FALSE,
                     out |-> TRUE, result |-> "none"]
<1>1. attempt = 0
  BY DEF AttemptsInv, InjectingIsOwned
<1>2. fresh \in Attempt
  BY DEF Attempt
<1>3. attempts' = Append(attempts, fresh) /\ attempt' = Len(attempts) + 1 /\ status' = "injecting"
      /\ cancelling' = FALSE /\ Len(attempts) < MaxAttempts
  BY DEF BeginAttempt
<1>a. ~fresh.settled /\ fresh.timer
  OBVIOUS
<1> HIDE DEF fresh
<1>4. /\ attempts' \in Seq(Attempt) /\ Len(attempts') = Len(attempts) + 1
      /\ attempts'[Len(attempts) + 1] = fresh
      /\ \A m \in DOMAIN attempts' : m # Len(attempts) + 1 =>
           m \in DOMAIN attempts /\ attempts'[m] = attempts[m]
  BY <1>2, <1>3 DEF AttemptsInv
<1>5. NoAttemptIsForgotten'
  BY <1>1, <1>3, <1>4 DEF AttemptsInv, NoAttemptIsForgotten
<1>6. InjectingIsOwned'
  BY <1>a, <1>3, <1>4 DEF InjectingIsOwned
<1>7. attempt' \in 0 .. Len(attempts') /\ Len(attempts') <= MaxAttempts
  BY <1>3, <1>4 DEF AttemptsInv
<1>8. QED
  BY <1>3, <1>4, <1>5, <1>6, <1>7 DEF AttemptsInv, Statuses

(* Steps that begin and end no attempt.                                    *)
LEMMA AttemptsKept ==
  ASSUME AttemptsInv, UNCHANGED attemptVars, status' \in Statuses, cancelling' \in BOOLEAN,
         session' \in BOOLEAN, targetDisposed' = targetDisposed,
         status' = status \/ (status # "injecting" /\ status' # "injecting")
  PROVE  AttemptsInv'
  BY DEF AttemptsInv, attemptVars, InjectingIsOwned, NoAttemptIsForgotten

(* finish(), by the timer of the attempt waited for.                       *)
LEMMA EndedFacts ==
  ASSUME AttemptsInv, NEW n \in DOMAIN attempts, NEW outcome \in Outcomes, Ended(n, outcome)
  PROVE  attempts' = [attempts EXCEPT ![n] = [attempts[n] EXCEPT !.settled = TRUE, !.timer = FALSE,
                                                !.out = attempts[n].out, !.result = outcome]]
<1>1. attempts[n] \in Attempt
  BY DEF AttemptsInv
<1>2. QED
  BY <1>1 DEF Ended, Attempt

-----------------------------------------------------------------------------
(* What one step does to the attempts and the status.                      *)

(* TargetInv and GoneIsNotShown, by what the steps keep together.          *)
PassInv ==
  /\ detecting \in BOOLEAN /\ detectPass \in 0 .. MaxPasses /\ asked \subseteq 1 .. detectPass
  /\ DetectingIsTheNewest

RestInv ==
  /\ known \in Detections /\ GoneIsNotShown
  /\ leaving \in BOOLEAN /\ reconnectPending \in BOOLEAN /\ startHandled \in BOOLEAN

StepInv == AttemptsInv /\ PassInv /\ RestInv

LEMMA StepInvIsTargetInv == StepInv <=> TargetInv /\ GoneIsNotShown
  BY DEF StepInv, AttemptsInv, PassInv, RestInv, TargetInv, TargetTypeOK

LEMMA PassKept ==
  ASSUME PassInv, UNCHANGED <<passVars, targetDisposed>> PROVE PassInv'
  BY DEF PassInv, passVars, DetectingIsTheNewest

LEMMA UserInv ==
  ASSUME StepInv, Inject \/ CancelInject \/ Disconnect \/ Dismiss
  PROVE  StepInv'
<1> USE DEF StepInv
<1>1. CASE Inject
  <2>1. AttemptsInv'
    BY <1>1, BeginAttemptInv DEF Inject, Injectable
  <2>2. PassInv' /\ RestInv'
    BY <1>1, PassKept DEF Inject, BeginAttempt, RestInv, GoneIsNotShown, Injectable
  <2>3. QED
    BY <2>1, <2>2
<1>2. CASE CancelInject
  <2>1. attempt \in DOMAIN attempts /\ attempts[attempt] \in Attempt
    BY <1>2 DEF CancelInject, InjectCancellable, AttemptsInv
  <2> DEFINE asking == [attempts[attempt] EXCEPT !.cancelRequested = TRUE]
  <2>2. /\ asking \in Attempt /\ asking.settled = attempts[attempt].settled
        /\ asking.timer = attempts[attempt].timer
    BY <2>1 DEF Attempt
  <2>3. attempts' = [attempts EXCEPT ![attempt] = asking]
    BY <1>2 DEF CancelInject
  <2> HIDE DEF asking
  <2>4. attempts \in Seq(Attempt)
    BY DEF AttemptsInv
  <2>5. /\ attempts' \in Seq(Attempt) /\ Len(attempts') = Len(attempts)
        /\ DOMAIN attempts' = DOMAIN attempts /\ attempts'[attempt] = asking
        /\ \A m \in DOMAIN attempts : m # attempt => attempts'[m] = attempts[m]
    BY <2>1, <2>2, <2>3, <2>4, OneAttemptChanges
  <2>6. InjectingIsOwned' /\ NoAttemptIsForgotten'
    BY <1>2, <2>2, <2>5 DEF CancelInject, AttemptsInv, InjectingIsOwned, NoAttemptIsForgotten
  <2>7. AttemptsInv'
    BY <1>2, <2>5, <2>6 DEF CancelInject, AttemptsInv
  <2>8. PassInv' /\ RestInv'
    BY <1>2, PassKept DEF CancelInject, RestInv, GoneIsNotShown
  <2>9. QED
    BY <2>7, <2>8
<1>3. CASE Disconnect
  <2>1. AttemptsInv'
    BY <1>3, AttemptsKept DEF Disconnect, Statuses, AttemptsInv
  <2>2. QED
    BY <1>3, <2>1, PassKept DEF Disconnect, RestInv, GoneIsNotShown
<1>4. CASE Dismiss
  <2>1. AttemptsInv'
    BY <1>4, AttemptsKept DEF Dismiss, Statuses, AttemptsInv, Rest
  <2>2. QED
    BY <1>4, <2>1, PassKept DEF Dismiss, RestInv, GoneIsNotShown, Rest
<1>5. QED
  BY <1>1, <1>2, <1>3, <1>4

LEMMA AnswerInv ==
  ASSUME StepInv, NEW n \in DOMAIN attempts, NEW outcome \in Outcomes, NEW active \in BOOLEAN,
         InjectAnswered(n, outcome, active)
  PROVE  StepInv'
<1> USE DEF StepInv
<1>1. PassInv' /\ attempts[n] \in Attempt
  BY PassKept DEF InjectAnswered, AttemptsInv
<1>2. CASE attempts[n].settled
  <2> DEFINE late == [attempts[n] EXCEPT !.out = FALSE]
  <2>1. /\ late \in Attempt /\ late.settled /\ late.timer = attempts[n].timer
        /\ late.result = attempts[n].result
    BY <1>1, <1>2 DEF Attempt
  <2>2. attempts' = [attempts EXCEPT ![n] = late] /\ UNCHANGED <<attempt, status, cancelling, session>>
    BY <1>2 DEF InjectAnswered
  <2> HIDE DEF late
  <2>3. attempts \in Seq(Attempt) /\ n # attempt
    BY <1>2 DEF AttemptsInv, InjectingIsOwned
  <2>4. /\ attempts' \in Seq(Attempt) /\ Len(attempts') = Len(attempts)
        /\ DOMAIN attempts' = DOMAIN attempts /\ attempts'[n] = late
        /\ \A m \in DOMAIN attempts : m # n => attempts'[m] = attempts[m]
    BY <2>1, <2>2, <2>3, OneAttemptChanges
  <2>5. attempt # 0 => attempt \in DOMAIN attempts
    BY <2>3 DEF AttemptsInv
  <2>6. InjectingIsOwned' /\ NoAttemptIsForgotten'
    BY <2>1, <2>2, <2>3, <2>4, <2>5
       DEF AttemptsInv, InjectingIsOwned, NoAttemptIsForgotten, InjectAnswered
  <2>7. AttemptsInv' /\ RestInv'
    BY <2>2, <2>4, <2>6 DEF AttemptsInv, RestInv, GoneIsNotShown, InjectAnswered
  <2>8. QED
    BY <1>1, <2>7
<1>3. CASE ~attempts[n].settled
  <2>1. n = attempt /\ status = "injecting"
    BY <1>3, UnsettledIsWaitedFor
  <2>2. /\ attempts' = [attempts EXCEPT ![n] = [attempts[n] EXCEPT !.settled = TRUE, !.timer = FALSE,
                                                 !.out = FALSE, !.result = outcome]]
        /\ attempt' = 0 /\ status' = StatusOf(outcome) /\ cancelling' = FALSE /\ session' = active
    BY <1>1, <1>3, <2>1 DEF InjectAnswered, Attempt
  <2>3. status' \in Statuses /\ status' # "injecting"
    BY <2>2 DEF StatusOf, Outcomes, Statuses
  <2>4. AttemptsInv'
    BY <2>1, <2>2, <2>3, EndingInv DEF InjectAnswered, AttemptsInv
  <2>5. RestInv'
    BY <2>1 DEF InjectAnswered, RestInv, GoneIsNotShown
  <2>6. QED
    BY <1>1, <2>4, <2>5
<1>4. QED
  BY <1>2, <1>3

LEMMA TimeoutInv ==
  ASSUME StepInv, NEW n \in DOMAIN attempts, NEW active \in BOOLEAN, InjectTimesOut(n, active)
  PROVE  StepInv'
<1> USE DEF StepInv
<1>1. n = attempt /\ status = "injecting"
  BY UnsettledIsWaitedFor DEF InjectTimesOut
<1>2. Ended(n, "failed") /\ "failed" \in Outcomes /\ attempts[n].out \in BOOLEAN
  <2>1. attempts[n] \in Attempt
    BY DEF AttemptsInv
  <2>2. attempts[n].out \in BOOLEAN
    BY <2>1 DEF Attempt
  <2>3. QED
    BY <2>2 DEF InjectTimesOut, Finish, Outcomes
<1>3. AttemptsInv'
  <2>1. attempt' = 0 /\ status' = "error" /\ cancelling' = FALSE /\ session' = active
    BY <1>1 DEF InjectTimesOut, Finish, Ended, StatusOf
  <2>2. status' \in Statuses /\ cancelling' \in BOOLEAN /\ session' \in BOOLEAN
        /\ status' # "injecting" /\ targetDisposed' \in BOOLEAN
    BY <2>1 DEF InjectTimesOut, AttemptsInv, Statuses
  <2>3. attempts' = [attempts EXCEPT ![n] = [attempts[n] EXCEPT !.settled = TRUE, !.timer = FALSE,
                                               !.out = attempts[n].out, !.result = "failed"]]
    BY <1>2, EndedFacts
  <2>4. QED
    BY <1>1, <1>2, <2>1, <2>2, <2>3, EndingInv
<1>4. PassInv' /\ RestInv'
  BY <1>1, PassKept DEF InjectTimesOut, RestInv, GoneIsNotShown
<1>5. QED
  BY <1>3, <1>4

LEMMA DisconnectedInv ==
  ASSUME StepInv, NEW active \in BOOLEAN, Disconnected(active)
  PROVE  StepInv'
<1> USE DEF StepInv
<1>1. AttemptsInv'
  BY AttemptsKept DEF Disconnected, Statuses, AttemptsInv, Rest
<1>2. PassInv' /\ RestInv'
  BY PassKept DEF Disconnected, RestInv, GoneIsNotShown, Rest
<1>3. QED
  BY <1>1, <1>2

LEMMA DisposeInv ==
  ASSUME StepInv, DisposeTarget PROVE StepInv'
<1> USE DEF StepInv
<1>1. CASE attempt = 0
  BY <1>1, PassKept DEF DisposeTarget, AttemptsInv, PassInv, passVars, RestInv, GoneIsNotShown,
                        InjectingIsOwned, NoAttemptIsForgotten, DetectingIsTheNewest
<1>2. CASE attempt # 0
  <2>1. attempt \in DOMAIN attempts /\ attempts[attempt] \in Attempt
    BY <1>2 DEF AttemptsInv
  <2>2. attempts' = [attempts EXCEPT ![attempt] =
                       [attempts[attempt] EXCEPT !.settled = TRUE, !.timer = FALSE,
                          !.out = attempts[attempt].out, !.result = "cancelled"]]
    BY <1>2, <2>1 DEF DisposeTarget, Attempt
  <2>3. attempts[attempt].out \in BOOLEAN /\ "cancelled" \in Outcomes
    BY <2>1 DEF Attempt, Outcomes
  <2>4. AttemptsInv'
    <3>1. attempt' = 0 /\ status' \in Statuses /\ cancelling' \in BOOLEAN /\ session' \in BOOLEAN
          /\ targetDisposed' \in BOOLEAN /\ (status' # "injecting" \/ targetDisposed')
      BY DEF DisposeTarget, AttemptsInv
    <3>2. QED
      BY <2>1, <2>2, <2>3, <3>1, EndingInv
  <2>5. PassInv' /\ RestInv'
    BY DEF DisposeTarget, PassInv, passVars, RestInv, GoneIsNotShown, DetectingIsTheNewest
  <2>6. QED
    BY <2>4, <2>5
<1>3. QED
  BY <1>1, <1>2

-----------------------------------------------------------------------------
(* What detection found.                                                   *)

(* The target is lost: the attempt waited for, if any, has failed.         *)
LEMMA LoseTargetInv ==
  ASSUME AttemptsInv, LoseTarget, ~targetDisposed, UNCHANGED targetDisposed
  PROVE  AttemptsInv' /\ status' = "unavailable" /\ reconnectPending' \in BOOLEAN
<1>1. /\ status' \in Statuses /\ status' # "injecting" /\ cancelling' \in BOOLEAN
      /\ session' \in BOOLEAN /\ targetDisposed' \in BOOLEAN
  BY DEF LoseTarget, Statuses, AttemptsInv
<1>2. CASE attempt = 0
  <2>1. status = "injected"
    BY <1>2 DEF LoseTarget, AttemptsInv, InjectingIsOwned
  <2>2. QED
    BY <1>1, <1>2, <2>1, AttemptsKept DEF LoseTarget, AttemptsInv
<1>3. CASE attempt # 0
  <2>1. attempt \in DOMAIN attempts /\ attempts[attempt] \in Attempt
    BY <1>3 DEF AttemptsInv
  <2>2. Ended(attempt, "failed") /\ "failed" \in Outcomes /\ attempts[attempt].out \in BOOLEAN
    BY <1>3, <2>1 DEF LoseTarget, Outcomes, Attempt
  <2>3. attempts' = [attempts EXCEPT ![attempt] =
                       [attempts[attempt] EXCEPT !.settled = TRUE, !.timer = FALSE,
                          !.out = attempts[attempt].out, !.result = "failed"]]
    BY <2>1, <2>2, EndedFacts
  <2>4. attempt' = 0
    BY <2>2 DEF Ended
  <2>5. AttemptsInv'
    BY <1>1, <2>1, <2>2, <2>3, <2>4, EndingInv
  <2>6. QED
    BY <2>5 DEF LoseTarget
<1>4. QED
  BY <1>2, <1>3

LEMMA ApplyDetectionInv ==
  ASSUME AttemptsInv, RestInv, ~targetDisposed, UNCHANGED targetDisposed,
         NEW detection \in Detections, NEW source, ApplyDetection(detection, source)
  PROVE  /\ AttemptsInv' /\ GoneIsNotShown' /\ known' \in Detections
         /\ reconnectPending' \in BOOLEAN
<1>1. known' = detection
  BY DEF ApplyDetection
<1>2. CASE detection = "gone" /\ TargetGone
  <2>1. CASE LoseTarget
    BY <1>1, <1>2, <2>1, LoseTargetInv DEF GoneIsNotShown
  <2>2. CASE status \notin {"injecting", "injected"}
    <3>1. /\ status' = IF status = "disconnecting" THEN status ELSE "unavailable"
          /\ session' = FALSE /\ UNCHANGED <<attemptVars, cancelling, reconnectPending>>
      BY <1>2, <2>2 DEF TargetGone
    <3>2. AttemptsInv'
      BY <2>2, <3>1, AttemptsKept DEF AttemptsInv, Statuses
    <3>3. QED
      BY <1>1, <3>1, <3>2 DEF GoneIsNotShown, RestInv
  <2>3. QED
    BY <1>2, <2>1, <2>2 DEF TargetGone
<1>3. CASE detection # "gone" /\ LeftAlone
  <2>1. AttemptsInv'
    BY <1>3, AttemptsKept DEF LeftAlone, AttemptsInv
  <2>2. QED
    BY <1>1, <1>3, <2>1 DEF LeftAlone, GoneIsNotShown, RestInv
<1>4. CASE detection # "gone" /\ status \in {"unavailable", "detected"} /\ TargetFound(detection)
  <2>1. ASSUME BeginAttempt, UNCHANGED session PROVE AttemptsInv'
    BY <1>4, <2>1, BeginAttemptInv
  <2>2. ASSUME status' \in {"detected", "ready"}, UNCHANGED <<session, cancelling, attemptVars>>
        PROVE  AttemptsInv'
    BY <1>4, <2>2, AttemptsKept DEF AttemptsInv, Statuses
  <2>3. AttemptsInv'
    BY <1>4, <2>1, <2>2 DEF TargetFound
  <2>4. QED
    BY <1>1, <1>4, <2>3 DEF TargetFound, GoneIsNotShown, RestInv
<1>5. QED
  BY <1>2, <1>3, <1>4 DEF ApplyDetection

LEMMA AnnounceInv ==
  ASSUME StepInv, NEW detection \in Detections, Announce(detection) PROVE StepInv'
<1>1. AttemptsInv' /\ GoneIsNotShown' /\ known' \in Detections /\ reconnectPending' \in BOOLEAN
  BY ApplyDetectionInv DEF Announce, StepInv
<1>2. QED
  BY <1>1, PassKept DEF Announce, StepInv, RestInv

LEMMA PassAnsweredInv ==
  ASSUME StepInv, NEW pass \in asked, NEW detection \in Detections, PassAnswered(pass, detection)
  PROVE  StepInv'
<1>1. PassInv'
  BY DEF StepInv, PassAnswered, PassInv, DetectingIsTheNewest
<1>2. CASE pass = detectPass /\ ~targetDisposed
  <2>1. AttemptsInv' /\ GoneIsNotShown' /\ known' \in Detections /\ reconnectPending' \in BOOLEAN
    BY <1>2, ApplyDetectionInv DEF PassAnswered, StepInv
  <2>2. QED
    BY <1>1, <2>1 DEF PassAnswered, StepInv, RestInv
<1>3. CASE ~(pass = detectPass /\ ~targetDisposed)
  BY <1>1, <1>3, AttemptsKept DEF PassAnswered, StepInv, RestInv, GoneIsNotShown, AttemptsInv
<1>4. QED
  BY <1>2, <1>3

LEMMA PassesInv ==
  ASSUME StepInv, Detect \/ StartTarget \/ \E pass \in asked : PassFails(pass)
  PROVE  StepInv'
<1>1. UNCHANGED <<status, session, cancelling, known, attemptVars, leaving, reconnectPending,
                  targetDisposed>>
  BY DEF Detect, StartTarget, PassFails
<1>2. AttemptsInv' /\ RestInv'
  BY <1>1, AttemptsKept DEF StepInv, RestInv, GoneIsNotShown, AttemptsInv, Detect, StartTarget, PassFails
<1>3. CASE BeginPass
  <2>1. detectPass' \in 0 .. MaxPasses /\ asked' \subseteq 1 .. detectPass'
    BY <1>3 DEF BeginPass, StepInv, PassInv
  <2>2. QED
    BY <1>2, <1>3, <2>1 DEF BeginPass, StepInv, PassInv, DetectingIsTheNewest
<1>4. CASE \E pass \in asked : PassFails(pass)
  <2>1. PICK pass \in asked : PassFails(pass)
    BY <1>4
  <2>2. PassInv'
    BY <2>1 DEF PassFails, StepInv, PassInv, DetectingIsTheNewest
  <2>3. QED
    BY <1>2, <2>2 DEF StepInv
<1>5. CASE UNCHANGED passVars
  BY <1>1, <1>2, <1>5, PassKept DEF StepInv
<1>6. QED
  BY <1>3, <1>4, <1>5 DEF Detect, StartTarget

LEMMA TargetStepInv == StepInv /\ [TargetNext]_targetVars => StepInv'
<1> SUFFICES ASSUME StepInv, [TargetNext]_targetVars PROVE StepInv'
  OBVIOUS
<1>1. CASE UserAsks
  BY <1>1, UserInv, PassesInv, DisposeInv DEF UserAsks
<1>2. CASE ProviderAnswers
  BY <1>2, AnswerInv, PassAnsweredInv, PassesInv, DisconnectedInv, AnnounceInv DEF ProviderAnswers
<1>3. CASE TimerEnds
  BY <1>3, TimeoutInv DEF TimerEnds
<1>4. CASE UNCHANGED targetVars
  BY <1>4, AttemptsKept, PassKept DEF targetVars, StepInv, RestInv, GoneIsNotShown, AttemptsInv
<1>5. QED
  BY <1>1, <1>2, <1>3, <1>4 DEF TargetNext

LEMMA TargetStepInvariant == TargetSpec => []StepInv
<1>1. TargetInit => StepInv
  BY TargetInitInv, StepInvIsTargetInv DEF TargetInit, GoneIsNotShown
<1>2. QED
  BY <1>1, TargetStepInv, PTL DEF TargetSpec

(* No order of requests, answers, timers and announcements leaves an       *)
(* injection nobody can end, a caller nobody tells, a timer that would     *)
(* end a later session, or a "detecting" that no pass answers.             *)
THEOREM InjectionsAreOwned == TargetSpec => []TargetInv
<1>1. StepInv => TargetInv
  BY StepInvIsTargetInv
<1>2. QED
  BY <1>1, TargetStepInvariant, PTL

(* Once detection says the target is gone, nothing shows it.               *)
THEOREM NothingShowsAGoneTarget == TargetSpec => []GoneIsNotShown
<1>1. StepInv => GoneIsNotShown
  BY StepInvIsTargetInv
<1>2. QED
  BY <1>1, TargetStepInvariant, PTL

-----------------------------------------------------------------------------
(* What one step may do to the status.                                     *)

LEMMA LegalMove ==
  ASSUME StepInv, TargetNext, status' # status PROVE status' \in TurnMoves[status]
<1> USE DEF TurnMoves, Moves
<1>1. CASE UserAsks
  BY <1>1 DEF UserAsks, Inject, Injectable, BeginAttempt, CancelInject, Disconnect, Dismiss, Rest,
              Detect, StartTarget, DisposeTarget
<1>2. ASSUME NEW n \in DOMAIN attempts, NEW outcome \in Outcomes, NEW active \in BOOLEAN,
             InjectAnswered(n, outcome, active) \/ InjectTimesOut(n, active)
      PROVE  status' \in TurnMoves[status]
  <2>1. ~attempts[n].settled /\ status' \in {"injected", "error", "cancelled"}
    BY <1>2 DEF InjectAnswered, InjectTimesOut, Finish, StatusOf, Outcomes
  <2>2. status = "injecting"
    BY <2>1, UnsettledIsWaitedFor DEF StepInv
  <2>3. QED
    BY <2>1, <2>2
<1>3. ASSUME NEW detection \in Detections, NEW source, ApplyDetection(detection, source)
      PROVE  status' \in TurnMoves[status]
  <2>1. status \in Statuses
    BY DEF StepInv, AttemptsInv
  <2>2. CASE TargetGone
    BY <2>1, <2>2 DEF TargetGone, LoseTarget, Statuses
  <2>3. CASE TargetFound(detection) /\ status \in {"unavailable", "detected"}
    BY <2>3, <1>3 DEF TargetFound, BeginAttempt, ApplyDetection
  <2>4. QED
    BY <1>3, <2>2, <2>3 DEF ApplyDetection, LeftAlone
<1>4. ASSUME NEW active \in BOOLEAN, Disconnected(active) PROVE status' \in TurnMoves[status]
  BY <1>4 DEF Disconnected, Rest
<1>5. CASE ProviderAnswers
  <2>1. CASE \E pass \in asked : PassFails(pass)
    BY <2>1 DEF PassFails
  <2>2. ASSUME NEW pass \in asked, NEW detection \in Detections, PassAnswered(pass, detection)
        PROVE  status' \in TurnMoves[status]
    BY <1>3, <2>2 DEF PassAnswered
  <2>3. ASSUME NEW detection \in Detections, Announce(detection)
        PROVE  status' \in TurnMoves[status]
    BY <1>3, <2>3 DEF Announce
  <2>4. QED
    BY <1>2, <1>4, <1>5, <2>1, <2>2, <2>3 DEF ProviderAnswers
<1>6. CASE TimerEnds
  BY <1>2, <1>6 DEF TimerEnds, Outcomes
<1>7. QED
  BY <1>1, <1>5, <1>6 DEF TargetNext

(* transitionTarget() never throws: whatever the interleaving, every       *)
(* change of the status is a move of the machine, or the moves one turn    *)
(* makes.                                                                  *)
THEOREM EveryTargetMoveIsLegal == TargetSpec => EveryMoveIsLegal
<1>1. StepInv /\ [TargetNext]_targetVars
        => [status' # status => status' \in TurnMoves[status]]_targetVars
  BY LegalMove
<1>2. QED
  BY <1>1, TargetStepInvariant, PTL DEF TargetSpec, EveryMoveIsLegal

LEMMA LiveInjection ==
  ASSUME StepInv, TargetNext, status # "injected", status' = "injected"
  PROVE  attempt # 0 /\ ~attempts[attempt].settled /\ attempts'[attempt].result = "injected"
<1>1. PICK n \in DOMAIN attempts, outcome \in Outcomes, active \in BOOLEAN :
        InjectAnswered(n, outcome, active)
  <2>1. ~UserAsks
    BY DEF UserAsks, Inject, BeginAttempt, CancelInject, Disconnect, Dismiss, Rest, Detect,
           StartTarget, DisposeTarget
  <2>2. ~TimerEnds
    BY DEF TimerEnds, InjectTimesOut, Finish, StatusOf
  <2>3. \A detection \in Detections, source \in {"pass", "announcement"} :
          ~ApplyDetection(detection, source)
    BY DEF ApplyDetection, TargetGone, LoseTarget, LeftAlone, TargetFound, BeginAttempt
  <2>4. QED
    BY <2>1, <2>2, <2>3 DEF TargetNext, ProviderAnswers, PassAnswered, PassFails, Disconnected, Rest,
                            Announce
<1>2. ~attempts[n].settled
  BY <1>1 DEF InjectAnswered
<1>3. n = attempt /\ attempt # 0
  BY <1>2, UnsettledIsWaitedFor DEF StepInv
<1>4. outcome = "injected"
  BY <1>1, <1>2 DEF InjectAnswered, StatusOf
<1>5. attempts[n] \in Attempt /\ attempts \in Seq(Attempt)
  BY DEF StepInv, AttemptsInv
<1>6. attempts'[n].result = "injected"
  <2>1. attempts' = [attempts EXCEPT ![n] = [attempts[n] EXCEPT !.settled = TRUE, !.timer = FALSE,
                                               !.out = FALSE, !.result = outcome]]
    BY <1>1, <1>2, <1>5 DEF InjectAnswered
  <2>2. attempts'[n] = [attempts[n] EXCEPT !.settled = TRUE, !.timer = FALSE, !.out = FALSE,
                                           !.result = outcome]
    BY <1>5, <2>1
  <2>3. QED
    BY <1>4, <1>5, <2>2 DEF Attempt
<1>7. QED
  BY <1>2, <1>3, <1>6

(* A target becomes injected only by the answer to the attempt waited for: *)
(* one that timed out, was lost or was abandoned never injects.            *)
THEOREM NoLateAnswerInjects == TargetSpec => OnlyLiveAnswersInject
<1>1. StepInv /\ [TargetNext]_targetVars
        => [status # "injected" /\ status' = "injected" =>
              attempt # 0 /\ ~attempts[attempt].settled
              /\ attempts'[attempt].result = "injected"]_targetVars
  BY LiveInjection
<1>2. QED
  BY <1>1, TargetStepInvariant, PTL DEF TargetSpec, OnlyLiveAnswersInject

-----------------------------------------------------------------------------
(* What the panel shows beside the status.                                 *)

(* "disconnecting" is shown exactly while the provider is awaited, and the *)
(* attempt waited for is shown as being cancelled once that was asked.     *)
PanelInv ==
  /\ leaving <=> status = "disconnecting"
  /\ attempt # 0 /\ attempts[attempt].cancelRequested => cancelling

LEMMA FreshAttempt ==
  ASSUME AttemptsInv, BeginAttempt
  PROVE  /\ attempt' = Len(attempts) + 1 /\ Len(attempts') = Len(attempts) + 1
         /\ attempt' # 0 /\ status' = "injecting" /\ cancelling' = FALSE
         /\ attempts'[attempt'].cancelRequested = FALSE
BY DEF BeginAttempt, AttemptsInv

LEMMA PanelKept ==
  ASSUME StepInv, PanelInv, leaving' = leaving,
         status' = "disconnecting" <=> status = "disconnecting",
         \/ attempt' = 0
         \/ UNCHANGED <<attempt, cancelling>> /\ attempts'[attempt] = attempts[attempt]
         \/ attempt' # 0 /\ attempts'[attempt'].cancelRequested = FALSE
  PROVE  PanelInv'
BY DEF PanelInv

LEMMA PanelDetects ==
  ASSUME StepInv, PanelInv, NEW detection \in Detections, NEW source,
         ApplyDetection(detection, source), leaving' = leaving
  PROVE  PanelInv'
<1>1. AttemptsInv
  BY DEF StepInv
<1>2. status \in {"injecting", "injected"} \/ attempt = 0
  BY <1>1 DEF AttemptsInv, InjectingIsOwned
<1>3. CASE TargetGone
  <2>1. status' = "disconnecting" <=> status = "disconnecting"
    BY <1>3 DEF TargetGone, LoseTarget
  <2>2. CASE status \in {"injecting", "injected"}
    <3>1. attempt' = 0
      BY <1>3, <2>2 DEF TargetGone, LoseTarget, Ended, attemptVars
    <3>2. QED
      BY <2>1, <3>1, PanelKept
  <2>3. CASE status \notin {"injecting", "injected"}
    <3>1. attempt' = 0
      BY <1>2, <1>3, <2>3 DEF TargetGone, attemptVars
    <3>2. QED
      BY <2>1, <3>1, PanelKept
  <2>4. QED
    BY <2>2, <2>3
<1>4. CASE TargetFound(detection) /\ status \in {"unavailable", "detected"}
  <2>1. CASE BeginAttempt
    BY <1>1, <1>4, <2>1, FreshAttempt, PanelKept
  <2>2. CASE ~BeginAttempt
    <3>1. UNCHANGED <<cancelling, attemptVars>> /\ status' \in {"detected", "ready"}
      BY <1>4, <2>2 DEF TargetFound
    <3>2. QED
      BY <1>4, <3>1, PanelKept DEF attemptVars
  <2>3. QED
    BY <2>1, <2>2
<1>5. CASE LeftAlone
  BY <1>5, PanelKept DEF LeftAlone, attemptVars
<1>6. QED
  BY <1>3, <1>4, <1>5 DEF ApplyDetection

LEMMA PanelStep == StepInv /\ PanelInv /\ [TargetNext]_targetVars => PanelInv'
<1> SUFFICES ASSUME StepInv, PanelInv, [TargetNext]_targetVars PROVE PanelInv'
  OBVIOUS
<1>1. AttemptsInv /\ status \in Statuses
  BY DEF StepInv, AttemptsInv
<1>2. CASE Inject
  BY <1>1, <1>2, FreshAttempt, PanelKept DEF Inject, Injectable
<1>3. CASE CancelInject
  <2>1. cancelling' = TRUE /\ UNCHANGED <<status, leaving>>
    BY <1>3 DEF CancelInject
  <2>2. QED
    BY <2>1 DEF PanelInv
<1>4. CASE Disconnect \/ Dismiss
  <2>1. attempt = 0
    BY <1>1, <1>4 DEF Disconnect, Dismiss, AttemptsInv, InjectingIsOwned
  <2>2. attempt' = 0
    BY <1>4, <2>1 DEF Disconnect, Dismiss, attemptVars
  <2>3. leaving' <=> status' = "disconnecting"
    BY <1>4 DEF Disconnect, Dismiss, Rest, PanelInv
  <2>4. QED
    BY <2>2, <2>3 DEF PanelInv
<1>5. ASSUME UNCHANGED <<status, cancelling, attemptVars, leaving>> PROVE PanelInv'
  BY <1>5, PanelKept DEF attemptVars
<1>6. CASE DisposeTarget
  BY <1>6, PanelKept DEF DisposeTarget
<1>7. ASSUME NEW n \in DOMAIN attempts, NEW outcome \in Outcomes, NEW active \in BOOLEAN,
             InjectAnswered(n, outcome, active)
      PROVE  PanelInv'
  <2>1. CASE attempts[n].settled
    <3>1. attempts[n] \in Attempt
      BY <1>1 DEF AttemptsInv
    <3>2. attempts' = [attempts EXCEPT ![n].out = FALSE] /\ UNCHANGED <<attempt, status, cancelling, leaving>>
      BY <1>7, <2>1 DEF InjectAnswered
    <3>3. attempt # 0 => attempt # n
      BY <1>1, <2>1 DEF AttemptsInv, InjectingIsOwned
    <3>4. attempt # 0 => attempts'[attempt] = attempts[attempt]
      BY <1>1, <3>2, <3>3 DEF AttemptsInv
    <3>5. QED
      BY <3>2, <3>4 DEF PanelInv
  <2>2. CASE ~attempts[n].settled
    <3>1. n = attempt /\ status = "injecting"
      BY <1>1, <2>2, UnsettledIsWaitedFor
    <3>2. attempt' = 0 /\ status' # "disconnecting" /\ leaving' = leaving
      BY <1>7, <2>2, <3>1 DEF InjectAnswered, StatusOf, Outcomes
    <3>3. QED
      BY <3>1, <3>2, PanelKept
  <2>3. QED
    BY <2>1, <2>2
<1>8. CASE TimerEnds
  <2>1. PICK n \in DOMAIN attempts, active \in BOOLEAN : InjectTimesOut(n, active)
    BY <1>8 DEF TimerEnds
  <2>2. n = attempt /\ status = "injecting"
    BY <1>1, <2>1, UnsettledIsWaitedFor DEF InjectTimesOut
  <2>3. attempt' = 0 /\ status' # "disconnecting" /\ leaving' = leaving
    BY <2>1, <2>2 DEF InjectTimesOut, Finish, Ended, StatusOf
  <2>4. QED
    BY <2>2, <2>3, PanelKept
<1>9. ASSUME NEW active \in BOOLEAN, Disconnected(active) PROVE PanelInv'
  <2>1. status = "disconnecting" /\ attempt = 0
    BY <1>1, <1>9 DEF Disconnected, PanelInv, AttemptsInv, InjectingIsOwned
  <2>2. attempt' = 0 /\ leaving' = FALSE /\ status' # "disconnecting"
    BY <1>9, <2>1 DEF Disconnected, Rest, attemptVars
  <2>3. QED
    BY <2>2 DEF PanelInv
<1>10. ASSUME NEW pass \in asked, NEW detection \in Detections, PassAnswered(pass, detection)
       PROVE  PanelInv'
  BY <1>5, <1>10, PanelDetects DEF PassAnswered
<1>11. ASSUME NEW detection \in Detections, Announce(detection) PROVE PanelInv'
  BY <1>11, PanelDetects DEF Announce
<1>12. CASE Detect \/ StartTarget \/ (\E pass \in asked : PassFails(pass)) \/ UNCHANGED targetVars
  BY <1>5, <1>12 DEF Detect, StartTarget, PassFails, targetVars
<1>13. QED
  BY <1>2, <1>3, <1>4, <1>6, <1>7, <1>8, <1>9, <1>10, <1>11, <1>12
     DEF TargetNext, UserAsks, ProviderAnswers

(* The panel never shows a disconnect nobody awaits, nor hides one that is *)
(* awaited, and says "cancelling" while the attempt it shows was asked to. *)
THEOREM ThePanelIsCurrent == TargetSpec => []PanelInv
<1>1. TargetInit => StepInv /\ PanelInv
  BY TargetInitInv, StepInvIsTargetInv DEF TargetInit, GoneIsNotShown, PanelInv
<1>2. QED
  BY <1>1, TargetStepInv, PanelStep, PTL DEF TargetSpec
=============================================================================
