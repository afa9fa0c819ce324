------------------------- MODULE BackendController -------------------------
(***************************************************************************)
(* The backend lifecycle controller (src/features/backend/                 *)
(* backendController.ts and backendState.ts): one snapshot state, at most  *)
(* one operation the controller waits for, a timeout per operation, and    *)
(* any number of callers awaiting start(), stop() and restart().           *)
(*                                                                         *)
(* The backend itself is only its answers here: a call it was given stays  *)
(* out for as long as it likes and may come back at any moment, also after *)
(* the controller stopped waiting for it.  LocalServiceSystem replaces it  *)
(* by the Local Service backend.                                           *)
(*                                                                         *)
(* The program is one JavaScript event loop.  Three kinds of step are      *)
(* told apart, because what may run between them differs:                  *)
(*   - a request (start, stop, restart) may come at any moment, also from  *)
(*     a listener called while a state change is published;                *)
(*   - a continuation of an await runs when nothing synchronous is on the  *)
(*     stack (~InSync), and an answer only after the handlers of the       *)
(*     answers before it;                                                  *)
(*   - a timer runs only when no continuation is left to run (Settled).    *)
(* dispose() is called by the shutdown of src/app/services.tsx alone,      *)
(* after it awaited stop().catch(...), whose extra turn lets the settle    *)
(* handlers queued before it run first.                                    *)
(***************************************************************************)
EXTENDS Naturals

CONSTANTS
  Clients,  \* the callers of start(), stop(), restart() and startup()
  MaxOps    \* bound on the operations one run of the program begins

ASSUME MaxOpsAssumption == MaxOps \in Nat

VARIABLES
  state,          \* snapshot.state
  error,          \* snapshot.error is not null
  readySince,     \* snapshot.readySince is not null
  operation,      \* the operation waited for, 0 for null
  operationSeq,   \* operations begun so far
  ops,            \* every operation begun, by its number
  waiting,        \* what each client awaits
  startupHandled,
  disposed

vars == <<state, error, readySince, operation, operationSeq, ops, waiting,
          startupHandled, disposed>>

-----------------------------------------------------------------------------
States == {"created", "starting", "ready", "stopping", "stopped", "error"}

Transitions ==
  [ created  |-> {"starting"},
    starting |-> {"ready", "error", "stopped"},
    ready    |-> {"stopping", "error"},
    stopping |-> {"stopped", "error"},
    stopped  |-> {"starting"},
    error    |-> {"starting", "stopping", "stopped"} ]

Startable == {"created", "stopped", "error"}

Stoppable == {"starting", "ready", "error"}
Busy      == {"starting", "stopping"}

Kinds   == {"start", "stop"}
Results == {"started", "stopped", "cancelled", "failed"}

(* phase: where the body of the operation is.  "announcing" is inside the  *)
(* announce() callback, "calling" awaits the backend, "answered" has       *)
(* applied the answer and waits for its settle handler.  finishing is set  *)
(* from the publication of a timeout or a rejection to its finish().       *)
Operation ==
  [ kind: Kinds, phase: {"announcing", "calling", "answered", "over"},
    finishing: BOOLEAN, settled: BOOLEAN, timer: BOOLEAN,
    result: Results \cup {"none"}, verdict: Results \cup {"none"} ]

Begun == 1 .. operationSeq

Nothing == [what |-> "nothing", on |-> 0]

Wait == [what: {"nothing", "start", "stop", "restart", "shutdown"}, on: 0 .. MaxOps]

TypeOK ==
  /\ state \in States
  /\ error \in BOOLEAN
  /\ readySince \in BOOLEAN
  /\ operationSeq \in 0 .. MaxOps
  /\ operation \in 0 .. operationSeq
  /\ ops \in [Begun -> Operation]
  /\ waiting \in [Clients -> Wait]
  /\ \A c \in Clients : waiting[c].on <= operationSeq
  /\ startupHandled \in BOOLEAN
  /\ disposed \in BOOLEAN

Init ==
  /\ state = "created"
  /\ error = FALSE
  /\ readySince = FALSE
  /\ operation = 0
  /\ operationSeq = 0
  /\ ops = [n \in {} |-> Nothing]
  /\ waiting = [c \in Clients |-> Nothing]
  /\ startupHandled = FALSE
  /\ disposed = FALSE

-----------------------------------------------------------------------------
(* What may run when.                                                      *)

Sync(n) == ops[n].phase = "announcing" \/ ops[n].finishing

InSync == \E n \in Begun : Sync(n)

\* The innermost publication on the stack is the one that returns first.
Innermost(n) == Sync(n) /\ \A m \in Begun : Sync(m) => m <= n

Resumable(c) ==
  /\ waiting[c].what # "nothing"
  /\ waiting[c].on # 0 => ops[waiting[c].on].settled

HandlersRan == ~InSync /\ \A n \in Begun : ops[n].phase # "answered"

Settled ==
  /\ HandlersRan
  /\ \A c \in Clients : ~Resumable(c)

\* Variant: answers are applied without asking whether they are still awaited.
LiveUntilDisposed(n) == n \in Begun /\ ~disposed

IsLive(n) == operation = n /\ ~ops[n].settled /\ ~disposed

MoveTo(s, e, r) ==
  /\ state' = s
  /\ error' = e
  /\ readySince' = r

SnapshotUnchanged == UNCHANGED <<state, error, readySince>>

Await(c, what, on) == waiting' = [waiting EXCEPT ![c] = [what |-> what, on |-> on]]

-----------------------------------------------------------------------------
(* Beginning and ending an operation.                                      *)

\* run(): the operation is registered and its timeout armed before the
\* state it starts in is announced.
Begin(kind) ==
  /\ operationSeq < MaxOps
  /\ operationSeq' = operationSeq + 1
  /\ operation' = operationSeq + 1
  /\ ops' = [n \in 1 .. operationSeq + 1 |->
               IF n \in Begun THEN ops[n]
               ELSE [kind |-> kind, phase |-> "announcing", finishing |-> FALSE,
                     settled |-> FALSE, timer |-> TRUE,
                     result |-> "none", verdict |-> "none"]]

BeginStart == Begin("start") /\ MoveTo("starting", FALSE, readySince)

BeginStop == Begin("stop") /\ MoveTo("stopping", error, readySince)

Resolve(op, r) == [op EXCEPT !.settled = TRUE, !.result = IF op.settled THEN op.result ELSE r]

Cleared(op) == [op EXCEPT !.timer = FALSE]

\* Variant: the timeout is cleared but nobody resolves the callers.
AbandonUnresolved ==
  /\ operation' = 0
  /\ operationSeq' = operationSeq
  /\ IF operation = 0 THEN UNCHANGED ops
     ELSE ops' = [ops EXCEPT ![operation].timer = FALSE]

\* abandonOperation() and the resolution that follows it in both callers.
Abandon ==
  /\ operation' = 0
  /\ operationSeq' = operationSeq
  /\ IF operation = 0
     THEN UNCHANGED ops
     ELSE ops' = [ops EXCEPT ![operation] = Cleared(Resolve(ops[operation], "cancelled"))]

OperationUnchanged == UNCHANGED <<operation, operationSeq, ops>>

-----------------------------------------------------------------------------
(* start(), stop(), restart(), startup(), dispose().                       *)

LiveStart == operation # 0 /\ ops[operation].kind = "start" /\ ~ops[operation].settled
LiveStop  == operation # 0 /\ ops[operation].kind = "stop"  /\ ~ops[operation].settled

\* Refused, or ready already: the caller has its answer at once.
StartAnswersAtOnce(c) ==
  /\ \/ disposed
     \/ state = "ready"
     \/ state \notin Startable /\ ~(state = "starting" /\ LiveStart)
  /\ Await(c, "nothing", 0)
  /\ SnapshotUnchanged /\ OperationUnchanged

JoinStart(c) ==
  /\ ~disposed /\ state = "starting" /\ LiveStart
  /\ Await(c, "start", operation)
  /\ SnapshotUnchanged /\ OperationUnchanged

StartBackend(c) ==
  /\ ~disposed /\ state \in Startable
  /\ BeginStart
  /\ Await(c, "start", operationSeq + 1)

StartFor(c) == StartAnswersAtOnce(c) \/ JoinStart(c) \/ StartBackend(c)

\* stop() with nothing to wait for: a stop() call is over, its callers go on.
StopReturns(c, what) == Await(c, IF what = "stop" THEN "nothing" ELSE what, 0)

NothingToStop(c, what) ==
  /\ disposed \/ state \notin Stoppable
  /\ state = "stopping" => disposed \/ ~LiveStop
  /\ StopReturns(c, what)
  /\ SnapshotUnchanged /\ OperationUnchanged

JoinStop(c, what) ==
  /\ ~disposed /\ state = "stopping" /\ LiveStop
  /\ Await(c, what, operation)
  /\ SnapshotUnchanged /\ OperationUnchanged

\* A start in flight is abandoned, and the backend released without waiting.
AbandonStart(c, what) ==
  /\ ~disposed /\ state = "starting"
  /\ Abandon
  /\ MoveTo("stopped", FALSE, FALSE)
  /\ StopReturns(c, what)

StopBackend(c, what) ==
  /\ ~disposed /\ state \in Stoppable \ {"starting"}
  /\ BeginStop
  /\ Await(c, what, operationSeq + 1)

StopFor(c, what) ==
  NothingToStop(c, what) \/ JoinStop(c, what) \/ AbandonStart(c, what) \/ StopBackend(c, what)

Idle(c) == waiting[c].what = "nothing"

Start(c) ==
  /\ Idle(c) /\ StartFor(c)
  /\ UNCHANGED <<startupHandled, disposed>>

Stop(c) ==
  /\ Idle(c) /\ StopFor(c, "stop")
  /\ UNCHANGED <<startupHandled, disposed>>

Restart(c) ==
  /\ Idle(c) /\ ~disposed
  /\ StopFor(c, "restart")
  /\ UNCHANGED <<startupHandled, disposed>>

\* The launch pass; with Auto start off it does nothing but count.
Startup(c) ==
  /\ Idle(c) /\ ~startupHandled /\ ~disposed
  /\ startupHandled' = TRUE
  /\ \/ StartFor(c)
     \/ UNCHANGED <<state, error, readySince, operation, operationSeq, ops, waiting>>
  /\ UNCHANGED disposed

\* The end of the application: stop(), then dispose() when it returned.
Shutdown(c) ==
  /\ Idle(c) /\ ~disposed
  /\ \A d \in Clients : waiting[d].what # "shutdown"
  /\ StopFor(c, "shutdown")
  /\ UNCHANGED <<startupHandled, disposed>>

Dispose(c) ==
  /\ Resumable(c) /\ HandlersRan /\ waiting[c].what = "shutdown"
  /\ Await(c, "nothing", 0)
  /\ disposed' = TRUE
  /\ Abandon
  /\ SnapshotUnchanged
  /\ UNCHANGED startupHandled

-----------------------------------------------------------------------------
(* The rest of run(): the call, its answer, the settle handler, the timer. *)

\* announce() has returned; the backend is called unless a listener ended
\* the operation meanwhile.
InvokeBackend(n) ==
  /\ Innermost(n) /\ ops[n].phase = "announcing"
  /\ ops' = [ops EXCEPT ![n].phase = IF IsLive(n) THEN "calling" ELSE "over"]
  /\ SnapshotUnchanged
  /\ UNCHANGED <<operation, operationSeq, waiting, startupHandled, disposed>>

Answered(n, verdict) == ops' = [ops EXCEPT ![n].phase = "answered", ![n].verdict = verdict]

AnswerFrame(n) ==
  /\ ops[n].phase = "calling" /\ HandlersRan
  /\ UNCHANGED <<operation, operationSeq, waiting, startupHandled, disposed>>

\* backend.start() came back while the controller still waits for it.
StartAnswered(n, outcome) ==
  /\ AnswerFrame(n) /\ IsLive(n) /\ ops[n].kind = "start"
  /\ Answered(n, outcome)
  /\ CASE outcome = "started"   -> MoveTo("ready", FALSE, TRUE)
       [] outcome = "cancelled" -> MoveTo("stopped", FALSE, FALSE)
       [] outcome = "failed"    -> MoveTo("error", TRUE, FALSE)

\* backend.stop() came back: cleanly, or by throwing ("failed").
StopAnswered(n, outcome) ==
  /\ AnswerFrame(n) /\ IsLive(n) /\ ops[n].kind = "stop"
  /\ Answered(n, outcome)
  /\ IF outcome = "stopped" THEN MoveTo("stopped", FALSE, FALSE)
                            ELSE MoveTo("error", TRUE, FALSE)

\* backend.start() threw: no body is left to run, the rejection handler
\* publishes the error and then finishes the operation.
StartRejected(n) ==
  /\ AnswerFrame(n) /\ IsLive(n) /\ ops[n].kind = "start"
  /\ ops' = [ops EXCEPT ![n].phase = "over", ![n].finishing = TRUE]
  /\ MoveTo("error", TRUE, FALSE)

\* Variant: an answer nobody waits for any more still stops the backend.
LateAnswerStops(n) ==
  /\ AnswerFrame(n) /\ ~IsLive(n)
  /\ Answered(n, "cancelled")
  /\ MoveTo("stopped", FALSE, FALSE)

\* An answer nobody waits for any more.
LateAnswer(n) ==
  /\ AnswerFrame(n) /\ ~IsLive(n)
  /\ Answered(n, "cancelled")
  /\ SnapshotUnchanged

Finish(n, op, r) ==
  /\ ops' = [ops EXCEPT ![n] = Cleared(Resolve(op, r))]
  /\ operation' = IF operation = n THEN 0 ELSE operation

\* Variant: the handler trusts the body's verdict whoever replaced it.
SettleUnchecked(n) ==
  /\ ops[n].phase = "answered" /\ ~InSync
  /\ Finish(n, [ops[n] EXCEPT !.phase = "over"], ops[n].verdict)
  /\ SnapshotUnchanged
  /\ UNCHANGED <<operationSeq, waiting, startupHandled, disposed>>

\* The handler of the body's result; the state was applied by the body.
Settle(n) ==
  LET over == [ops[n] EXCEPT !.phase = "over"] IN
  /\ ops[n].phase = "answered" /\ ~InSync
  /\ \/ /\ ops[n].settled \/ disposed
        /\ ops' = [ops EXCEPT ![n] = over]
        /\ UNCHANGED operation
     \/ /\ ~ops[n].settled /\ ~disposed /\ operation # n
        /\ ops' = [ops EXCEPT ![n] = Resolve(over, "cancelled")]
        /\ UNCHANGED operation
     \/ /\ ~ops[n].settled /\ ~disposed /\ operation = n
        /\ Finish(n, over, ops[n].verdict)
  /\ SnapshotUnchanged
  /\ UNCHANGED <<operationSeq, waiting, startupHandled, disposed>>

\* The timeout: the call is abandoned, the backend released, the error shown.
TimerFires(n) ==
  /\ ops[n].timer /\ Settled
  /\ IF ops[n].settled
     THEN /\ ops' = [ops EXCEPT ![n].timer = FALSE]
          /\ SnapshotUnchanged
     ELSE /\ ops' = [ops EXCEPT ![n].timer = FALSE, ![n].finishing = TRUE]
          /\ MoveTo("error", TRUE, FALSE)
  /\ UNCHANGED <<operation, operationSeq, waiting, startupHandled, disposed>>

\* finish({ status: "failed" }) after the publication.
FinishFailed(n) ==
  /\ Innermost(n) /\ ops[n].finishing
  /\ Finish(n, [ops[n] EXCEPT !.finishing = FALSE], "failed")
  /\ SnapshotUnchanged
  /\ UNCHANGED <<operationSeq, waiting, startupHandled, disposed>>

-----------------------------------------------------------------------------
(* The awaits of the callers.                                              *)

ResumeCaller(c) ==
  /\ Resumable(c) /\ ~InSync /\ waiting[c].what \in {"start", "stop"}
  /\ Await(c, "nothing", 0)
  /\ SnapshotUnchanged /\ OperationUnchanged
  /\ UNCHANGED <<startupHandled, disposed>>

\* restart(), after its await stop().
ResumeRestart(c) ==
  /\ Resumable(c) /\ ~InSync /\ waiting[c].what = "restart"
  /\ StartFor(c)
  /\ UNCHANGED <<startupHandled, disposed>>

-----------------------------------------------------------------------------
Request(c) == Start(c) \/ Stop(c) \/ Restart(c) \/ Startup(c) \/ Shutdown(c)

Resume(c) == ResumeCaller(c) \/ ResumeRestart(c) \/ Dispose(c)

\* What the controller's own code and timers do with operation n.
Progress(n) == InvokeBackend(n) \/ Settle(n) \/ TimerFires(n) \/ FinishFailed(n)

BackendAnswers(n) ==
  \/ \E outcome \in {"started", "cancelled", "failed"} : StartAnswered(n, outcome)
  \/ \E outcome \in {"stopped", "failed"} : StopAnswered(n, outcome)
  \/ StartRejected(n)
  \/ LateAnswer(n)

Next ==
  \/ \E c \in Clients : Request(c) \/ Resume(c)
  \/ \E n \in Begun : Progress(n) \/ BackendAnswers(n)

Spec == Init /\ [][Next]_vars

(* The event loop runs what is queued and fires what is armed; nothing     *)
(* makes the backend answer, or a client ask.                              *)
Fairness ==
  /\ \A c \in Clients : WF_vars(Resume(c))
  /\ \A n \in 1 .. MaxOps : WF_vars(n \in Begun /\ Progress(n))

FairSpec == Spec /\ Fairness
-----------------------------------------------------------------------------
(***************************************************************************)
(* Properties                                                              *)
(***************************************************************************)

(* The controller can always get out of "starting" and "stopping": while   *)
(* it shows either, it waits for an operation of that kind which is not    *)
(* settled and whose timeout is armed, or whose timeout or rejection is    *)
(* just being published.                                                   *)
BusyIsOwned ==
  state \in Busy /\ ~disposed =>
    /\ operation = operationSeq /\ operation # 0
    /\ ops[operation].kind = IF state = "starting" THEN "start" ELSE "stop"
    /\ ~ops[operation].settled
    /\ ops[operation].timer
    /\ ops[operation].phase \in {"announcing", "calling"}

(* Single flight: of all operations begun at most one is still waited for; *)
(* any other unsettled one has its answer applied, or its failure          *)
(* published, and only its handler left to run.                            *)
SingleFlight ==
  \A n \in Begun :
    ~ops[n].settled =>
      \/ n = operation
      \/ ops[n].phase = "answered"
      \/ ops[n].finishing

(* The state is the one the newest operation left: "ready" only when the   *)
(* last thing begun was a start nobody was told had failed or had been     *)
(* cancelled, "stopped" only after a stop or a cancelled start, "error"    *)
(* only after a failure.  So no late answer, timeout or abandoned call of  *)
(* an earlier operation ever shows through.                                *)
StateIsNewestOutcome ==
  operationSeq # 0 /\ ~disposed =>
    LET newest == ops[operationSeq]
        outcome == IF newest.settled THEN newest.result
                   ELSE IF newest.finishing THEN "failed" ELSE newest.verdict IN
    CASE state = "ready"   -> newest.kind = "start" /\ outcome = "started"
      [] state = "stopped" -> outcome \in {"stopped", "cancelled"}
      [] state = "error"   -> outcome = "failed"
      [] state \in Busy    -> outcome = "none"
      [] OTHER             -> FALSE

(* What the panel shows beside the state agrees with it: a failure is      *)
(* shown exactly in "error" (and kept while stopping what failed), a       *)
(* readiness time only while the backend is ready or being stopped.        *)
SnapshotAgrees ==
  /\ state = "error" => error /\ ~readySince
  /\ error => state \in {"error", "stopping"}
  /\ state = "ready" => readySince
  /\ readySince => state \in {"ready", "stopping"}

(* The strengthening of the invariants above that one step preserves. It   *)
(* says where every operation can be: an unsettled one is the one waited   *)
(* for, or has its answer applied, or its failure published; the one       *)
(* waited for is the newest; and while its body runs the state is the one  *)
(* it announced.                                                           *)
BusyOf(kind) == IF kind = "start" THEN "starting" ELSE "stopping"

OperationInv(n) ==
  LET op == ops[n] IN
  /\ op.settled <=> op.result # "none"
  /\ op.phase \in {"announcing", "calling"} => op.verdict = "none"
  /\ op.phase = "answered" => op.verdict # "none"
  /\ op.phase = "calling" /\ op.settled => op.result \in {"cancelled", "failed"}
  /\ op.finishing => ~op.settled /\ op.phase \in {"calling", "over"}
  /\ ~op.settled => n = operation \/ op.phase = "answered" \/ op.finishing
  /\ disposed => op.settled /\ op.phase # "announcing"

CurrentInv ==
  /\ operation \in {0, operationSeq}
  /\ operation # 0 =>
       LET op == ops[operation] IN
       /\ ~op.settled
       /\ op.phase = "over" => op.finishing
       /\ op.phase \in {"announcing", "calling"} /\ ~op.finishing => state = BusyOf(op.kind)
  /\ operation = 0 /\ operationSeq # 0 => ops[operationSeq].settled
  /\ operationSeq = 0 => state = "created"
  /\ state \in Busy /\ ~disposed => operation # 0 /\ ~ops[operation].finishing

LifecycleInv ==
  /\ TypeOK
  /\ \A n \in Begun : OperationInv(n)
  /\ CurrentInv
  /\ BusyIsOwned
  /\ StateIsNewestOutcome
  /\ SnapshotAgrees

(* transitionBackend never throws: every state change that any             *)
(* interleaving of requests, answers and timeouts attempts is one the      *)
(* transition table of backendState.ts allows.                             *)
TransitionsAreLegal == [][state' # state => state' \in Transitions[state]]_vars

(* A caller is told the truth: an operation resolves to "started" while    *)
(* the backend is ready and to "stopped" while it is stopped, and to       *)
(* "failed" while the error is shown or a newer operation has replaced it. *)
ResultsAreTrue ==
  [][\A n \in Begun : ops[n].result = "none" =>
       CASE ops'[n].result = "started" -> state' = "ready"
         [] ops'[n].result = "stopped" -> state' = "stopped"
         [] ops'[n].result = "failed"  -> state' = "error" \/ operationSeq > n
         [] OTHER                      -> TRUE]_vars

(* Once disposed, no answer or timer moves the state any more.             *)
DisposedIsFrozen == [][disposed => UNCHANGED <<state, error, readySince>>]_vars

(* Every caller of start, stop and restart is eventually answered, whether *)
(* or not the backend ever is: a hung backend, a superseded operation and  *)
(* a dispose all resolve it.  A restart may be held up by MaxOps alone.    *)
CallersAreAnswered ==
  \A c \in Clients :
    waiting[c].what # "nothing" ~>
      \/ waiting[c].what = "nothing"
      \/ waiting[c].what = "restart" /\ operationSeq = MaxOps

(* The controller does not stay busy: it leaves "starting" and "stopping"  *)
(* unless it is disposed.                                                  *)
BusyEnds == state \in Busy ~> state \notin Busy \/ disposed

(* Whatever the backend does or never does, every operation ends, for the  *)
(* panel that shows it and for everyone who waits for it.                  *)
OperationsEnd == CallersAreAnswered /\ BusyEnds
-----------------------------------------------------------------------------
(***************************************************************************)
(* The controller implements BackendLifecycle: an operation has ended when *)
(* its answer is applied, its failure published or its callers told.       *)
(***************************************************************************)
OutcomeOf(op) ==
  IF op.finishing \/ op.result = "failed" THEN "failed"
  ELSE IF op.verdict # "none" THEN op.verdict ELSE op.result

Lifecycle == INSTANCE BackendLifecycle WITH
  mode     <- state,
  outcomes <- [n \in Begun |-> OutcomeOf(ops[n])],
  told     <- [n \in Begun |-> ops[n].result],
  closed   <- disposed

(* Serial operations, one outcome each, truthful answers: every step of    *)
(* the controller is a step of the abstract lifecycle or leaves it alone.  *)
ImplementsLifecycle == Lifecycle!Spec
=============================================================================
