------------------------- MODULE LocalServiceSystem -------------------------
(***************************************************************************)
(* The Local Service backend under its lifecycle controller: every action  *)
(* that makes the controller call the backend is a BackendController       *)
(* action together with what LocalServiceBackend does in the same turn,    *)
(* and the answers the controller waits for are the ones the session       *)
(* client gets from the service.                                           *)
(*                                                                         *)
(* Requests reach the service in the order they were sent (the command is  *)
(* synchronous).  InOrder says whether the answers come back in that order *)
(* too.  The listeners of the application never call start() or stop(), so *)
(* requests come between turns only.  The target controller is reduced to  *)
(* what it asks of the provider: detections, one attachment at a time, its *)
(* cancellation, and its end.                                              *)
(***************************************************************************)
EXTENDS BackendController, LocalServiceBackend

CONSTANTS
  InOrder,    \* answers arrive in the order of their requests
  MaxFaults,  \* bound on timeouts, bridge failures and refused handshakes
  MaxCalls    \* bound on the requests in flight when something new is asked

ASSUME BoundsAssumption == InOrder \in BOOLEAN /\ MaxFaults \in Nat /\ MaxCalls \in Nat

VARIABLES
  service,   \* what the service keeps
  client,    \* what Nova keeps of it
  returned,  \* operations whose backend call is over without a request
  faults     \* faults so far

localVars == <<service, client, returned, faults>>
sysVars   == <<vars, localVars>>

SysTypeOK ==
  /\ TypeOK
  /\ service \in Services
  /\ client \in ClientType
  /\ returned \subseteq Begun
  /\ faults \in 0 .. MaxFaults

SysInit ==
  /\ Init
  /\ service = NoSession
  /\ client = FreshClient
  /\ returned = {}
  /\ faults = 0

-----------------------------------------------------------------------------
(* Turns of the event loop.                                                *)

Turn == Settled /\ returned = {}

Room == Len(client.calls) < MaxCalls

Fault == faults < MaxFaults /\ faults' = faults + 1

calls == client.calls

Without(c, i) == [c EXCEPT !.calls = RemoveAt(c.calls, i)]

\* Nobody awaits call i any more: it is gone once the service has handled it.
GiveUp(c, i) ==
  IF c.calls[i].answer = Unanswered THEN [c EXCEPT !.calls[i].awaited = FALSE]
                                    ELSE Without(c, i)

\* The same for the call that P describes; there is one at most.
Unawaited(c, P(_)) ==
  LET described == {i \in DOMAIN c.calls : P(c.calls[i])} IN
  IF described = {} THEN c ELSE GiveUp(c, CHOOSE i \in described : TRUE)

\* Ids in use anywhere; a new session gets another one.
IdsInUse ==
  {service.id, client.session} \cup {calls[i].sid : i \in DOMAIN calls}
                               \cup {calls[i].answer.id : i \in DOMAIN calls}

FreshId == CHOOSE id \in 1 .. 2 * Len(calls) + 3 : id \notin IdsInUse

-----------------------------------------------------------------------------
(* What the controller asks of the backend.                                *)

\* What a call of start operation n waits for; the close() of a start that
\* failed has no signal, and is waited for to its end.
Starts(call, n) == call.awaited /\ call.why = "start" /\ call.n = n

\* abort() of start operation n: its handshake runs on as an orphan.
Aborted(c, n) ==
  LET mine(call)   == Starts(call, n)
      opening      == \E i \in DOMAIN c.calls : mine(c.calls[i]) /\ c.calls[i].op = "handshake"
      orphan(call) == IF mine(call) THEN [call EXCEPT !.why = "orphan"] ELSE call IN
  IF opening THEN NewGeneration(OnCalls(c, orphan)) ELSE Unawaited(c, mine)

\* abort(), then releaseBackend().
Released(n) == StopCalled(Aborted(client, n), "release", 0)

LocalUnchanged == UNCHANGED <<service, faults>>

\* A start that is aborted has nothing left to wait for; a stop has.
ReturnsOnAbort(n) == IF ops[n].kind = "start" /\ ops[n].phase = "calling" /\
                        \E i \in DOMAIN calls : Starts(calls[i], n)
                     THEN {n} ELSE {}

Ask(c) ==
  /\ Turn /\ Room /\ Request(c)
  /\ IF state = "starting" /\ state' = "stopped"
     THEN client' = Released(operation) /\ returned' = ReturnsOnAbort(operation)
     ELSE UNCHANGED <<client, returned>>
  /\ LocalUnchanged

Invoke(n) ==
  /\ InvokeBackend(n)
  /\ IF ops[n].kind = "start"
     THEN client' = StartCalled(client, n) /\ returned' = returned
     ELSE /\ client' = StopCalled(client, "stop", n)
          /\ returned' = IF client.session = 0 THEN returned \cup {n} ELSE returned
  /\ LocalUnchanged

TimeOut(n) ==
  /\ Turn /\ ~ops[n].settled /\ TimerFires(n) /\ Fault
  /\ client' = Released(n)
  /\ returned' = ReturnsOnAbort(n)
  /\ UNCHANGED service

CloseDown(c) ==
  /\ Dispose(c)
  /\ client' = IF operation = 0 THEN StopCalled(client, "release", 0) ELSE Released(operation)
  /\ returned' = IF operation = 0 THEN returned ELSE returned \cup ReturnsOnAbort(operation)
  /\ LocalUnchanged

\* The backend's answer to operation n, heeded or not.
Tells(n, verdict) ==
  \/ StartAnswered(n, verdict)
  \/ StopAnswered(n, verdict)
  \/ LateAnswer(n)

ReturnAtOnce(n) ==
  /\ n \in returned
  /\ Tells(n, IF ops[n].kind = "start" THEN "cancelled" ELSE "stopped")
  /\ returned' = returned \ {n}
  /\ UNCHANGED client /\ LocalUnchanged

Bookkeeping ==
  /\ \/ \E n \in Begun : Settle(n) \/ FinishFailed(n)
     \/ \E c \in Clients : ResumeCaller(c) \/ ResumeRestart(c)
  /\ UNCHANGED localVars

-----------------------------------------------------------------------------
(* The service, and the answers on their way back.                         *)

\* The service is done with call i; an answer nobody awaits is dropped.
Reply(c, i, answer) ==
  IF c.calls[i].awaited THEN [c EXCEPT !.calls[i].answer = answer] ELSE Without(c, i)

ServiceHandles(i) ==
  /\ Turn
  /\ i \in DOMAIN calls /\ calls[i].answer = Unanswered
  /\ \A j \in 1 .. i - 1 : calls[j].answer # Unanswered
  /\ LET call == calls[i]
         done == Handle(service, call.op, call.sid, FreshId) IN
     /\ service' = done.service
     /\ client' = Reply(client, i, done.answer)
  /\ UNCHANGED <<vars, returned, faults>>

\* The OS gave no randomness: the handshake is refused.
HandshakeRefused(i) ==
  /\ Turn /\ Fault
  /\ i \in DOMAIN calls /\ calls[i].answer = Unanswered /\ calls[i].op = "handshake"
  /\ \A j \in 1 .. i - 1 : calls[j].answer # Unanswered
  /\ client' = Reply(client, i, Refused)
  /\ UNCHANGED <<vars, returned, service>>

ControllerUnchanged == UNCHANGED vars

(* The continuation of call, in state c of the client, with r: what send() *)
(* made of the answer ans.  lostNow: send() itself forgot the session.     *)
Opens(c, call, r, ans) ==
  /\ call.op = "handshake" /\ call.why = "start"
  /\ IF r = "ok"
     THEN LET opened == Opened(c, call, ans.id) IN
          IF call.gen /\ call.life
          THEN /\ client' = Send([opened EXCEPT !.running = TRUE], "health", "start", call.n)
               /\ ControllerUnchanged
          ELSE client' = opened /\ Tells(call.n, "cancelled")
     ELSE client' = c /\ Tells(call.n, IF call.life THEN "failed" ELSE "cancelled")

StartChecked(c, call, r, ans) ==
  /\ call.op = "health" /\ call.why = "start"
  /\ LET read == ReadHealth(c, call, r, ans.attached)
         down == [read EXCEPT !.running = FALSE] IN
     CASE ~read.running \/ ~call.life -> client' = read /\ Tells(call.n, "cancelled")
       [] read.running /\ call.life /\ ~HealthFailed(call, r) ->
            client' = Schedule(read) /\ Tells(call.n, "started")
       [] OTHER ->
            /\ client' = Close(down, "failed", call.n)
            /\ IF down.session = 0 THEN Tells(call.n, "failed") ELSE ControllerUnchanged

CloseAnswered(c, call, r, lostNow) ==
  /\ call.why \in {"stop", "failed", "release"}
  /\ client' = Closed(c, ~call.gen \/ lostNow)
  /\ CASE call.why = "stop"    -> Tells(call.n, "stopped")
       [] call.why = "failed"  -> Tells(call.n, "failed")
       [] call.why = "release" -> ControllerUnchanged

Recovers(c, call, r, ans) ==
  /\ call.why = "recover"
  /\ LET opened == IF r = "ok" THEN Opened(c, call, ans.id) ELSE c IN
     client' = CASE ~opened.running \/ ~call.life -> Schedule(opened)
                 [] opened.running /\ call.life /\ r = "ok" /\ call.gen ->
                      Send(opened, "health", "check", 0)
                 [] OTHER -> Schedule(Row(opened, "error"))
  /\ ControllerUnchanged

OtherAnswers(c, call, r, ans) ==
  /\ \/ /\ call.why = "orphan"
        /\ client' = IF r = "ok" THEN Opened(c, call, ans.id) ELSE c
     \/ /\ call.why = "check"
        /\ client' = Schedule(ReadHealth(c, call, r, ans.attached))
     \/ /\ call.why = "detect"
        /\ client' = CASE r = "ok" -> Absorb(c, ans.attached) [] r = "lost" -> Gone(c) [] OTHER -> c
     \/ /\ call.why = "inject"
        /\ client' = CASE r = "ok" -> Attached(c) [] r = "lost" -> Gone(c) [] OTHER -> SendDetach(c)
     \/ /\ call.why \in {"repair", "nothing"}
        /\ client' = c
  /\ ControllerUnchanged

Continue(c, call, r, ans, lostNow) ==
  \/ Opens(c, call, r, ans)
  \/ StartChecked(c, call, r, ans)
  \/ CloseAnswered(c, call, r, lostNow)
  \/ Recovers(c, call, r, ans)
  \/ OtherAnswers(c, call, r, ans)

\* An answer arrives; send() discards one that outlived its session.
Deliver(i) ==
  /\ Turn
  /\ i \in DOMAIN calls /\ calls[i].awaited /\ calls[i].answer # Unanswered
  /\ InOrder => i = 1
  /\ LET call    == calls[i]
         ans     == call.answer
         stale   == call.op # "handshake" /\ ~call.gen
         lostNow == ans.is = "lost" /\ ~stale
         rest    == Without(client, i) IN
     Continue(IF lostNow THEN Forget(rest) ELSE rest, call,
              IF stale THEN "lost" ELSE ans.is, ans, lostNow)
  /\ UNCHANGED <<service, returned, faults>>

\* The deadline of race(): the request may still be handled later.
RequestTimesOut(i) ==
  /\ Turn /\ Fault
  /\ i \in DOMAIN calls /\ calls[i].awaited
  /\ Continue(GiveUp(client, i), calls[i], "failed", Unanswered, FALSE)
  /\ UNCHANGED <<service, returned>>

\* The bridge fails before the request reaches the service.
BridgeFails(i) ==
  /\ Turn /\ Fault
  /\ i \in DOMAIN calls /\ calls[i].answer = Unanswered
  /\ IF calls[i].awaited
     THEN Continue(Without(client, i), calls[i], "failed", Unanswered, FALSE)
     ELSE client' = Without(client, i) /\ ControllerUnchanged
  /\ UNCHANGED <<service, returned>>

\* The service restarted, or another window opened a session of its own.
SessionEnds ==
  /\ Turn /\ Fault /\ service # NoSession
  /\ service' \in {NoSession, Handshake(FreshId).service}
  /\ UNCHANGED <<vars, client, returned>>

HealthTimer ==
  /\ Turn /\ client.timer
  /\ client' = HealthCheckCalled(client)
  /\ UNCHANGED <<vars, service, returned, faults>>

-----------------------------------------------------------------------------
(* What the target controller asks of the provider.                        *)

Injects(call) == call.awaited /\ call.why = "inject"

Injecting == \E i \in DOMAIN calls : Injects(calls[i])

TargetTurn == Turn /\ ~disposed /\ \A c \in Clients : waiting[c].what # "shutdown"

TargetFrame == UNCHANGED <<vars, service, returned>>

\* Without a session the request is not sent, and the session counts as lost.
AskTarget(op, why) == client' = IF client.session = 0 THEN Gone(client) ELSE Send(client, op, why, 0)

Detect ==
  /\ TargetTurn /\ Room
  /\ AskTarget("health", "detect")
  /\ TargetFrame /\ UNCHANGED faults

Inject ==
  /\ TargetTurn /\ Room /\ client.available /\ ~client.attached /\ ~Injecting
  /\ AskTarget("attach", "inject")
  /\ TargetFrame /\ UNCHANGED faults

LeaveInject(c) == Unawaited(c, Injects)

\* Variant: cancelling stops the waiting, and nothing else.
CancelInjectLeaving ==
  /\ TargetTurn /\ Injecting
  /\ client' = LeaveInject(client)
  /\ TargetFrame /\ UNCHANGED faults

CancelInject ==
  /\ TargetTurn /\ Injecting
  /\ client' = SendDetach(LeaveInject(client))
  /\ TargetFrame /\ UNCHANGED faults

\* The controller's own timeout: abort, and disconnect() beside it.
InjectTimesOut ==
  /\ TargetTurn /\ Injecting /\ Fault
  /\ client' = SendDetach(SendDetach(LetGo(LeaveInject(client))))
  /\ TargetFrame

Disconnect ==
  /\ TargetTurn /\ client.attached /\ ~Injecting
  /\ client' = SendDetach(LetGo(client))
  /\ TargetFrame /\ UNCHANGED faults

-----------------------------------------------------------------------------
Controller ==
  \/ \E c \in Clients : Ask(c) \/ CloseDown(c)
  \/ \E n \in Begun : Invoke(n) \/ TimeOut(n) \/ ReturnAtOnce(n)
  \/ Bookkeeping

Bridge ==
  \E i \in DOMAIN calls :
    ServiceHandles(i) \/ HandshakeRefused(i) \/ Deliver(i) \/ RequestTimesOut(i) \/ BridgeFails(i)

Target == Detect \/ Inject \/ CancelInject \/ InjectTimesOut \/ Disconnect

SysNext == Controller \/ Bridge \/ SessionEnds \/ HealthTimer \/ Target

SysSpec == SysInit /\ [][SysNext]_sysVars

(* The event loop runs its queues and the bridge moves: the service        *)
(* answers, answers arrive, an armed timer fires.  Nothing is assumed of   *)
(* the users, and faults never have to happen.                             *)
SysFairness ==
  /\ WF_sysVars(\/ Bookkeeping
                \/ \E n \in Begun : Invoke(n) \/ ReturnAtOnce(n)
                \/ \E c \in Clients : CloseDown(c))
  /\ WF_sysVars(\E i \in DOMAIN calls : ServiceHandles(i))
  /\ WF_sysVars(\E i \in DOMAIN calls : Deliver(i))
  /\ WF_sysVars(HealthTimer)

SysFairSpec == SysSpec /\ SysFairness

-----------------------------------------------------------------------------
(***************************************************************************)
(* Properties                                                              *)
(***************************************************************************)

(* Between turns the controller and the backend mean the same thing:       *)
(* "ready" is a running backend, and a running one is ready or starting,   *)
(* whatever was abandoned, released or timed out on the way.               *)
RunningIsShown ==
  Turn /\ ~disposed =>
    /\ state = "ready" => client.running
    /\ client.running => state \in {"ready", "starting"}

(* A ready backend never stops looking at the service: its health timer is *)
(* armed, or a check or a recovery is on its way.  (runHealthCheck re-arms *)
(* the timer only when what it awaited has come back.)                     *)
ReadyIsWatched ==
  Turn /\ state = "ready" /\ ~disposed =>
    \/ client.timer
    \/ \E i \in DOMAIN calls : calls[i].awaited /\ calls[i].why \in {"check", "recover"}

(* Controller and backend agree on what runs, and whatever runs is         *)
(* watched, with whichever fault (backendController.ts and                 *)
(* LocalServiceDeveloperBackend.ts never see each other's state).          *)
SysInv == SysTypeOK /\ RunningIsShown /\ ReadyIsWatched

(* A late attach answer attaches nothing but the session it was asked in.  *)
LateAttachIsDropped ==
  [][~client.attached /\ client'.attached =>
       \E i \in DOMAIN calls : Injects(calls[i]) /\ calls[i].sid = client.session]_sysVars

Quiet == Turn /\ calls = <<>> /\ state \notin Busy

NoFault == faults = 0

(* As long as no fault happened, with nothing in flight Nova and the       *)
(* service hold the same session, and hold one only for a running backend: *)
(* no start, stop or abandoned handshake leaves a session behind, or a     *)
(* belief in one that has ended.                                           *)
SessionsAgree ==
  Quiet /\ NoFault => service.id = client.session /\ (client.session # 0 => client.running)

(* As long as no fault happened, with nothing in flight an attachment the  *)
(* service holds is Nova's: a cancelled, failed or disconnected injection  *)
(* leaves none.                                                            *)
AttachmentIsNovas == Quiet /\ NoFault => (service.attached => client.attached)

(* An attachment only the service knows of is undone while the backend     *)
(* stays ready, also when the detach that should have ended it was lost:   *)
(* the health check asks for it again.                                     *)
LostDetachIsRepaired ==
  state = "ready" /\ service.attached /\ ~client.attached
    ~> ~service.attached \/ client.attached \/ state # "ready" \/ disposed

(* A session that ends under a ready backend is replaced by the health     *)
(* check's handshake.                                                      *)
LostSessionIsReplaced ==
  state = "ready" /\ client.session # service.id
    ~> client.session = service.id \/ state # "ready" \/ disposed

(* What a fault has put apart, the health checks of a backend that stays   *)
(* ready put together again.                                               *)
LossesAreRepaired == LostDetachIsRepaired /\ LostSessionIsReplaced

-----------------------------------------------------------------------------
(* What comments and tests of the repository say, and the code does not.   *)

(* "Stops the backend and starts it again." (backendController.ts:87): a   *)
(* start nobody abandoned does not come back cancelled.  It does when the  *)
(* shutdown of the start before it is still on its way: close() forgets    *)
(* the session only when it is answered, and that moves the generation     *)
(* the new handshake has captured.                                         *)
LiveStartIsNotCancelled ==
  [][\A n \in Begun :
       ops[n].verdict = "none" /\ ops'[n].verdict = "cancelled" => ops[n].settled]_sysVars

(* "a stopped backend must never be shown beside a ready target"           *)
(* (LocalServiceDeveloperBackend.test.ts:404).  detect() has no lifecycle  *)
(* guard, so its answer brings the target back after the stop.             *)
TargetGoneWhenStopped == Quiet /\ state = "stopped" => ~client.available
=============================================================================
