------------------------ MODULE LocalServiceBackend ------------------------
(***************************************************************************)
(* Nova's side of the local service: the session client (session.ts), the  *)
(* target provider (targetProvider.ts) and the backend they belong to      *)
(* (LocalServiceDeveloperBackend.ts).                                      *)
(*                                                                         *)
(* The operators map the client's state to the state after a synchronous   *)
(* stretch of that code; LocalServiceSystem says when each runs.  A client *)
(* is a record                                                             *)
(*   session    the open session, 0 for null                               *)
(*   running    the backend's flag                                         *)
(*   timer      the health timer is armed                                  *)
(*   row        targetHealth, the target row of the panel                  *)
(*   available, attached   what the target provider believes               *)
(*   calls      the requests sent whose answer has not arrived, in order   *)
(*                                                                         *)
(* The code guards its awaits with two counters, generation and lifecycle, *)
(* captured before and compared after.  Here every call carries the result *)
(* of the comparison instead: gen and life start TRUE and turn FALSE when  *)
(* the counter moves on.                                                   *)
(***************************************************************************)
EXTENDS Naturals, Sequences, SequencesExt, LocalService

Rows == {"unavailable", "healthy", "degraded", "error"}

(* Who waits for the answer, and what its continuation is.                 *)
Whys ==
  { "start",          \* start(): the handshake, then the first health check
    "orphan",         \* a handshake whose start was aborted
    "recover",        \* recover(): the handshake, then a health check
    "check",          \* readHealthOnce() from runHealthCheck() or recover()
    "detect",         \* the provider's detect()
    "inject",         \* the provider's inject()
    "stop",           \* stop(), awaited by the controller
    "release",        \* stop(), called by releaseBackend() and not awaited
    "failed",         \* close() of a start that failed
    "repair",         \* readHealthOnce() undoing an attachment Nova does not have
    "nothing" }       \* nobody looks at the promise

Calls == [ op: {"handshake", "health", "attach", "detach", "shutdown"}, sid: Nat, why: Whys,
           n: Nat, gen: BOOLEAN, life: BOOLEAN, awaited: BOOLEAN,
           answer: [is: {"none", "ok", "lost", "refused"}, id: Nat, attached: BOOLEAN] ]

ClientType ==
  [ session: Nat, running: BOOLEAN, timer: BOOLEAN, row: Rows,
    available: BOOLEAN, attached: BOOLEAN, calls: Seq(Calls) ]

FreshClient ==
  [ session |-> 0, running |-> FALSE, timer |-> FALSE, row |-> "unavailable",
    available |-> FALSE, attached |-> FALSE, calls |-> <<>> ]

-----------------------------------------------------------------------------
(* session.ts                                                              *)

OnCalls(c, F(_)) == [c EXCEPT !.calls = [i \in DOMAIN c.calls |-> F(c.calls[i])]]

\* Variant: nothing tells an older generation.
NewGenerationNever(c) == c

\* generation += 1
NewGeneration(c) == LET passed(call) == [call EXCEPT !.gen = FALSE] IN OnCalls(c, passed)

Forget(c) == NewGeneration([c EXCEPT !.session = 0])

Put(c, op, sid, why, n, awaited) ==
  [c EXCEPT !.calls = Append(c.calls,
     [op |-> op, sid |-> sid, why |-> why, n |-> n, gen |-> TRUE, life |-> TRUE,
      awaited |-> awaited, answer |-> Unanswered])]

\* send() of an authenticated request: not sent at all without a session.
Send(c, op, why, n) == IF c.session = 0 THEN c ELSE Put(c, op, c.session, why, n, TRUE)

Open(c, why, n) == Put(c, "handshake", 0, why, n, TRUE)

\* abandon(): fire and forget.
EndOrphan(c, id) == Put(c, "shutdown", id, "nothing", 0, FALSE)

SendDetach(c) == Send(c, "detach", "nothing", 0)

\* Variant: an attachment Nova does not have is left to the next shutdown.
RepairNever(c) == c

Repair(c) == Send(c, "detach", "repair", 0)

\* close(): with no session, a start in flight is told instead.
Close(c, why, n) == IF c.session = 0 THEN NewGeneration(c) ELSE Send(c, "shutdown", why, n)

\* The rest of close(), unless the generation has moved on.
Closed(c, stale) == IF stale THEN c ELSE Forget(c)

\* Variant: a session nobody waits for is kept.
OpenedUnguarded(c, call, id) == NewGeneration([c EXCEPT !.session = id])

\* The answer of a handshake that opened session id.
Opened(c, call, id) ==
  IF call.gen THEN NewGeneration([c EXCEPT !.session = id]) ELSE EndOrphan(c, id)

-----------------------------------------------------------------------------
(* targetProvider.ts                                                       *)

\* absorb(null)
Gone(c) == [c EXCEPT !.available = FALSE, !.attached = FALSE]

\* absorb(health), of a service that holds an attachment or does not.
Absorb(c, held) ==
  [c EXCEPT !.available = held \/ ~c.attached, !.attached = c.attached /\ held]

Attached(c) == [c EXCEPT !.available = TRUE, !.attached = TRUE]

LetGo(c) == [c EXCEPT !.attached = FALSE]

-----------------------------------------------------------------------------
(* LocalServiceDeveloperBackend.ts                                         *)

\* lifecycle += 1
NewLife(c) == LET passed(call) == [call EXCEPT !.life = FALSE] IN OnCalls(c, passed)

Schedule(c) == [c EXCEPT !.timer = c.running]

Row(c, row) == [c EXCEPT !.row = row]

\* start(), up to the await of the handshake.
StartCalled(c, n) == Open(NewLife(c), "start", n)

\* Variant: the target goes, the flag stays.
StoppedStillRunning(c) == Row(Gone([c EXCEPT !.timer = FALSE]), "unavailable")

\* stop() of a running backend, before the session is closed.
Stopped(c) == Row(Gone([c EXCEPT !.running = FALSE, !.timer = FALSE]), "unavailable")

\* stop(), up to the await of close().
StopCalled(c, why, n) ==
  LET idle == NewLife(c) IN
  Close(IF c.running THEN Stopped(idle) ELSE [idle EXCEPT !.timer = FALSE], why, n)

\* readHealthOnce() after its await; r is what send() made of the answer.
ReadHealth(c, call, r, held) ==
  CASE ~call.life -> c
    [] call.life /\ r = "lost" -> Row(Gone(c), "error")
    [] call.life /\ r \in {"refused", "failed"} -> Row(c, "degraded")
    [] OTHER ->
         LET seen  == Absorb(c, held)
             whole == IF held /\ ~seen.attached THEN Repair(seen) ELSE seen IN
         Row(whole, IF seen.available THEN "healthy" ELSE "unavailable")

\* What makes the caller of readHealthOnce() treat it as failed.
HealthFailed(call, r) == call.life /\ r # "ok"

\* runHealthCheck(): one question, or one handshake when the session is lost.
HealthCheckCalled(c) ==
  LET due == [c EXCEPT !.timer = FALSE] IN
  CASE ~c.running                    -> due
    [] c.running /\ c.session # 0    -> Send(due, "health", "check", 0)
    [] c.running /\ c.session = 0    -> Open(due, "recover", 0)
=============================================================================
