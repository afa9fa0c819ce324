---------------------------- MODULE StudioBridge ----------------------------
(***************************************************************************)
(* The Studio bridge (experimental/studio-bridge): Nova's session layer    *)
(* (nova-frontend/session.ts, pairing.ts), the loopback relay in Rust      *)
(* (relay-rust/mod.rs), the connection controller that starts and stops    *)
(* them, and the plugins of several Studio windows (plugin/src).           *)
(*                                                                         *)
(* A plugin sends requests, which the relay hands to Nova as deliveries    *)
(* and answers when Nova does or after a timeout, and keeps one poll       *)
(* parked in the relay for what Nova pushes.  Nova's commands reach the    *)
(* relay in order and nothing else changes it meanwhile but the plugins,   *)
(* so a step of Nova and its commands are one action; deliveries, answers  *)
(* and pushed messages are steps of their own.  A poll parked when Nova    *)
(* pushes is answered at once (notify_one); which of several is open.      *)
(*                                                                         *)
(* A session is named by the number of its token.  Heartbeats and output   *)
(* change no more than the staleness timer and are left out: the timer may *)
(* fire whenever no poll of the session is parked, for the relay answers a *)
(* poll (20 s) before the timer (30 s) that the poll set.                  *)
(***************************************************************************)
EXTENDS ConnectionController, Sequences

CONSTANTS
  Studios,      \* the Studio windows
  MaxTries,     \* wrong codes before an offer locks (maxAttempts)
  MaxOffers,    \* bound on pairing offers
  MaxConnects,  \* bound on the Connect buttons of the plugins
  MaxRuns,      \* bound on executions
  MaxTroubles   \* bound on connection attempts, late answers, closed windows and transport errors, together

ASSUME BridgeAssumption == MaxTries \in Nat \ {0} /\ MaxRuns \in Nat

VARIABLES
  phase, listening, \* of the bridge's snapshot
  token,            \* the session's token, 0 for null; studioConnected exactly when set
  sessions,         \* sessions opened: the last token handed out
  offer, tries,     \* the pairing code on offer, 0 for none, and its wrong attempts
  offers,           \* offers made: the last code
  runs,             \* the executions: what Nova knows of each, and its session
  attached,         \* the transport listens to the relay's events
  attaching,        \* the attempt whose listeners are being registered, 0 for none
  calls,            \* bridge_start and bridge_stop not yet answered, in order
  wire,             \* the relay and the HTTP responses on their way
  deliveries,       \* requests the relay reported and Nova has not handled
  studio, key, generation, \* a plugin's state, token and generation, 0 for one that has ended
  leaving,          \* a plugin's disconnect waits for its reply
  work,             \* what became of an execution at the plugin that received it
  connects, faults,
  crossed           \* history: a start was asked for before the last stop was answered, or
                    \* a stop while the listeners were being registered

linkVars   == <<connectionVars, crossed>>
novaVars   == <<phase, listening, token, sessions, offer, tries, offers, runs>>
relayVars  == <<attached, attaching, calls, wire, deliveries>>
pluginVars == <<studio, key, generation, leaving, work>>
bounds     == <<connects, faults>>
bridgeVars == <<linkVars, novaVars, relayVars, pluginVars, bounds>>

Phases   == {"stopped", "starting", "listening", "connecting", "connected", "stopping", "error"}
Live     == {"sent", "running"}
Outcomes == {"success", "failed", "lost"}
Runs     == 1 .. MaxRuns

\* What a poll is answered with; run is 0 when it is about no execution.
Message(what, session, run) == [what |-> what, session |-> session, run |-> run]
NoMail == Message("none", 0, 0)

Handshake == {"hello", "pair_request"}

\* A request: of a handshake, with its generation and the code typed, or of a session.
Greeting(p, g, code)  == [client |-> p, kind |-> "hello", gen |-> g, code |-> code, token |-> 0, run |-> 0]
Rpc(p, kind, t, run)  == [client |-> p, kind |-> kind, gen |-> 0, code |-> 0, token |-> t, run |-> run]

Connected == token # 0
Trouble   == attempts + faults < MaxTroubles
LiveRuns  == {e \in DOMAIN runs : runs[e].state \in Live}

\* The wire: what a poll is answered with, what plugins send, and how Nova answers.
Messages ==
  {m \in [what: {"none", "execute_request", "disconnect", "stopped"}, session: Nat, run: 0 .. MaxRuns] :
     m.what = "execute_request" <=> m.run # 0}

Reports == {"running", "success", "failed"}

Requests ==
  {r \in [client: Studios, kind: Handshake \cup Reports \cup {"disconnect"}, gen: Nat, code: Nat,
          token: Nat, run: 0 .. MaxRuns] : r.kind \in Reports => r.run # 0}

Answers == [rpc: Requests, what: {"failed", "refused", "busy", "welcome", "paired", "ok"}, session: Nat]

Wires ==
  [up: BOOLEAN, token: Nat, queue: Seq(Messages),
   parked: SUBSET [client: Studios, token: Nat, gen: Nat],
   pending: SUBSET Requests, answered: SUBSET Answers, mail: [Studios -> Messages]]

Calls == [what: {"start"}, attempt: Nat, ok: BOOLEAN] \cup [what: {"stop"}, awaited: BOOLEAN]

BridgeTypeOK ==
  /\ status \in Statuses /\ attempts \in Nat /\ attempt \in 0 .. attempts /\ crossed \in BOOLEAN
  /\ phase \in Phases /\ listening \in BOOLEAN /\ attached \in BOOLEAN /\ attaching \in 0 .. attempts
  /\ sessions \in Nat /\ token \in {0, sessions}
  /\ offers \in Nat /\ offer \in {0, offers} /\ tries \in 0 .. (MaxTries - 1)
  /\ runs \in Seq([state : Live \cup Outcomes, session : 1 .. sessions]) /\ Len(runs) <= MaxRuns
  /\ calls \in Seq(Calls) /\ wire \in Wires /\ wire.token \in {0, token} /\ deliveries \subseteq Requests
  /\ studio \in [Studios -> {"disconnected", "connecting", "connected"}]
  /\ key \in [Studios -> 0 .. sessions] /\ leaving \in [Studios -> BOOLEAN]
  /\ connects \in Nat /\ generation \in [Studios -> 0 .. connects] /\ faults \in Nat
  /\ work \in [Runs -> {"none", "starting", "written", "failed"}]

BridgeInit ==
  /\ ConnectionInit
  /\ phase = "stopped" /\ listening = FALSE /\ token = 0 /\ sessions = 0
  /\ offer = 0 /\ tries = 0 /\ offers = 0 /\ runs = <<>>
  /\ attached = FALSE /\ attaching = 0 /\ calls = <<>> /\ deliveries = {}
  /\ wire = [up |-> FALSE, token |-> 0, queue |-> <<>>, parked |-> {}, pending |-> {},
             answered |-> {}, mail |-> [p \in Studios |-> NoMail]]
  /\ studio = [p \in Studios |-> "disconnected"] /\ key = [p \in Studios |-> 0]
  /\ leaving = [p \in Studios |-> FALSE] /\ generation = [p \in Studios |-> 0]
  /\ work = [e \in Runs |-> "none"]
  /\ connects = 0 /\ faults = 0 /\ crossed = FALSE

-----------------------------------------------------------------------------
(* The relay: what its commands and routes make of the wire.               *)

\* The loop that sent poll q still waits for it.
Awaited(q) == generation[q.client] = q.gen

\* The response to poll q; a loop that has ended drops it.
AnswerPoll(w, q, m) ==
  [w EXCEPT !.parked = @ \ {q}, !.mail[q.client] = IF Awaited(q) THEN m ELSE @]

\* Variant: the relay keeps what was queued.
QueueIsKept(w) == w

\* bridge_push: the wires it may leave.
Pushes(w, m) ==
  IF ~w.up THEN {w}
  ELSE IF w.parked = {} THEN {[w EXCEPT !.queue = Append(@, m)]}
  ELSE {AnswerPoll(w, q, m) : q \in w.parked}

ClearQueue(w)  == [w EXCEPT !.queue = <<>>]
SetToken(w, t) == [w EXCEPT !.token = IF w.up THEN t ELSE 0]

Reply(r, what, session) == [rpc |-> r, what |-> what, session |-> session]

\* bridge_respond, when the request still waits.
Respond(w, r, what, session) ==
  IF r \in w.pending
  THEN [w EXCEPT !.pending = @ \ {r}, !.answered = @ \cup {Reply(r, what, session)}]
  ELSE w

\* stop(): every parked poll is told, and every request left unanswered fails.
StopRelay(w) ==
  [w EXCEPT !.up = FALSE, !.token = 0, !.queue = <<>>, !.parked = {}, !.pending = {},
            !.answered = @ \cup {Reply(r, "failed", 0) : r \in w.pending},
            !.mail = [p \in Studios |-> IF \E q \in w.parked : q.client = p /\ Awaited(q)
                                        THEN Message("stopped", 0, 0) ELSE w.mail[p]]]

\* A request of a plugin: recorded, reported, or refused by a relay that is gone.
Send(w, r) ==
  IF w.up THEN /\ wire' = [w EXCEPT !.pending = @ \cup {r}]
               /\ deliveries' = deliveries \cup {r}
          ELSE /\ wire' = [w EXCEPT !.answered = @ \cup {Reply(r, "failed", 0)}]
               /\ UNCHANGED deliveries

\* The report of a result, whose answer nothing waits for.
Report(w, r) == wire' = w /\ deliveries' = IF w.up THEN deliveries \cup {r} ELSE deliveries

\* A request Nova did not answer in time; one that it will still handle is a trouble.
RpcTimesOut ==
  /\ \E r \in wire.pending :
       /\ wire' = Respond(wire, r, "failed", 0)
       /\ IF r \in deliveries THEN Trouble /\ faults' = faults + 1 ELSE UNCHANGED faults
  /\ UNCHANGED <<linkVars, novaVars, attached, attaching, calls, deliveries, pluginVars, connects>>

\* A poll is held no longer than its deadline (204).
PollExpires(q) ==
  /\ q \in wire.parked /\ wire' = [wire EXCEPT !.parked = @ \ {q}]
  /\ UNCHANGED <<linkVars, novaVars, attached, attaching, calls, deliveries, pluginVars, bounds>>

-----------------------------------------------------------------------------
(* Nova: sessions, offers and executions.                                  *)

\* teardownSession, given what the relay holds by then.
Teardown(w, nextPhase) ==
  /\ token' = 0 /\ wire' = SetToken(w, 0)
  /\ offer' = 0 /\ tries' = 0
  /\ runs' = [e \in DOMAIN runs |-> IF e \in LiveRuns THEN [runs[e] EXCEPT !.state = "lost"] ELSE runs[e]]
  /\ phase' = nextPhase

\* bridge_start of attempt n: a relay that is up already only forgets its session.
SendStart(n) ==
  \E ok \in IF wire.up THEN {TRUE} ELSE BOOLEAN :
    /\ calls' = Append(calls, [what |-> "start", attempt |-> n, ok |-> ok])
    /\ wire' = [ClearQueue(SetToken(wire, 0)) EXCEPT !.up = ok]

\* start() of the bridge, called by the provider for a new attempt.
StartBridge ==
  /\ Trouble /\ BeginConnect
  /\ \/ listening /\ ConnectedAtOnce /\ UNCHANGED <<phase, attaching, calls, wire>>
     \/ ~listening /\ attached /\ Connecting /\ phase' = "starting"
        /\ SendStart(attempts') /\ UNCHANGED attaching
     \/ ~listening /\ ~attached /\ Connecting /\ phase' = "starting"
        /\ attaching' = attempts' /\ UNCHANGED <<calls, wire>>
  /\ crossed' = (crossed \/ calls # <<>>)
  /\ UNCHANGED <<listening, token, sessions, offer, tries, offers, runs, attached, deliveries,
                 pluginVars, bounds>>

\* The listeners are registered: the start goes on, whatever became of its attempt.
Attach ==
  /\ attaching # 0 /\ attaching' = 0 /\ attached' = TRUE
  /\ SendStart(attaching)
  /\ UNCHANGED <<linkVars, novaVars, deliveries, pluginVars, bounds>>

\* bridge_start is answered, whoever waits for it by now.
StartAnswered ==
  /\ calls # <<>> /\ Head(calls).what = "start" /\ calls' = Tail(calls)
  /\ listening' = Head(calls).ok
  /\ phase' = IF Head(calls).ok THEN "listening" ELSE "error"
  /\ HearResult(Head(calls).attempt, Head(calls).ok)
  /\ UNCHANGED <<crossed, token, sessions, offer, tries, offers, runs, attached, attaching, wire, deliveries, pluginVars, bounds>>

\* stop() of the bridge; awaited says that a disconnect() of the controller waits.
StopBridge(awaited) ==
  /\ \E w \in IF Connected THEN Pushes(wire, Message("disconnect", token, 0)) ELSE {wire} :
       Teardown(StopRelay(w), "stopped")
  /\ calls' = Append(calls, [what |-> "stop", awaited |-> awaited])
  /\ UNCHANGED <<listening, sessions, offers, attached, attaching, deliveries, pluginVars, bounds>>

\* ... which has nothing to do for a bridge that is stopped.
StopIsNothing == ~listening /\ phase = "stopped"

Disconnect ==
  /\ BeginDisconnect /\ crossed' = (crossed \/ attaching # 0)
  /\ IF StopIsNothing
     THEN status' = "disconnected" /\ UNCHANGED <<novaVars, relayVars, pluginVars, bounds>>
     ELSE status' = "disconnecting" /\ StopBridge(TRUE)

Dismiss == DismissError /\ UNCHANGED <<crossed, novaVars, relayVars, pluginVars, bounds>>

\* The listeners take no time against the timer.
ConnectTimesOut ==
  /\ attaching = 0 /\ AttemptTimesOut /\ UNCHANGED crossed
  /\ IF StopIsNothing THEN UNCHANGED <<novaVars, relayVars, pluginVars, bounds>>
                      ELSE StopBridge(FALSE)

\* bridge_stop is answered, after what was asked before it: the listeners go, and the snapshot says stopped.
StopAnswered ==
  /\ calls # <<>> /\ Head(calls).what = "stop" /\ attaching = 0 /\ calls' = Tail(calls)
  /\ attached' = FALSE /\ phase' = "stopped" /\ listening' = FALSE
  /\ IF Head(calls).awaited THEN HearDisconnected ELSE UNCHANGED connectionVars
  /\ UNCHANGED <<crossed, token, sessions, offer, tries, offers, runs, attaching, wire, deliveries, pluginVars, bounds>>

\* offerPairing, from the button that a listening bridge without a session shows.
OfferPairing ==
  /\ listening /\ ~Connected /\ offers < MaxOffers
  /\ offers' = offers + 1 /\ offer' = offers' /\ tries' = 0
  /\ UNCHANGED <<linkVars, phase, listening, token, sessions, runs, relayVars, pluginVars, bounds>>

\* The offer is withdrawn, or its time is over.
OfferEnds ==
  /\ offer # 0 /\ offer' = 0 /\ tries' = 0
  /\ UNCHANGED <<linkVars, phase, listening, token, sessions, offers, runs, relayVars, pluginVars, bounds>>

\* disconnectStudio: the notice is pushed, and the session is over at once.
DisconnectStudio ==
  /\ Connected
  /\ \E w \in Pushes(wire, Message("disconnect", token, 0)) : Teardown(w, "listening")
  /\ UNCHANGED <<linkVars, listening, sessions, offers, attached, attaching, calls, deliveries, pluginVars, bounds>>

\* No activity for heartbeatTimeoutMs.
GoesStale ==
  /\ Connected /\ \A q \in wire.parked : q.token # token
  /\ Teardown(wire, "listening")
  /\ UNCHANGED <<linkVars, listening, sessions, offers, attached, attaching, calls, deliveries, pluginVars, bounds>>

\* The relay's accept loop reports an error.
TransportFails ==
  /\ wire.up /\ attached /\ Trouble /\ faults' = faults + 1
  /\ Teardown(wire, "error")
  /\ UNCHANGED <<linkVars, listening, sessions, offers, attached, attaching, calls, deliveries, pluginVars, connects>>

Execute ==
  /\ Connected /\ Len(runs) < MaxRuns
  /\ runs' = Append(runs, [state |-> "sent", session |-> token])
  /\ wire' \in Pushes(wire, Message("execute_request", token, Len(runs) + 1))
  /\ UNCHANGED <<linkVars, phase, listening, token, sessions, offer, tries, offers,
                 attached, attaching, calls, deliveries, pluginVars, bounds>>

-----------------------------------------------------------------------------
(* Nova: deliveries.  An answer to a request nobody waits for is lost.     *)

\* Answered r; the rest of the handler is conjoined.
Handled(r) == r \in deliveries /\ attached /\ deliveries' = deliveries \ {r}

\* Variant: a request without the session's token is turned away only when there is no session.
RefusedUnconnected(r) == r.kind \notin Handshake /\ ~Connected

\* What onDelivery and dispatch turn away.
Refused(r) == r.kind \notin Handshake /\ r.token # token

\* A delivery emitted to a transport that has stopped listening.
DeliveryUnheard ==
  /\ ~attached /\ deliveries # {} /\ \E r \in deliveries : deliveries' = deliveries \ {r}
  /\ UNCHANGED <<linkVars, novaVars, attached, attaching, calls, wire, pluginVars, bounds>>

RefuseDelivery ==
  /\ \E r \in deliveries :
       Refused(r) /\ Handled(r) /\ wire' = Respond(wire, r, "refused", 0)
  /\ UNCHANGED <<linkVars, novaVars, attached, attaching, calls, pluginVars, bounds>>

HandleHello ==
  /\ \E r \in deliveries :
       /\ r.kind = "hello" /\ Handled(r)
       /\ wire' = Respond(wire, r, IF Connected THEN "busy" ELSE "welcome", 0)
  /\ phase' = IF ~Connected /\ phase = "listening" THEN "connecting" ELSE phase
  /\ UNCHANGED <<linkVars, listening, token, sessions, offer, tries, offers, runs, attached, attaching, calls,
                 pluginVars, bounds>>

\* The wrong attempt leaves the offer open.
TriesLeft == tries + 1 < MaxTries

\* verify() fails: any code without an offer, and a wrong one, which counts; enough of
\* them end the offer.
PairFails(r) ==
  /\ ~Connected /\ (offer = 0 \/ r.code # offer)
  /\ IF offer # 0 /\ TriesLeft THEN tries' = tries + 1 /\ UNCHANGED offer
                                ELSE tries' = 0 /\ offer' = 0
  /\ wire' = Respond(wire, r, "refused", 0)
  /\ phase' = IF phase = "connecting" THEN "listening" ELSE phase
  /\ UNCHANGED <<token, sessions>>

PairIsBusy(r) ==
  /\ Connected /\ wire' = Respond(wire, r, "refused", 0)
  /\ UNCHANGED <<phase, token, sessions, offer, tries>>

\* A code typed right opens a session: an empty queue, a new token, then the reply.
PairSucceeds(r) ==
  /\ ~Connected /\ r.code = offer /\ offer # 0
  /\ offer' = 0 /\ tries' = 0
  /\ sessions' = sessions + 1 /\ token' = sessions'
  /\ wire' = Respond(SetToken(ClearQueue(wire), token'), r, "paired", token')
  /\ phase' = "connected"

HandlePairRequest ==
  /\ \E r \in deliveries :
       /\ r.kind = "pair_request" /\ Handled(r)
       /\ PairFails(r) \/ PairIsBusy(r) \/ PairSucceeds(r)
  /\ UNCHANGED <<linkVars, listening, offers, runs, attached, attaching, calls, pluginVars, bounds>>

\* withExecution: a report of an execution that is not waiting changes nothing.
WithExecution(r) == IF r.run \in LiveRuns THEN [runs EXCEPT ![r.run].state = r.kind] ELSE runs

HandleReport ==
  /\ \E r \in deliveries :
       /\ r.kind \in {"running", "success", "failed"} /\ ~Refused(r) /\ Handled(r)
       /\ wire' = Respond(wire, r, "ok", 0)
       /\ runs' = WithExecution(r)
  /\ UNCHANGED <<linkVars, phase, listening, token, sessions, offer, tries, offers, attached, attaching, calls,
                 pluginVars, bounds>>

HandleDisconnect ==
  /\ \E r \in deliveries :
       /\ r.kind = "disconnect" /\ ~Refused(r) /\ Handled(r)
       /\ Teardown(Respond(wire, r, "ok", 0), "listening")
  /\ UNCHANGED <<linkVars, listening, sessions, offers, attached, attaching, calls, pluginVars, bounds>>

-----------------------------------------------------------------------------
(* A plugin.                                                               *)

\* endSession: the generation moves on, so the loop and a handshake in progress are stale.
EndSession(p, w) ==
  /\ studio' = [studio EXCEPT ![p] = "disconnected"] /\ key' = [key EXCEPT ![p] = 0]
  /\ generation' = [generation EXCEPT ![p] = 0]
  /\ wire' = [w EXCEPT !.mail[p] = NoMail]

\* connect: nothing is sent without a relay to answer info().  The code is the one on
\* offer, or a wrong one, as a code of an offer that is over is.
Connect(p) ==
  /\ studio[p] = "disconnected" /\ wire.up /\ connects < MaxConnects /\ connects' = connects + 1
  /\ studio' = [studio EXCEPT ![p] = "connecting"]
  /\ generation' = [generation EXCEPT ![p] = connects']
  /\ \E code \in {0, offer} : Send([wire EXCEPT !.mail[p] = NoMail], Greeting(p, connects', code))
  /\ UNCHANGED <<linkVars, novaVars, attached, attaching, calls, key, leaving, work, faults>>

\* The answers to p's requests of some kind, and the wire without answer a.
AnswersTo(p, kinds) == {a \in wire.answered : a.rpc.client = p /\ a.rpc.kind \in kinds}
Heard(a) == [wire EXCEPT !.answered = @ \ {a}]

\* The generation is not looked at here: a welcome goes on to pair.
HelloAnswered(p) ==
  /\ \E a \in AnswersTo(p, {"hello"}) :
       IF a.what = "welcome"
       THEN /\ Send(Heard(a), [a.rpc EXCEPT !.kind = "pair_request"])
            /\ UNCHANGED studio
       ELSE /\ studio' = [studio EXCEPT ![p] = "disconnected"]
            /\ wire' = Heard(a) /\ UNCHANGED deliveries
  /\ UNCHANGED <<linkVars, novaVars, attached, attaching, calls, key, generation, leaving, work, bounds>>

PairAnswered(p) ==
  /\ \E a \in AnswersTo(p, {"pair_request"}) :
       /\ wire' = Heard(a)
       /\ IF generation[p] # a.rpc.gen THEN UNCHANGED <<studio, key>>
          ELSE IF a.what = "paired"
          THEN studio' = [studio EXCEPT ![p] = "connected"] /\ key' = [key EXCEPT ![p] = a.session]
          ELSE studio' = [studio EXCEPT ![p] = "disconnected"] /\ UNCHANGED key
  /\ UNCHANGED <<linkVars, novaVars, attached, attaching, calls, deliveries, generation, leaving, work, bounds>>

\* The poll route: the token is compared once, when the poll arrives.
Authorized(p) == wire.token # 0 /\ wire.token = key[p]

\* receiveLoop between two polls: one is sent, and answered at once when it can be.
Poll(p) ==
  /\ studio[p] = "connected" /\ wire.up /\ wire.mail[p] = NoMail
  /\ \A q \in wire.parked : ~(q.client = p /\ Awaited(q))
  /\ IF ~Authorized(p) THEN EndSession(p, wire)
     ELSE /\ wire' = IF wire.queue # <<>>
                     THEN [wire EXCEPT !.queue = Tail(@), !.mail[p] = Head(wire.queue)]
                     ELSE [wire EXCEPT !.parked = @ \cup {[client |-> p, token |-> key[p], gen |-> generation[p]]}]
          /\ UNCHANGED <<studio, key, generation>>
  /\ UNCHANGED <<linkVars, novaVars, attached, attaching, calls, deliveries, leaving, work, bounds>>

\* Polls fail until CONTACT_GRACE_SECONDS are over.
LosesContact(p) ==
  /\ studio[p] = "connected" /\ ~wire.up /\ wire.mail[p] = NoMail
  /\ EndSession(p, wire)
  /\ UNCHANGED <<linkVars, novaVars, attached, attaching, calls, deliveries, leaving, work, bounds>>

\* The session ends by the relay's 503 or by Nova's notice.
ToldToEnd(p) ==
  /\ wire.mail[p].what \in {"stopped", "disconnect"}
  /\ EndSession(p, wire)
  /\ UNCHANGED <<linkVars, novaVars, attached, attaching, calls, deliveries, leaving, work, bounds>>

\* runExecution, up to its first report.
ReceiveExecution(p) ==
  /\ wire.mail[p].what = "execute_request"
  /\ LET e == wire.mail[p].run IN
       /\ work' = [work EXCEPT ![e] = "starting"]
       /\ Send([wire EXCEPT !.mail[p] = NoMail], Rpc(p, "running", key[p], e))
  /\ UNCHANGED <<linkVars, novaVars, attached, attaching, calls, studio, key, generation, leaving, bounds>>

\* The started report is over, whatever its answer: the script is written, or cannot be,
\* and the result goes out under the token the plugin holds by then.
DeliverScript(p) ==
  /\ \E a \in AnswersTo(p, {"running"}), ok \in BOOLEAN :
       /\ work' = [work EXCEPT ![a.rpc.run] = IF ok THEN "written" ELSE "failed"]
       /\ Report(Heard(a), Rpc(p, IF ok THEN "success" ELSE "failed", key[p], a.rpc.run))
  /\ UNCHANGED <<linkVars, novaVars, attached, attaching, calls, studio, key, generation, leaving, bounds>>

\* disconnect, from the panel of a connected plugin: Nova is told first.
Leave(p) ==
  /\ studio[p] = "connected" /\ ~leaving[p]
  /\ leaving' = [leaving EXCEPT ![p] = TRUE]
  /\ Send(wire, Rpc(p, "disconnect", key[p], 0))
  /\ UNCHANGED <<linkVars, novaVars, attached, attaching, calls, studio, key, generation, work, bounds>>

\* ... and the session is ended then, whichever it is by now.
Left(p) ==
  /\ leaving' = [leaving EXCEPT ![p] = FALSE]
  /\ \E a \in AnswersTo(p, {"disconnect"}) : EndSession(p, Heard(a))
  /\ UNCHANGED <<linkVars, novaVars, attached, attaching, calls, deliveries, work, bounds>>

\* The Studio window closes: its coroutines end, its requests stay with Nova and the relay.
Crash(p) ==
  /\ studio[p] # "disconnected" /\ Trouble /\ faults' = faults + 1
  /\ EndSession(p, [wire EXCEPT !.pending = {r \in @ : r.client # p},
                                !.answered = {a \in @ : a.rpc.client # p}])
  /\ leaving' = [leaving EXCEPT ![p] = FALSE]
  /\ UNCHANGED <<linkVars, novaVars, attached, attaching, calls, deliveries, work, connects>>

-----------------------------------------------------------------------------
NovaStep ==
  \/ StartBridge \/ Attach \/ StartAnswered \/ Disconnect \/ Dismiss \/ ConnectTimesOut \/ StopAnswered
  \/ OfferPairing \/ OfferEnds \/ DisconnectStudio \/ GoesStale \/ TransportFails \/ Execute
  \/ DeliveryUnheard \/ RefuseDelivery \/ HandleHello \/ HandlePairRequest \/ HandleReport \/ HandleDisconnect

RelayStep == RpcTimesOut \/ \E q \in wire.parked : PollExpires(q)

StudioStep(p) ==
  \/ Connect(p) \/ HelloAnswered(p) \/ PairAnswered(p)
  \/ Poll(p) \/ LosesContact(p) \/ ToldToEnd(p)
  \/ ReceiveExecution(p) \/ DeliverScript(p)
  \/ Leave(p) \/ Left(p) \/ Crash(p)

BridgeNext == NovaStep \/ RelayStep \/ \E p \in Studios : StudioStep(p)

BridgeSpec == BridgeInit /\ [][BridgeNext]_bridgeVars

-----------------------------------------------------------------------------
(* Properties.                                                             *)

\* A run Nova still waits for belongs to the session there is: no teardown, on whichever
\* path, leaves one waiting for a Studio that can no longer report it.
LiveRunsHaveASession == \A e \in LiveRuns : runs[e].session = token

\* Nova reports a delivery as a success only when a plugin wrote the script.
OutcomesAreTrue == \A e \in DOMAIN runs : runs[e].state = "success" => work[e] = "written"

\* What waits in the relay's queue was pushed for the session there is: a new session
\* starts with an empty queue, and so never receives an execution of an older one.
QueueIsTheSessions ==
  Connected => \A i \in DOMAIN wire.queue : wire.queue[i].session = token

\* A relay that is up admits the session there is.  The exception is a start that crossed
\* a stop: the stop's answer can hide a session that a later start, landing on the relay
\* that is still up, then takes the token from.
TokenIsTheSessions == wire.up /\ ~crossed => wire.token = token

\* While the controller says connected, the relay is up, Nova hears its events and the
\* bridge knows that it listens: attempts given up, by their timer or by the user, and the
\* late answers of their starts and stops included.  The exception is a start that crossed
\* a stop, whose answer takes down the listeners of the start that succeeds.
ConnectedIsListening ==
  status = "connected" /\ calls = <<>> /\ ~crossed => wire.up /\ attached /\ listening

\* What a session and a code are worth: a session needs a relay that is up, a code that
\* still opens one was typed while the relay was up and has been since, and no plugin
\* holds a token or a code that Nova has not given out.
HandshakesAreNovas ==
  /\ Connected => wire.up
  /\ \A r \in deliveries : r.kind \in Handshake /\ r.code = offer /\ offer # 0 => wire.up
  /\ \A r \in deliveries \cup wire.pending : r.code <= offers
  /\ \A a \in wire.answered : a.rpc.code <= offers /\ a.session <= sessions

\* An execution is handed over once: it is in the queue, with one plugin, or in one report,
\* and a report of success is a script that was written.
Moving(r) == r.kind = "running"

ExecutionsMoveOnce ==
  /\ \A i \in DOMAIN wire.queue : wire.queue[i].run # 0 =>
       /\ work[wire.queue[i].run] = "none" /\ wire.queue[i].run \in DOMAIN runs
       /\ \A j \in DOMAIN wire.queue : wire.queue[j].run = wire.queue[i].run => i = j
       /\ \A p \in Studios : wire.mail[p].run # wire.queue[i].run
  /\ \A p \in Studios : wire.mail[p].run # 0 =>
       /\ work[wire.mail[p].run] = "none" /\ wire.mail[p].run \in DOMAIN runs
       /\ \A o \in Studios : wire.mail[o].run = wire.mail[p].run => p = o
  /\ \A r \in wire.pending : Moving(r) =>
       /\ work[r.run] = "starting"
       /\ \A s \in wire.pending : Moving(s) /\ s.run = r.run => r = s
       /\ \A a \in wire.answered : Moving(a.rpc) => a.rpc.run # r.run
  /\ \A a \in wire.answered : Moving(a.rpc) =>
       /\ work[a.rpc.run] = "starting"
       /\ \A b \in wire.answered : Moving(b.rpc) /\ b.rpc.run = a.rpc.run => a = b
  /\ \A r \in deliveries : r.kind = "success" => work[r.run] = "written"
  /\ \A e \in Runs \ DOMAIN runs : work[e] = "none"

\* A stop is asked for, perhaps before the answer to the start of the attempt it ends.
Stopping(awaited) ==
  /\ Len(calls) \in 1 .. 2 /\ calls[Len(calls)] = [what |-> "stop", awaited |-> awaited]
  /\ Len(calls) = 2 => calls[1].what = "start" /\ calls[1].attempt # 0

\* Until a start crosses a stop, the link goes through its states in order: an attempt that
\* is given up leaves no relay up, and no late answer makes the link connected or lets the
\* user see it as such.
LinkInv ==
  ~crossed =>
    /\ status # "connecting" => attempt = 0 /\ attaching = 0
    /\ status \in {"disconnected", "error", "disconnecting"} => ~wire.up
    /\ status \in {"disconnected", "error"} => (calls = <<>> /\ ~listening) \/ Stopping(FALSE)
    /\ status = "disconnecting" => Stopping(TRUE)
    /\ status = "connected" => calls = <<>> /\ wire.up /\ attached /\ listening
    /\ status = "connecting" =>
         /\ attempt # 0 /\ ~listening /\ phase # "stopped"
         /\ \/ attaching = attempt /\ calls = <<>> /\ ~wire.up
            \/ /\ attaching = 0 /\ attached
               /\ calls = <<[what |-> "start", attempt |-> attempt, ok |-> wire.up]>>

\* The bridge's invariants; the types, the handshakes, the way of an execution and the
\* link's states are also what makes the others inductive.
BridgeInv ==
  /\ BridgeTypeOK /\ LiveRunsHaveASession /\ OutcomesAreTrue /\ QueueIsTheSessions
  /\ TokenIsTheSessions /\ HandshakesAreNovas /\ ExecutionsMoveOnce /\ LinkInv
  /\ ConnectedIsListening

\* A delivery ends or replaces a session only as a request of that session: what an older
\* plugin sent before it was replaced, and is handled afterwards, cannot.
OnlyItsPluginEndsIt ==
  [][ \A r \in deliveries \ deliveries' :
        Connected /\ token' # token => r.token = token ]_bridgeVars

\* The documented promise that the poll channel is gated on the session token: a script
\* is never handed to a poll that presented the token of another session.
PollsAreGated ==
  [][ Len(runs') > Len(runs) => \A q \in wire.parked \ wire'.parked : q.token = token ]_bridgeVars
=============================================================================
