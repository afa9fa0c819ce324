------------------------- MODULE StudioBridgeProofs -------------------------
(***************************************************************************)
(* Proofs about StudioBridge, for any number of Studio windows and any     *)
(* bounds.  The lemmas say first what the relay's operators make of the    *)
(* wire, then what each step does to the parts of BridgeInv.               *)
(***************************************************************************)
EXTENDS StudioBridge, SequenceTheorems, TLAPS

USE BridgeAssumption

-----------------------------------------------------------------------------
(* The operators on the wire.                                              *)

LEMMA MessageTypes ==
  /\ NoMail \in Messages /\ NoMail.run = 0 /\ NoMail.what = "none"
  /\ \A t \in Nat : /\ Message("disconnect", t, 0) \in Messages
                    /\ Message("disconnect", t, 0).session = t /\ Message("disconnect", t, 0).run = 0
                    /\ Message("stopped", t, 0) \in Messages /\ Message("stopped", t, 0).run = 0
  /\ \A t \in Nat, e \in Runs :
       /\ Message("execute_request", t, e) \in Messages
       /\ Message("execute_request", t, e).session = t /\ Message("execute_request", t, e).run = e
  BY DEF NoMail, Message, Messages, Runs

LEMMA WireFields ==
  ASSUME NEW w \in Wires
  PROVE  /\ w.up \in BOOLEAN /\ w.token \in Nat /\ w.queue \in Seq(Messages)
         /\ w.pending \subseteq Requests /\ w.answered \subseteq Answers
         /\ w.parked \subseteq [client: Studios, token: Nat, gen: Nat]
         /\ w.mail \in [Studios -> Messages]
  BY DEF Wires

LEMMA RequestFields ==
  ASSUME NEW r \in Requests
  PROVE  /\ r.client \in Studios /\ r.gen \in Nat /\ r.code \in Nat /\ r.token \in Nat
         /\ r.run \in 0 .. MaxRuns
         /\ r.kind \in Handshake \cup Reports \cup {"disconnect"}
         /\ r.kind \in Reports => r.run \in Runs
  BY DEF Requests, Runs

LEMMA AnswerFields ==
  ASSUME NEW a \in Answers
  PROVE  a.rpc \in Requests /\ a.session \in Nat
         /\ a.what \in {"failed", "refused", "busy", "welcome", "paired", "ok"}
  BY DEF Answers

LEMMA AppendKeeps ==
  ASSUME NEW S, NEW s \in Seq(S), NEW x \in S
  PROVE  Append(s, x) \in Seq(S)
  OBVIOUS

LEMMA AnswerPollFacts ==
  ASSUME NEW w \in Wires, NEW q \in w.parked, NEW m \in Messages,
         NEW v, v = AnswerPoll(w, q, m)
  PROVE  /\ v \in Wires /\ v.up = w.up /\ v.token = w.token /\ v.queue = w.queue
         /\ v.pending = w.pending /\ v.answered = w.answered /\ v.parked = w.parked \ {q}
         /\ q.client \in Studios /\ v.mail[q.client] \in {m, w.mail[q.client]}
         /\ \A p \in Studios : p # q.client => v.mail[p] = w.mail[p]
<1>1. q \in [client: Studios, token: Nat, gen: Nat]
  BY DEF Wires
<1>2. q.client \in Studios
  BY <1>1
<1> DEFINE mail == [w.mail EXCEPT ![q.client] = IF Awaited(q) THEN m ELSE @]
<1>3. /\ mail \in [Studios -> Messages] /\ mail[q.client] \in {m, w.mail[q.client]}
      /\ \A p \in Studios : p # q.client => mail[p] = w.mail[p]
  BY <1>2, WireFields
<1>4. v = [w EXCEPT !.parked = w.parked \ {q}, !.mail = mail]
  BY DEF AnswerPoll, Wires
<1> HIDE DEF mail
<1>5. v \in Wires /\ v.parked = w.parked \ {q} /\ v.mail = mail /\ v.up = w.up /\ v.token = w.token
      /\ v.queue = w.queue /\ v.pending = w.pending /\ v.answered = w.answered
  BY <1>3, <1>4 DEF Wires
<1>6. QED
  BY <1>2, <1>3, <1>5

(* bridge_push queues the message, hands it to one poll, or does nothing.  *)
LEMMA PushFacts ==
  ASSUME NEW w \in Wires, NEW m \in Messages, NEW v \in Pushes(w, m)
  PROVE  /\ v \in Wires /\ v.up = w.up /\ v.token = w.token
         /\ v.pending = w.pending /\ v.answered = w.answered /\ v.parked \subseteq w.parked
         /\ \/ v.queue = w.queue /\ v.mail = w.mail
            \/ v.queue = Append(w.queue, m) /\ v.mail = w.mail /\ w.up
            \/ /\ v.queue = w.queue /\ w.up
               /\ \E p \in Studios : /\ v.mail[p] \in {m, w.mail[p]}
                                     /\ \A o \in Studios : o # p => v.mail[o] = w.mail[o]
<1>1. CASE ~w.up
  BY <1>1 DEF Pushes
<1>2. CASE w.up /\ w.parked = {}
  <2>1. v = [w EXCEPT !.queue = Append(w.queue, m)]
    BY <1>2 DEF Pushes, Wires
  <2>2. Append(w.queue, m) \in Seq(Messages)
    BY WireFields, AppendKeeps
  <2>3. QED
    BY <1>2, <2>1, <2>2 DEF Wires
<1>3. CASE w.up /\ w.parked # {}
  <2>1. PICK q \in w.parked : v = AnswerPoll(w, q, m)
    BY <1>3 DEF Pushes
  <2>2. /\ v \in Wires /\ v.up = w.up /\ v.token = w.token /\ v.queue = w.queue
        /\ v.pending = w.pending /\ v.answered = w.answered /\ v.parked = w.parked \ {q}
    BY <2>1, AnswerPollFacts
  <2>3. /\ q.client \in Studios /\ v.mail[q.client] \in {m, w.mail[q.client]}
        /\ \A p \in Studios : p # q.client => v.mail[p] = w.mail[p]
    BY <2>1, AnswerPollFacts
  <2>4. QED
    BY <1>3, <2>2, <2>3
<1>4. QED
  BY <1>1, <1>2, <1>3

LEMMA SetTokenFacts ==
  ASSUME NEW w \in Wires, NEW t \in Nat, NEW v, v = SetToken(w, t)
  PROVE  /\ v \in Wires /\ v.token = (IF w.up THEN t ELSE 0) /\ v.up = w.up /\ v.queue = w.queue
         /\ v.parked = w.parked /\ v.pending = w.pending /\ v.answered = w.answered /\ v.mail = w.mail
  BY DEF SetToken, Wires

LEMMA ClearQueueFacts ==
  ASSUME NEW w \in Wires, NEW v, v = ClearQueue(w)
  PROVE  /\ v \in Wires /\ v.queue = <<>> /\ v.up = w.up /\ v.token = w.token
         /\ v.parked = w.parked /\ v.pending = w.pending /\ v.answered = w.answered /\ v.mail = w.mail
<1>1. v = [w EXCEPT !.queue = <<>>] /\ <<>> \in Seq(Messages)
  BY DEF ClearQueue
<1>2. QED
  BY <1>1 DEF Wires

AnswerKinds == {"failed", "refused", "busy", "welcome", "paired", "ok"}

(* bridge_respond answers a request that waits, and no other.              *)
LEMMA RespondFacts ==
  ASSUME NEW w \in Wires, NEW r \in Requests, NEW what \in AnswerKinds, NEW s \in Nat,
         NEW v, v = Respond(w, r, what, s)
  PROVE  /\ v \in Wires /\ v.up = w.up /\ v.token = w.token /\ v.queue = w.queue
         /\ v.parked = w.parked /\ v.mail = w.mail
         /\ v.pending = w.pending \ {r}
         /\ v.answered = IF r \in w.pending THEN w.answered \cup {Reply(r, what, s)} ELSE w.answered
         /\ Reply(r, what, s).rpc = r /\ Reply(r, what, s).session = s
<1>1. Reply(r, what, s) \in Answers /\ Reply(r, what, s).rpc = r /\ Reply(r, what, s).session = s
  BY DEF Reply, Answers, AnswerKinds
<1>2. CASE r \in w.pending
  BY <1>1, <1>2 DEF Respond, Wires
<1>3. CASE r \notin w.pending
  BY <1>1, <1>3 DEF Respond
<1>4. QED
  BY <1>2, <1>3

(* stop() of the relay answers everyone, a request once.                   *)
LEMMA StopRelayFacts ==
  ASSUME NEW w \in Wires, NEW v, v = StopRelay(w)
  PROVE  /\ v \in Wires /\ ~v.up /\ v.token = 0 /\ v.queue = <<>> /\ v.parked = {} /\ v.pending = {}
         /\ v.answered = w.answered \cup {Reply(r, "failed", 0) : r \in w.pending}
         /\ \A r : Reply(r, "failed", 0).rpc = r /\ Reply(r, "failed", 0).session = 0
         /\ \A p \in Studios : v.mail[p] = w.mail[p] \/ v.mail[p].run = 0
<1> DEFINE mail == [p \in Studios |-> IF \E q \in w.parked : q.client = p /\ Awaited(q)
                                      THEN Message("stopped", 0, 0) ELSE w.mail[p]]
           answered == w.answered \cup {Reply(r, "failed", 0) : r \in w.pending}
<1>1. mail \in [Studios -> Messages] /\ \A p \in Studios : mail[p] = w.mail[p] \/ mail[p].run = 0
  BY MessageTypes, WireFields
<1>2. \A r : Reply(r, "failed", 0).rpc = r /\ Reply(r, "failed", 0).session = 0
  BY DEF Reply
<1>3. answered \subseteq Answers
  <2>1. w.pending \subseteq Requests /\ w.answered \subseteq Answers
    BY WireFields
  <2>2. \A r \in Requests : Reply(r, "failed", 0) \in Answers
    BY DEF Reply, Answers
  <2>3. QED
    BY <2>1, <2>2
<1>4. v = [w EXCEPT !.up = FALSE, !.token = 0, !.queue = <<>>, !.parked = {}, !.pending = {},
                    !.answered = answered, !.mail = mail]
  BY DEF StopRelay, Wires
<1>5. <<>> \in Seq(Messages)
  OBVIOUS
<1> HIDE DEF mail, answered
<1>a. w.up \in BOOLEAN /\ w.token \in Nat /\ w \in Wires
  BY WireFields
<1>b. v = [up |-> FALSE, token |-> 0, queue |-> <<>>, parked |-> {}, pending |-> {},
           answered |-> answered, mail |-> mail]
  BY <1>a, <1>4 DEF Wires
<1>6. /\ v \in Wires /\ ~v.up /\ v.token = 0 /\ v.queue = <<>> /\ v.parked = {} /\ v.pending = {}
      /\ v.answered = answered /\ v.mail = mail
  BY <1>1, <1>3, <1>5, <1>b DEF Wires
<1>7. QED
  BY <1>1, <1>2, <1>6 DEF answered

(* A request is recorded and reported, or refused by a relay that is gone. *)
LEMMA SendFacts ==
  ASSUME NEW w \in Wires, NEW r \in Requests, Send(w, r), deliveries \subseteq Requests
  PROVE  /\ wire' \in Wires /\ wire'.up = w.up /\ wire'.token = w.token /\ wire'.queue = w.queue
         /\ wire'.parked = w.parked /\ wire'.mail = w.mail
         /\ w.up => /\ wire'.pending = w.pending \cup {r} /\ wire'.answered = w.answered
                    /\ deliveries' = deliveries \cup {r}
         /\ ~w.up => /\ wire'.pending = w.pending
                     /\ wire'.answered = w.answered \cup {Reply(r, "failed", 0)}
                     /\ deliveries' = deliveries
         /\ Reply(r, "failed", 0).rpc = r /\ Reply(r, "failed", 0).session = 0
         /\ deliveries' \subseteq Requests
<1>1. Reply(r, "failed", 0) \in Answers /\ Reply(r, "failed", 0).rpc = r
      /\ Reply(r, "failed", 0).session = 0
  BY DEF Reply, Answers
<1>2. CASE w.up
  BY <1>1, <1>2 DEF Send, Wires
<1>3. CASE ~w.up
  BY <1>1, <1>3 DEF Send, Wires
<1>4. QED
  BY <1>2, <1>3

-----------------------------------------------------------------------------
(* The parts of the invariant, by the state they are about, and what a     *)
(* step has to leave alone for each of them.                               *)

LinkTypes ==
  /\ status \in Statuses /\ attempts \in Nat /\ attempt \in 0 .. attempts /\ crossed \in BOOLEAN
  /\ phase \in Phases /\ listening \in BOOLEAN /\ attached \in BOOLEAN /\ attaching \in 0 .. attempts
  /\ calls \in Seq(Calls)

NovaTypes ==
  /\ sessions \in Nat /\ token \in {0, sessions}
  /\ offers \in Nat /\ offer \in {0, offers} /\ tries \in 0 .. (MaxTries - 1)
  /\ runs \in Seq([state : Live \cup Outcomes, session : 1 .. sessions]) /\ Len(runs) <= MaxRuns

RelayTypes == wire \in Wires /\ wire.token \in {0, token} /\ deliveries \subseteq Requests

PluginTypes ==
  /\ studio \in [Studios -> {"disconnected", "connecting", "connected"}]
  /\ key \in [Studios -> 0 .. sessions] /\ leaving \in [Studios -> BOOLEAN]
  /\ connects \in Nat /\ generation \in [Studios -> 0 .. connects] /\ faults \in Nat
  /\ work \in [Runs -> {"none", "starting", "written", "failed"}]

Link  == LinkTypes /\ LinkInv
Nova  == NovaTypes /\ LiveRunsHaveASession
Relay == RelayTypes /\ QueueIsTheSessions /\ TokenIsTheSessions /\ HandshakesAreNovas
Moved == ExecutionsMoveOnce /\ OutcomesAreTrue

Inv == Link /\ Nova /\ Relay /\ PluginTypes /\ Moved

LEMMA InvIsBridgeInv == Inv <=> BridgeInv
<1>1. LinkInv => ConnectedIsListening
  BY DEF LinkInv, ConnectedIsListening
<1>2. QED
  BY <1>1 DEF Inv, Link, Nova, Relay, Moved, LinkTypes, NovaTypes, RelayTypes, PluginTypes, BridgeInv,
     BridgeTypeOK

LEMMA LinkKept ==
  ASSUME Link, UNCHANGED <<linkVars, listening, attached, attaching, calls>>, phase' \in Phases,
         phase' = "stopped" => phase = "stopped", wire'.up = wire.up
  PROVE  Link'
<1>1. UNCHANGED <<status, attempt, attempts, crossed, listening, attached, attaching, calls>>
  BY DEF linkVars, connectionVars
<1>2. LinkTypes'
  BY <1>1 DEF Link, LinkTypes
<1>3. LinkInv'
  BY <1>1 DEF Link, LinkInv, Stopping
<1>4. QED
  BY <1>2, <1>3 DEF Link

(* A stop asked for when at most the start of an attempt is unanswered ... *)
LEMMA StopAsked ==
  ASSUME calls \in Seq(Calls), NEW awaited \in BOOLEAN,
         \/ calls = <<>>
         \/ Len(calls) = 1 /\ calls[1].what = "start" /\ calls[1].attempt # 0,
         calls' = Append(calls, [what |-> "stop", awaited |-> awaited])
  PROVE  Stopping(awaited)'
<1> DEFINE c == [what |-> "stop", awaited |-> awaited]
<1>1. Len(calls) \in Nat /\ Len(calls) <= 1
  OBVIOUS
<1>2. Len(calls') = Len(calls) + 1 /\ calls'[Len(calls) + 1] = c
  OBVIOUS
<1>3. Len(calls) = 1 => calls'[1] = calls[1]
  OBVIOUS
<1> HIDE DEF c
<1>4. Len(calls') = 2 => calls'[1].what = "start" /\ calls'[1].attempt # 0
  BY <1>1, <1>2, <1>3
<1>5. Len(calls') \in 1 .. 2 /\ calls'[Len(calls')] = c
  BY <1>1, <1>2
<1>6. QED
  BY <1>4, <1>5 DEF Stopping, c

LEMMA StopIsLast ==
  ASSUME NEW awaited, Len(calls') = 1, calls'[1] = [what |-> "stop", awaited |-> awaited]
  PROVE  Stopping(awaited)'
  BY DEF Stopping

(* ... stays asked for when the start is answered, and is the last.        *)
LEMMA StopHeard ==
  ASSUME calls \in Seq(Calls), NEW awaited \in BOOLEAN, Stopping(awaited), calls' = Tail(calls)
  PROVE  /\ Head(calls).what = "start" => Stopping(awaited)' /\ Head(calls).attempt # 0
         /\ Head(calls).what = "stop" => calls' = <<>> /\ Head(calls).awaited = awaited
<1>1. CASE Len(calls) = 1
  <2>1. Head(calls) = [what |-> "stop", awaited |-> awaited] /\ calls' = <<>>
    BY <1>1 DEF Stopping
  <2>2. QED
    BY <2>1
<1>2. CASE Len(calls) = 2
  <2>1. Head(calls) = calls[1] /\ Len(calls') = 1 /\ calls'[1] = calls[2]
    BY <1>2
  <2>2. calls[1].what = "start" /\ calls[1].attempt # 0
        /\ calls[2] = [what |-> "stop", awaited |-> awaited]
    BY <1>2 DEF Stopping
  <2>3. Stopping(awaited)'
    BY <2>1, <2>2, StopIsLast
  <2>4. QED
    BY <2>1, <2>2, <2>3
<1>3. QED
  BY <1>1, <1>2 DEF Stopping

LEMMA NovaKept ==
  ASSUME Nova, UNCHANGED <<token, sessions, offer, tries, offers, runs>>
  PROVE  Nova'
  BY DEF Nova, NovaTypes, LiveRunsHaveASession, LiveRuns, Live, Outcomes

LEMMA PluginsKept ==
  ASSUME PluginTypes, UNCHANGED <<pluginVars, bounds>>, sessions \in Nat, sessions' \in Nat,
         sessions <= sessions'
  PROVE  PluginTypes'
  BY DEF PluginTypes, pluginVars, bounds, Runs

(* A step after which the relay holds no more than before.                 *)
LEMMA RelayKept ==
  ASSUME Relay, wire' \in Wires, wire'.up = wire.up, wire'.token = wire.token,
         wire'.queue = wire.queue, UNCHANGED <<token, offers, sessions>>, offer' \in {0, offer},
         crossed => crossed',
         deliveries' \subseteq deliveries, wire'.pending \subseteq wire.pending,
         \A a \in wire'.answered : a \in wire.answered \/ (a.rpc.code <= offers /\ a.session <= sessions)
  PROVE  Relay'
<1>1. RelayTypes'
  BY DEF Relay, RelayTypes
<1>2. QueueIsTheSessions' /\ TokenIsTheSessions'
  BY DEF Relay, QueueIsTheSessions, TokenIsTheSessions, Connected
<1>3. HandshakesAreNovas'
  BY DEF Relay, HandshakesAreNovas, Connected
<1>4. QED
  BY <1>1, <1>2, <1>3 DEF Relay

(* No execution moves towards a plugin: what carries one only disappears,  *)
(* or is answered once.                                                    *)
LEMMA ExecutionsKept ==
  ASSUME RelayTypes, ExecutionsMoveOnce, wire' \in Wires,
         \/ wire'.queue = wire.queue
         \/ wire'.queue = <<>>
         \/ \E m \in Messages : m.run = 0 /\ wire'.queue = Append(wire.queue, m),
         \A p \in Studios : wire'.mail[p] = wire.mail[p] \/ wire'.mail[p].run = 0,
         \A r \in wire'.pending : Moving(r) => r \in wire.pending,
         \A a \in wire'.answered : Moving(a.rpc) =>
           \/ a \in wire.answered
           \/ /\ a.rpc \in wire.pending /\ a.rpc \notin wire'.pending
              /\ \A b \in wire'.answered : b.rpc = a.rpc => b = a \/ b \in wire.answered,
         work' = work, DOMAIN runs' = DOMAIN runs,
         \A r \in deliveries' : r.kind = "success" => r \in deliveries
  PROVE  ExecutionsMoveOnce'
<1>1. \A i \in DOMAIN wire'.queue : wire'.queue[i].run # 0 =>
        i \in DOMAIN wire.queue /\ wire'.queue[i] = wire.queue[i]
  <2>1. wire.queue \in Seq(Messages)
    BY WireFields DEF RelayTypes
  <2>2. CASE wire'.queue = <<>>
    BY <2>2
  <2>3. CASE \E m \in Messages : m.run = 0 /\ wire'.queue = Append(wire.queue, m)
    <3>1. PICK m \in Messages : m.run = 0 /\ wire'.queue = Append(wire.queue, m)
      BY <2>3
    <3>2. /\ DOMAIN wire'.queue = 1 .. Len(wire.queue) + 1 /\ wire'.queue[Len(wire.queue) + 1] = m
          /\ \A i \in 1 .. Len(wire.queue) : wire'.queue[i] = wire.queue[i]
      BY <2>1, <3>1
    <3>3. QED
      BY <2>1, <3>1, <3>2
  <2>4. QED
    BY <2>2, <2>3
<1>2. \A i \in DOMAIN wire'.queue : wire'.queue[i].run # 0 =>
       /\ work'[wire'.queue[i].run] = "none" /\ wire'.queue[i].run \in DOMAIN runs'
       /\ \A j \in DOMAIN wire'.queue : wire'.queue[j].run = wire'.queue[i].run => i = j
       /\ \A p \in Studios : wire'.mail[p].run # wire'.queue[i].run
  BY <1>1 DEF ExecutionsMoveOnce
<1>3. \A p \in Studios : wire'.mail[p].run # 0 =>
       /\ work'[wire'.mail[p].run] = "none" /\ wire'.mail[p].run \in DOMAIN runs'
       /\ \A o \in Studios : wire'.mail[o].run = wire'.mail[p].run => p = o
  BY DEF ExecutionsMoveOnce
<1>4. \A a \in wire'.answered : Moving(a.rpc) =>
        work'[a.rpc.run] = "starting" /\ \A r \in wire'.pending : Moving(r) => a.rpc.run # r.run
  <2>1. SUFFICES ASSUME NEW a \in wire'.answered, Moving(a.rpc)
                 PROVE  work'[a.rpc.run] = "starting"
                        /\ \A r \in wire'.pending : Moving(r) => a.rpc.run # r.run
    OBVIOUS
  <2>2. CASE a \in wire.answered
    BY <2>1, <2>2 DEF ExecutionsMoveOnce
  <2>3. CASE a.rpc \in wire.pending /\ a.rpc \notin wire'.pending
    BY <2>1, <2>3 DEF ExecutionsMoveOnce
  <2>4. QED
    BY <2>1, <2>2, <2>3
<1>5. \A a \in wire'.answered : Moving(a.rpc) =>
        \A b \in wire'.answered : Moving(b.rpc) /\ b.rpc.run = a.rpc.run => a = b
  <2>1. SUFFICES ASSUME NEW a \in wire'.answered, Moving(a.rpc),
                        NEW b \in wire'.answered, Moving(b.rpc), b.rpc.run = a.rpc.run
                 PROVE  a = b
    OBVIOUS
  <2>2. CASE a \in wire.answered /\ b \in wire.answered
    BY <2>1, <2>2 DEF ExecutionsMoveOnce
  <2>3. CASE a \notin wire.answered /\ b \notin wire.answered
    <3>1. a.rpc \in wire.pending /\ b.rpc \in wire.pending
      BY <2>1, <2>3
    <3>2. a.rpc = b.rpc
      BY <2>1, <3>1 DEF ExecutionsMoveOnce
    <3>3. QED
      BY <2>1, <2>3, <3>2
  <2>4. CASE ~(a \in wire.answered <=> b \in wire.answered)
    BY <2>1, <2>4 DEF ExecutionsMoveOnce
  <2>5. QED
    BY <2>2, <2>3, <2>4
<1>6. \A r \in wire'.pending : Moving(r) =>
       /\ work'[r.run] = "starting"
       /\ \A s \in wire'.pending : Moving(s) /\ s.run = r.run => r = s
       /\ \A a \in wire'.answered : Moving(a.rpc) => a.rpc.run # r.run
  BY <1>4 DEF ExecutionsMoveOnce
<1>7. (\A r \in deliveries' : r.kind = "success" => work'[r.run] = "written")
      /\ \A e \in Runs \ DOMAIN runs' : work'[e] = "none"
  BY DEF ExecutionsMoveOnce
<1>8. QED
  BY <1>2, <1>3, <1>4, <1>5, <1>6, <1>7 DEF ExecutionsMoveOnce

(* OutcomesAreTrue, when no run has just succeeded.                        *)
LEMMA OutcomesKept ==
  ASSUME OutcomesAreTrue, work' = work, DOMAIN runs' = DOMAIN runs,
         \A e \in DOMAIN runs : runs'[e].state = "success" => runs[e].state = "success"
  PROVE  OutcomesAreTrue'
  BY DEF OutcomesAreTrue

-----------------------------------------------------------------------------
(* Starting and stopping the bridge.                                       *)

(* bridge_start: the relay keeps up or comes up, without a session.        *)
LEMMA SendStartFacts ==
  ASSUME wire \in Wires, calls \in Seq(Calls), NEW n \in Nat, SendStart(n)
  PROVE  /\ wire' \in Wires /\ wire'.token = 0 /\ wire'.queue = <<>> /\ (wire.up => wire'.up)
         /\ wire'.parked = wire.parked /\ wire'.pending = wire.pending
         /\ wire'.answered = wire.answered /\ wire'.mail = wire.mail
         /\ calls' = Append(calls, [what |-> "start", attempt |-> n, ok |-> wire'.up])
         /\ calls' \in Seq(Calls)
<1>1. PICK ok \in BOOLEAN :
        /\ wire.up => ok
        /\ calls' = Append(calls, [what |-> "start", attempt |-> n, ok |-> ok])
        /\ wire' = [ClearQueue(SetToken(wire, 0)) EXCEPT !.up = ok]
  BY DEF SendStart
<1>2. PICK v : v = SetToken(wire, 0)
  OBVIOUS
<1>a. /\ v \in Wires /\ v.token = 0 /\ v.parked = wire.parked
      /\ v.pending = wire.pending /\ v.answered = wire.answered /\ v.mail = wire.mail
  BY <1>2 DEF SetToken, Wires
<1>b. PICK w : w = ClearQueue(v)
  OBVIOUS
<1>c. /\ w \in Wires /\ w.token = 0 /\ w.queue = <<>> /\ w.parked = wire.parked
      /\ w.pending = wire.pending /\ w.answered = wire.answered /\ w.mail = wire.mail
  BY <1>a, <1>b, ClearQueueFacts
<1>3. wire' = [w EXCEPT !.up = ok]
  BY <1>1, <1>2, <1>b
<1>4. /\ wire' \in Wires /\ wire'.up = ok /\ wire'.token = 0 /\ wire'.queue = <<>>
      /\ wire'.parked = wire.parked /\ wire'.pending = wire.pending
      /\ wire'.answered = wire.answered /\ wire'.mail = wire.mail
  BY <1>c, <1>3 DEF Wires
<1>5. [what |-> "start", attempt |-> n, ok |-> ok] \in Calls
  BY DEF Calls
<1>6. calls' \in Seq(Calls)
  BY <1>1, <1>5, AppendKeeps
<1>7. QED
  BY <1>1, <1>4, <1>6

(* A start changes the relay only by taking its token and its queue.       *)
LEMMA StartedRelay ==
  ASSUME Inv, NEW n \in Nat, SendStart(n), crossed => crossed', ~crossed' => ~wire.up,
         UNCHANGED <<token, sessions, offer, tries, offers, runs, deliveries, pluginVars, bounds>>
  PROVE  Nova' /\ Relay' /\ PluginTypes' /\ Moved'
<1> USE DEF Inv
<1>1. /\ wire' \in Wires /\ wire'.token = 0 /\ wire'.queue = <<>> /\ (wire.up => wire'.up)
      /\ wire'.pending = wire.pending /\ wire'.answered = wire.answered /\ wire'.mail = wire.mail
  BY SendStartFacts DEF Relay, RelayTypes, Link, LinkTypes
<1>2. Nova' /\ PluginTypes'
  BY NovaKept, PluginsKept DEF Nova, NovaTypes
<1>3. Relay'
  <2>1. ~crossed' => token = 0
    BY DEF Relay, HandshakesAreNovas, Connected
  <2>2. RelayTypes' /\ QueueIsTheSessions' /\ TokenIsTheSessions'
    BY <1>1, <2>1 DEF Relay, RelayTypes, QueueIsTheSessions, TokenIsTheSessions
  <2>3. HandshakesAreNovas'
    BY <1>1 DEF Relay, HandshakesAreNovas, Connected
  <2>4. QED
    BY <2>2, <2>3 DEF Relay
<1>4. Moved'
  <2>1. work' = work /\ runs' = runs
    BY DEF pluginVars
  <2>2. ExecutionsMoveOnce'
    BY <1>1, <2>1, ExecutionsKept DEF Moved, Relay
  <2>3. QED
    BY <2>1, <2>2, OutcomesKept DEF Moved
<1>5. QED
  BY <1>2, <1>3, <1>4

LEMMA StartBridgeInv == ASSUME Inv, StartBridge PROVE Inv'
<1> USE DEF Inv
<1>1. /\ status \in {"disconnected", "error"} /\ attempts' = attempts + 1 /\ attempts \in Nat
      /\ crossed' = (crossed \/ calls # <<>>)
      /\ UNCHANGED <<listening, token, sessions, offer, tries, offers, runs, attached, deliveries,
                     pluginVars, bounds>>
  BY DEF StartBridge, BeginConnect, Link, LinkTypes
<1>a. calls = <<>> => ~Stopping(FALSE)
  BY DEF Stopping
<1>2. ~crossed' => ~crossed /\ attempt = 0 /\ attaching = 0 /\ ~wire.up /\ calls = <<>> /\ ~listening
  BY <1>1, <1>a DEF Link, LinkTypes, LinkInv
<1>3. CASE listening /\ ConnectedAtOnce /\ UNCHANGED <<phase, attaching, calls, wire>>
  <2>1. Link'
    BY <1>1, <1>2, <1>3 DEF Link, LinkTypes, LinkInv, ConnectedAtOnce, Statuses
  <2>2. Nova' /\ PluginTypes'
    BY <1>1, NovaKept, PluginsKept DEF Nova, NovaTypes
  <2>3. Relay'
    BY <1>1, <1>3, RelayKept DEF Relay, RelayTypes
  <2>4. work' = work /\ runs' = runs
    BY <1>1 DEF pluginVars
  <2>5. ExecutionsMoveOnce'
    BY <1>1, <1>3, <2>4, ExecutionsKept DEF Moved, Relay, RelayTypes
  <2>6. QED
    BY <2>1, <2>2, <2>3, <2>4, <2>5, OutcomesKept DEF Moved
<1>4. CASE ~listening /\ attached /\ Connecting /\ phase' = "starting"
           /\ SendStart(attempts') /\ UNCHANGED attaching
  <2>1. Nova' /\ Relay' /\ PluginTypes' /\ Moved'
    BY <1>1, <1>2, <1>4, StartedRelay
  <2>2. /\ calls' = Append(calls, [what |-> "start", attempt |-> attempts', ok |-> wire'.up])
        /\ calls' \in Seq(Calls)
    BY <1>1, <1>4, SendStartFacts DEF Relay, RelayTypes, Link, LinkTypes
  <2>3. LinkTypes'
    BY <1>1, <1>4, <2>2 DEF Link, LinkTypes, Connecting, Statuses, Phases
  <2>4. ~crossed' => calls' = <<[what |-> "start", attempt |-> attempts', ok |-> wire'.up]>>
    BY <1>2, <2>2
  <2>5. LinkInv'
    BY <1>1, <1>2, <1>4, <2>4 DEF LinkInv, Connecting
  <2>6. QED
    BY <2>1, <2>3, <2>5 DEF Link
<1>5. CASE ~listening /\ ~attached /\ Connecting /\ phase' = "starting"
           /\ attaching' = attempts' /\ UNCHANGED <<calls, wire>>
  <2>1. Link'
    BY <1>1, <1>2, <1>5 DEF Link, LinkTypes, LinkInv, Connecting, Statuses, Phases
  <2>2. Nova' /\ PluginTypes'
    BY <1>1, NovaKept, PluginsKept DEF Nova, NovaTypes
  <2>3. Relay'
    BY <1>1, <1>5, RelayKept DEF Relay, RelayTypes
  <2>4. work' = work /\ runs' = runs
    BY <1>1 DEF pluginVars
  <2>5. ExecutionsMoveOnce'
    BY <1>1, <1>5, <2>4, ExecutionsKept DEF Moved, Relay, RelayTypes
  <2>6. QED
    BY <2>1, <2>2, <2>3, <2>4, <2>5, OutcomesKept DEF Moved
<1>6. QED
  BY <1>3, <1>4, <1>5 DEF StartBridge

LEMMA AttachInv == ASSUME Inv, Attach PROVE Inv'
<1> USE DEF Inv
<1>1. /\ attaching # 0 /\ attaching \in Nat /\ attaching' = 0 /\ attached' = TRUE /\ SendStart(attaching)
      /\ UNCHANGED <<linkVars, novaVars, deliveries, pluginVars, bounds>>
  BY DEF Attach, Link, LinkTypes
<1>2. ~crossed => /\ status = "connecting" /\ ~listening /\ attaching = attempt /\ calls = <<>> /\ ~wire.up
                  /\ attempt # 0 /\ phase # "stopped"
  BY <1>1 DEF Link, LinkInv, LinkTypes, Statuses
<1>3. Nova' /\ Relay' /\ PluginTypes' /\ Moved'
  BY <1>1, <1>2, StartedRelay DEF novaVars, linkVars
<1>4. /\ calls' = Append(calls, [what |-> "start", attempt |-> attaching, ok |-> wire'.up])
      /\ calls' \in Seq(Calls)
  BY <1>1, SendStartFacts DEF Relay, RelayTypes, Link, LinkTypes
<1>5. LinkTypes'
  BY <1>1, <1>4 DEF Link, LinkTypes, linkVars, connectionVars, novaVars
<1>6. ~crossed => calls' = <<[what |-> "start", attempt |-> attempt, ok |-> wire'.up]>>
  BY <1>2, <1>4
<1>7. LinkInv'
  BY <1>1, <1>2, <1>6 DEF LinkInv, linkVars, connectionVars, novaVars
<1>8. QED
  BY <1>3, <1>5, <1>7 DEF Link
(* teardownSession: no run is left waiting, and nothing else is said of one. *)
LEMMA TeardownFacts ==
  ASSUME Nova, NEW w \in Wires, NEW ph, Teardown(w, ph), UNCHANGED <<sessions, offers>>
  PROVE  /\ Nova' /\ token' = 0 /\ offer' = 0 /\ phase' = ph
         /\ wire' \in Wires /\ wire'.token = 0 /\ wire'.up = w.up /\ wire'.queue = w.queue
         /\ wire'.parked = w.parked /\ wire'.pending = w.pending
         /\ wire'.answered = w.answered /\ wire'.mail = w.mail
         /\ DOMAIN runs' = DOMAIN runs
         /\ \A e \in DOMAIN runs : runs'[e].state = "success" => runs[e].state = "success"
<1>1. /\ token' = 0 /\ offer' = 0 /\ phase' = ph /\ tries' = 0 /\ wire' = SetToken(w, 0)
      /\ runs' = [e \in DOMAIN runs |->
                    IF e \in LiveRuns THEN [runs[e] EXCEPT !.state = "lost"] ELSE runs[e]]
  BY DEF Teardown
<1>2. /\ wire' \in Wires /\ wire'.token = 0 /\ wire'.up = w.up /\ wire'.queue = w.queue
      /\ wire'.parked = w.parked /\ wire'.pending = w.pending
      /\ wire'.answered = w.answered /\ wire'.mail = w.mail
  BY <1>1, SetTokenFacts
<1> DEFINE R == [state : Live \cup Outcomes, session : 1 .. sessions]
<1>3. runs \in Seq(R) /\ DOMAIN runs = 1 .. Len(runs) /\ Len(runs) \in Nat
  BY DEF Nova, NovaTypes
<1>4. \A e \in DOMAIN runs : /\ runs'[e] \in R /\ runs'[e].state \notin Live
                             /\ runs'[e].state = "success" => runs[e].state = "success"
  <2>1. SUFFICES ASSUME NEW e \in DOMAIN runs
                 PROVE  /\ runs'[e] \in R /\ runs'[e].state \notin Live
                        /\ runs'[e].state = "success" => runs[e].state = "success"
    OBVIOUS
  <2>2. runs[e] \in R
    <3> HIDE DEF R
    <3>1. QED
      BY <1>3
  <2>3. CASE e \in LiveRuns
    <3>1. runs'[e] = [runs[e] EXCEPT !.state = "lost"]
      BY <1>1, <2>3
    <3>2. QED
      BY <2>2, <3>1 DEF Live, Outcomes
  <2>4. CASE e \notin LiveRuns
    BY <1>1, <2>2, <2>4 DEF LiveRuns
  <2>5. QED
    BY <2>3, <2>4
<1>5. DOMAIN runs' = DOMAIN runs
  BY <1>1
<1>6. runs' \in Seq(R) /\ Len(runs') = Len(runs)
  <2>1. runs' \in [1 .. Len(runs) -> R]
    BY <1>1, <1>3, <1>4, <1>5
  <2>2. QED
    BY <2>1, <1>3, SeqDef
<1>7. NovaTypes'
  BY <1>1, <1>6 DEF Nova, NovaTypes
<1>8. LiveRunsHaveASession'
  BY <1>4, <1>5 DEF LiveRunsHaveASession, LiveRuns
<1>9. QED
  BY <1>1, <1>2, <1>4, <1>5, <1>7, <1>8 DEF Nova

(* The end of a session, given a wire that carries no more than it did, but *)
(* for a notice and for answers to requests that waited.                   *)
LEMMA TornDown ==
  ASSUME Inv, NEW w \in Wires, NEW ph, Teardown(w, ph), UNCHANGED <<sessions, offers, work>>,
         deliveries' \subseteq deliveries, w.pending \subseteq wire.pending,
         \/ w.queue = wire.queue
         \/ w.queue = <<>>
         \/ \E m \in Messages : m.run = 0 /\ w.queue = Append(wire.queue, m),
         \A p \in Studios : w.mail[p] = wire.mail[p] \/ w.mail[p].run = 0,
         \A a \in w.answered :
           \/ a \in wire.answered
           \/ /\ a.rpc \in wire.pending /\ a.rpc \notin w.pending /\ a.session = 0
              /\ \A b \in w.answered : b.rpc = a.rpc => b = a \/ b \in wire.answered
  PROVE  Nova' /\ Relay' /\ Moved'
<1> USE DEF Inv
<1>1. /\ Nova' /\ token' = 0 /\ offer' = 0
      /\ wire' \in Wires /\ wire'.token = 0 /\ wire'.up = w.up /\ wire'.queue = w.queue
      /\ wire'.pending = w.pending /\ wire'.answered = w.answered /\ wire'.mail = w.mail
      /\ DOMAIN runs' = DOMAIN runs
      /\ \A e \in DOMAIN runs : runs'[e].state = "success" => runs[e].state = "success"
  BY TeardownFacts
<1>2. RelayTypes' /\ QueueIsTheSessions' /\ TokenIsTheSessions'
  BY <1>1 DEF Relay, RelayTypes, QueueIsTheSessions, TokenIsTheSessions, Connected
<1>3. HandshakesAreNovas'
  <2>1. \A r \in deliveries' \cup wire'.pending : r.code <= offers'
    BY <1>1 DEF Relay, HandshakesAreNovas
  <2>2. \A a \in wire'.answered : a.rpc.code <= offers' /\ a.session <= sessions'
    BY <1>1 DEF Relay, HandshakesAreNovas, Nova, NovaTypes
  <2>3. QED
    BY <1>1, <2>1, <2>2 DEF HandshakesAreNovas, Connected
<1>4. ExecutionsMoveOnce'
  BY <1>1, ExecutionsKept DEF Moved, Relay
<1>5. OutcomesAreTrue'
  BY <1>1, OutcomesKept DEF Moved
<1>6. QED
  BY <1>1, <1>2, <1>3, <1>4, <1>5 DEF Relay, Moved

(* A step that leaves the wire alone.                                      *)
LEMMA WireKept ==
  ASSUME Inv, UNCHANGED <<wire, token, offers, sessions, runs, work>>, crossed => crossed',
         offer' \in {0, offer}, deliveries' \subseteq deliveries
  PROVE  Relay' /\ Moved'
<1> USE DEF Inv
<1>1. Relay'
  BY RelayKept DEF Relay, RelayTypes
<1>2. ExecutionsMoveOnce'
  BY ExecutionsKept DEF Moved, Relay, RelayTypes
<1>3. QED
  BY <1>1, <1>2, OutcomesKept DEF Moved

(* The notice that a session is over, for those there is one for.          *)
LEMMA NoticePushed ==
  ASSUME Inv, NEW w \in IF Connected THEN Pushes(wire, Message("disconnect", token, 0)) ELSE {wire}
  PROVE  /\ w \in Wires /\ w.up = wire.up /\ w.pending = wire.pending /\ w.answered = wire.answered
         /\ \/ w.queue = wire.queue
            \/ \E m \in Messages : m.run = 0 /\ w.queue = Append(wire.queue, m)
         /\ \A p \in Studios : w.mail[p] = wire.mail[p] \/ w.mail[p].run = 0
<1> DEFINE m == Message("disconnect", token, 0)
<1>1. wire \in Wires /\ m \in Messages /\ m.run = 0
  BY MessageTypes DEF Inv, Relay, RelayTypes, Nova, NovaTypes
<1>2. CASE Connected
  <2>1. w \in Pushes(wire, m)
    BY <1>2
  <2> HIDE DEF m
  <2>2. /\ w \in Wires /\ w.up = wire.up /\ w.token = wire.token
        /\ w.pending = wire.pending /\ w.answered = wire.answered
        /\ \/ w.queue = wire.queue /\ w.mail = wire.mail
           \/ w.queue = Append(wire.queue, m) /\ w.mail = wire.mail
           \/ /\ w.queue = wire.queue
              /\ \E p \in Studios : /\ w.mail[p] \in {m, wire.mail[p]}
                                    /\ \A o \in Studios : o # p => w.mail[o] = wire.mail[o]
    BY <1>1, <2>1, PushFacts
  <2>3. QED
    BY <1>1, <2>2
<1>3. CASE ~Connected
  BY <1>1, <1>3
<1>4. QED
  BY <1>2, <1>3

(* stop(): the relay is down and holds nothing.                            *)
LEMMA StopBridgeFacts ==
  ASSUME Inv, NEW awaited \in BOOLEAN, StopBridge(awaited)
  PROVE  /\ Nova' /\ Relay' /\ PluginTypes' /\ Moved' /\ ~wire'.up /\ phase' = "stopped"
         /\ calls' = Append(calls, [what |-> "stop", awaited |-> awaited]) /\ calls' \in Seq(Calls)
         /\ UNCHANGED <<listening, attached, attaching>>
<1> USE DEF Inv
<1>1. PICK w \in IF Connected THEN Pushes(wire, Message("disconnect", token, 0)) ELSE {wire} :
        Teardown(StopRelay(w), "stopped")
  BY DEF StopBridge
<1>2. /\ calls' = Append(calls, [what |-> "stop", awaited |-> awaited])
      /\ UNCHANGED <<listening, sessions, offers, attached, attaching, deliveries, pluginVars, bounds>>
  BY DEF StopBridge
<1>3. w \in Wires /\ w.pending = wire.pending /\ w.answered = wire.answered
      /\ \A p \in Studios : w.mail[p] = wire.mail[p] \/ w.mail[p].run = 0
  BY <1>1, NoticePushed
<1>4. PICK v : v = StopRelay(w)
  OBVIOUS
<1>5. /\ v \in Wires /\ ~v.up /\ v.queue = <<>> /\ v.pending = {}
      /\ v.answered = w.answered \cup {Reply(r, "failed", 0) : r \in w.pending}
      /\ \A r : Reply(r, "failed", 0).rpc = r /\ Reply(r, "failed", 0).session = 0
      /\ \A p \in Studios : v.mail[p] = w.mail[p] \/ v.mail[p].run = 0
  BY <1>3, <1>4, StopRelayFacts
<1>6. Teardown(v, "stopped")
  BY <1>1, <1>4
<1>7. \A a \in v.answered :
        \/ a \in wire.answered
        \/ /\ a.rpc \in wire.pending /\ a.rpc \notin v.pending /\ a.session = 0
           /\ \A b \in v.answered : b.rpc = a.rpc => b = a \/ b \in wire.answered
  BY <1>3, <1>5
<1>8. work' = work
  BY <1>2 DEF pluginVars
<1>9. Nova' /\ Relay' /\ Moved'
  BY <1>2, <1>3, <1>5, <1>6, <1>7, <1>8, TornDown
<1>10. PluginTypes'
  BY <1>2, PluginsKept DEF Nova, NovaTypes
<1>11. ~wire'.up /\ phase' = "stopped"
  BY <1>2, <1>5, <1>6, TeardownFacts
<1>12. calls' \in Seq(Calls)
  <2>1. [what |-> "stop", awaited |-> awaited] \in Calls
    BY DEF Calls
  <2>2. QED
    BY <1>2, <2>1, AppendKeeps DEF Link, LinkTypes
<1>13. QED
  BY <1>2, <1>9, <1>10, <1>11, <1>12

LEMMA StartAnsweredInv == ASSUME Inv, StartAnswered PROVE Inv'
<1> USE DEF Inv
<1>1. /\ calls # <<>> /\ Head(calls).what = "start" /\ calls' = Tail(calls)
      /\ listening' = Head(calls).ok
      /\ phase' = IF Head(calls).ok THEN "listening" ELSE "error"
      /\ HearResult(Head(calls).attempt, Head(calls).ok)
      /\ UNCHANGED <<crossed, token, sessions, offer, tries, offers, runs, attached, attaching, wire,
                     deliveries, pluginVars, bounds>>
  BY DEF StartAnswered
<1>2. Head(calls) \in Calls /\ Tail(calls) \in Seq(Calls)
  BY <1>1 DEF Link, LinkTypes
<1>3. Head(calls).ok \in BOOLEAN
  BY <1>1, <1>2 DEF Calls
<1>4. LinkTypes'
  BY <1>1, <1>2, <1>3 DEF Link, LinkTypes, HearResult, Statuses, Phases
<1>5. LinkInv'
  <2>1. CASE crossed
    BY <1>1, <2>1 DEF LinkInv
  <2>2. CASE ~crossed /\ status = "connecting"
    <3>1. /\ attaching = 0 /\ attached /\ attempt # 0
          /\ calls = <<[what |-> "start", attempt |-> attempt, ok |-> wire.up]>>
      BY <1>1, <2>2 DEF Link, LinkInv
    <3>2. Head(calls).attempt = attempt /\ Head(calls).ok = wire.up /\ Tail(calls) = <<>>
      BY <3>1
    <3>3. /\ attempt' = 0 /\ status' = (IF wire.up THEN "connected" ELSE "error")
          /\ calls' = <<>> /\ listening' = wire.up
      BY <1>1, <3>2 DEF HearResult
    <3>4. CASE wire.up
      BY <1>1, <3>1, <3>3, <3>4 DEF LinkInv
    <3>5. CASE ~wire.up
      <4>1. status' = "error" /\ ~listening'
        BY <3>3, <3>5
      <4>2. QED
        BY <1>1, <3>1, <3>3, <3>5, <4>1 DEF LinkInv
    <3>6. QED
      BY <3>4, <3>5
  <2>3. CASE ~crossed /\ status \in {"disconnected", "error"}
    <3>1. attempt = 0 /\ attaching = 0 /\ ~wire.up /\ Stopping(FALSE)
      BY <1>1, <2>3 DEF Link, LinkInv
    <3>2. Stopping(FALSE)' /\ Head(calls).attempt # 0
      BY <1>1, <3>1, StopHeard DEF Link, LinkTypes
    <3>3. UNCHANGED <<attempt, status>>
      BY <1>1, <3>1, <3>2 DEF HearResult
    <3>4. QED
      BY <1>1, <2>3, <3>1, <3>2, <3>3 DEF LinkInv
  <2>a. CASE ~crossed /\ status = "disconnecting"
    <3>1. attempt = 0 /\ attaching = 0 /\ ~wire.up /\ Stopping(TRUE)
      BY <1>1, <2>a DEF Link, LinkInv
    <3>2. Stopping(TRUE)' /\ Head(calls).attempt # 0
      BY <1>1, <3>1, StopHeard DEF Link, LinkTypes
    <3>3. UNCHANGED <<attempt, status>>
      BY <1>1, <3>1, <3>2 DEF HearResult
    <3>4. QED
      BY <1>1, <2>a, <3>1, <3>2, <3>3 DEF LinkInv
  <2>4. CASE ~crossed /\ status = "connected"
    BY <1>1, <2>4 DEF Link, LinkInv
  <2>5. QED
    BY <2>1, <2>2, <2>3, <2>4, <2>a DEF Link, LinkTypes, Statuses
<1>7. Nova' /\ PluginTypes'
  BY <1>1, NovaKept, PluginsKept DEF Nova, NovaTypes
<1>8. Relay' /\ Moved'
  BY <1>1, WireKept DEF pluginVars
<1>9. QED
  BY <1>4, <1>5, <1>7, <1>8 DEF Link

LEMMA DisconnectInv == ASSUME Inv, Disconnect PROVE Inv'
<1> USE DEF Inv
<1>1. /\ status \in {"connecting", "connected"} /\ attempt' = 0 /\ UNCHANGED attempts
      /\ crossed' = (crossed \/ attaching # 0)
  BY DEF Disconnect, BeginDisconnect
<1>2. ~crossed' => /\ ~crossed /\ attaching = 0 /\ ~StopIsNothing
                   /\ \/ calls = <<>>
                      \/ Len(calls) = 1 /\ calls[1].what = "start" /\ calls[1].attempt # 0
  <2>1. SUFFICES ASSUME ~crossed'
                 PROVE  /\ ~crossed /\ attaching = 0 /\ ~StopIsNothing
                        /\ \/ calls = <<>>
                           \/ Len(calls) = 1 /\ calls[1].what = "start" /\ calls[1].attempt # 0
    OBVIOUS
  <2>2. ~crossed /\ attaching = 0
    BY <1>1, <2>1 DEF Link, LinkTypes
  <2>3. CASE status = "connected"
    BY <2>2, <2>3 DEF Link, LinkInv, StopIsNothing
  <2>4. CASE status = "connecting"
    <3>1. /\ attempt # 0 /\ phase # "stopped" /\ attempt # attaching
          /\ calls = <<[what |-> "start", attempt |-> attempt, ok |-> wire.up]>>
      BY <2>2, <2>4 DEF Link, LinkInv
    <3>2. QED
      BY <2>2, <3>1 DEF StopIsNothing
  <2>5. QED
    BY <1>1, <2>3, <2>4
<1>3. CASE StopIsNothing /\ status' = "disconnected"
           /\ UNCHANGED <<novaVars, relayVars, pluginVars, bounds>>
  <2>1. LinkInv' /\ LinkTypes'
    <3>1. crossed'
      BY <1>1, <1>2, <1>3 DEF Link, LinkTypes
    <3>2. LinkInv'
      BY <3>1 DEF LinkInv
    <3>3. LinkTypes'
      BY <1>1, <1>3 DEF Link, LinkTypes, Statuses, novaVars, relayVars
    <3>4. QED
      BY <3>2, <3>3
  <2>2. Nova' /\ PluginTypes'
    BY <1>3, NovaKept, PluginsKept DEF Nova, NovaTypes, novaVars
  <2>3. Relay' /\ Moved'
    BY <1>1, <1>3, WireKept DEF novaVars, relayVars, pluginVars
  <2>4. QED
    BY <2>1, <2>2, <2>3 DEF Link
<1>4. CASE status' = "disconnecting" /\ StopBridge(TRUE)
  <2>1. /\ Nova' /\ Relay' /\ PluginTypes' /\ Moved' /\ ~wire'.up /\ phase' = "stopped"
        /\ calls' = Append(calls, [what |-> "stop", awaited |-> TRUE]) /\ calls' \in Seq(Calls)
        /\ UNCHANGED <<listening, attached, attaching>>
    BY <1>4, StopBridgeFacts
  <2>2. LinkTypes'
    BY <1>1, <1>4, <2>1 DEF Link, LinkTypes, Statuses, Phases
  <2>3. ~crossed' => Stopping(TRUE)'
    BY <1>2, <2>1, StopAsked DEF Link, LinkTypes
  <2>4. LinkInv'
    BY <1>1, <1>2, <1>4, <2>1, <2>3 DEF LinkInv
  <2>5. QED
    BY <2>1, <2>2, <2>4 DEF Link
<1>5. QED
  BY <1>3, <1>4 DEF Disconnect

LEMMA DismissInv == ASSUME Inv, Dismiss PROVE Inv'
<1> USE DEF Inv
<1>1. /\ status = "error" /\ status' = "disconnected" /\ UNCHANGED <<attempt, attempts, crossed>>
      /\ UNCHANGED <<novaVars, relayVars, pluginVars, bounds>>
  BY DEF Dismiss, DismissError
<1>2. Link'
  BY <1>1 DEF Link, LinkTypes, LinkInv, Stopping, Statuses, novaVars, relayVars
<1>3. Nova' /\ PluginTypes'
  BY <1>1, NovaKept, PluginsKept DEF Nova, NovaTypes, novaVars
<1>4. Relay' /\ Moved'
  BY <1>1, WireKept DEF novaVars, relayVars, pluginVars
<1>5. QED
  BY <1>2, <1>3, <1>4

LEMMA ConnectTimesOutInv == ASSUME Inv, ConnectTimesOut PROVE Inv'
<1> USE DEF Inv
<1>1. /\ attempt # 0 /\ attaching = 0 /\ attempt' = 0 /\ status' = "error"
      /\ UNCHANGED <<attempts, crossed>>
  BY DEF ConnectTimesOut, AttemptTimesOut
<1>a. ~crossed => /\ ~StopIsNothing
                  /\ Len(calls) = 1 /\ calls[1].what = "start" /\ calls[1].attempt # 0
  BY <1>1 DEF Link, LinkInv, LinkTypes, StopIsNothing
<1>2. CASE StopIsNothing /\ UNCHANGED <<novaVars, relayVars, pluginVars, bounds>>
  <2>1. Link'
    BY <1>1, <1>a, <1>2 DEF Link, LinkTypes, LinkInv, Statuses, novaVars, relayVars
  <2>2. Nova' /\ PluginTypes'
    BY <1>2, NovaKept, PluginsKept DEF Nova, NovaTypes, novaVars
  <2>3. Relay' /\ Moved'
    BY <1>1, <1>2, WireKept DEF novaVars, relayVars, pluginVars
  <2>4. QED
    BY <2>1, <2>2, <2>3
<1>3. CASE StopBridge(FALSE)
  <2>1. /\ Nova' /\ Relay' /\ PluginTypes' /\ Moved' /\ ~wire'.up /\ phase' = "stopped"
        /\ calls' = Append(calls, [what |-> "stop", awaited |-> FALSE]) /\ calls' \in Seq(Calls)
        /\ UNCHANGED <<listening, attached, attaching>>
    BY <1>3, StopBridgeFacts
  <2>2. ~crossed => Stopping(FALSE)'
    BY <1>a, <2>1, StopAsked DEF Link, LinkTypes
  <2>3. LinkTypes' /\ LinkInv'
    BY <1>1, <2>1, <2>2 DEF Link, LinkTypes, LinkInv, Statuses, Phases
  <2>4. QED
    BY <2>1, <2>3 DEF Link
<1>4. QED
  BY <1>2, <1>3 DEF ConnectTimesOut

LEMMA StopAnsweredInv == ASSUME Inv, StopAnswered PROVE Inv'
<1> USE DEF Inv
<1>1. /\ calls # <<>> /\ Head(calls).what = "stop" /\ attaching = 0 /\ calls' = Tail(calls)
      /\ attached' = FALSE /\ phase' = "stopped" /\ listening' = FALSE
      /\ IF Head(calls).awaited THEN HearDisconnected ELSE UNCHANGED connectionVars
      /\ UNCHANGED <<crossed, token, sessions, offer, tries, offers, runs, attaching, wire, deliveries,
                     pluginVars, bounds>>
  BY DEF StopAnswered
<1>2. /\ UNCHANGED <<attempt, attempts, crossed>>
      /\ status' = IF Head(calls).awaited /\ status = "disconnecting" THEN "disconnected" ELSE status
  BY <1>1 DEF HearDisconnected, connectionVars
<1>3. Tail(calls) \in Seq(Calls)
  BY <1>1 DEF Link, LinkTypes
<1>4. LinkTypes'
  BY <1>1, <1>2, <1>3 DEF Link, LinkTypes, Statuses, Phases
<1>a. calls = <<>> => ~Stopping(FALSE)
  BY DEF Stopping
<1>5. ~crossed => /\ attempt = 0 /\ ~wire.up
                  /\ \/ status \in {"disconnected", "error"} /\ Stopping(FALSE)
                     \/ status = "disconnecting" /\ Stopping(TRUE)
  <2>1. ~crossed => status # "connecting" /\ status # "connected"
    <3>1. Head(<<[what |-> "start", attempt |-> attempt, ok |-> wire.up]>>).what = "start"
      OBVIOUS
    <3>2. QED
      BY <1>1, <3>1 DEF Link, LinkInv, LinkTypes
  <2>2. status \in Statuses
    BY DEF Link, LinkTypes
  <2>3. QED
    BY <1>1, <2>1, <2>2 DEF Link, LinkInv, Statuses
<1>6. LinkInv'
  <2>1. CASE crossed
    BY <1>2, <2>1 DEF LinkInv
  <2>2. CASE ~crossed /\ status \in {"disconnected", "error"} /\ Stopping(FALSE)
    <3>1. calls' = <<>> /\ ~Head(calls).awaited
      BY <1>1, <2>2, StopHeard DEF Link, LinkTypes
    <3>2. QED
      BY <1>1, <1>2, <1>5, <2>2, <3>1 DEF LinkInv
  <2>3. CASE ~crossed /\ status = "disconnecting" /\ Stopping(TRUE)
    <3>1. calls' = <<>> /\ Head(calls).awaited
      BY <1>1, <2>3, StopHeard DEF Link, LinkTypes
    <3>2. status' = "disconnected"
      BY <1>2, <2>3, <3>1
    <3>3. QED
      BY <1>1, <1>2, <1>5, <2>3, <3>1, <3>2 DEF LinkInv
  <2>4. QED
    BY <1>5, <2>1, <2>2, <2>3
<1>7. Nova' /\ PluginTypes'
  BY <1>1, NovaKept, PluginsKept DEF Nova, NovaTypes
<1>8. Relay' /\ Moved'
  BY <1>1, <1>2, WireKept DEF pluginVars
<1>9. QED
  BY <1>4, <1>6, <1>7, <1>8 DEF Link

-----------------------------------------------------------------------------
(* Offers, the ends of a session, and executions.                          *)

LEMMA OfferPairingInv == ASSUME Inv, OfferPairing PROVE Inv'
<1> USE DEF Inv
<1>1. /\ offers' = offers + 1 /\ offer' = offers' /\ tries' = 0
      /\ UNCHANGED <<linkVars, phase, listening, token, sessions, runs, relayVars, pluginVars, bounds>>
  BY DEF OfferPairing
<1>2. Link'
  BY <1>1, LinkKept DEF Link, LinkTypes, relayVars
<1>3. Nova'
  BY <1>1 DEF Nova, NovaTypes, LiveRunsHaveASession, LiveRuns
<1>4. PluginTypes'
  BY <1>1, PluginsKept DEF Nova, NovaTypes
<1>5. RelayTypes' /\ QueueIsTheSessions' /\ TokenIsTheSessions'
  BY <1>1 DEF Relay, RelayTypes, QueueIsTheSessions, TokenIsTheSessions, Connected, relayVars,
              linkVars
<1>6. HandshakesAreNovas'
  <2>1. /\ \A r \in deliveries \cup wire.pending : r.code \in Nat /\ r.code <= offers
        /\ \A a \in wire.answered : a.rpc.code \in Nat /\ a.rpc.code <= offers
    BY WireFields, RequestFields, AnswerFields DEF Relay, RelayTypes, HandshakesAreNovas
  <2>2. offers \in Nat
    BY DEF Nova, NovaTypes
  <2>3. QED
    BY <1>1, <2>1, <2>2 DEF Relay, HandshakesAreNovas, Connected, relayVars
<1>7. Moved'
  BY <1>1 DEF Moved, ExecutionsMoveOnce, OutcomesAreTrue, relayVars, pluginVars
<1>8. QED
  BY <1>2, <1>3, <1>4, <1>5, <1>6, <1>7 DEF Relay

LEMMA OfferEndsInv == ASSUME Inv, OfferEnds PROVE Inv'
<1> USE DEF Inv
<1>1. /\ offer' = 0 /\ tries' = 0
      /\ UNCHANGED <<linkVars, phase, listening, token, sessions, offers, runs, relayVars,
                     pluginVars, bounds>>
  BY DEF OfferEnds
<1>2. Link'
  BY <1>1, LinkKept DEF Link, LinkTypes, relayVars
<1>3. Nova'
  BY <1>1 DEF Nova, NovaTypes, LiveRunsHaveASession, LiveRuns
<1>4. PluginTypes'
  BY <1>1, PluginsKept DEF Nova, NovaTypes
<1>5. Relay' /\ Moved'
  BY <1>1, WireKept DEF relayVars, pluginVars, linkVars
<1>6. QED
  BY <1>2, <1>3, <1>4, <1>5

(* A session that ends while the relay stays as it is.                     *)
LEMMA SessionEnded ==
  ASSUME Inv, NEW w \in Wires, NEW ph \in Phases \ {"stopped"}, Teardown(w, ph), w.up = wire.up,
         UNCHANGED <<linkVars, listening, sessions, offers, attached, attaching, calls, pluginVars>>,
         deliveries' \subseteq deliveries, w.pending \subseteq wire.pending,
         \/ w.queue = wire.queue
         \/ \E m \in Messages : m.run = 0 /\ w.queue = Append(wire.queue, m),
         \A p \in Studios : w.mail[p] = wire.mail[p] \/ w.mail[p].run = 0,
         \A a \in w.answered :
           \/ a \in wire.answered
           \/ /\ a.rpc \in wire.pending /\ a.rpc \notin w.pending /\ a.session = 0
              /\ \A b \in w.answered : b.rpc = a.rpc => b = a \/ b \in wire.answered,
         connects' = connects, faults' \in Nat
  PROVE  Inv'
<1> USE DEF Inv
<1>1. work' = work
  BY DEF pluginVars
<1>2. Nova' /\ Relay' /\ Moved'
  BY <1>1, TornDown
<1>3. phase' = ph /\ wire'.up = wire.up
  BY TeardownFacts
<1>4. Link'
  BY <1>3, LinkKept
<1>5. PluginTypes'
  BY DEF PluginTypes, pluginVars, Runs
<1>6. QED
  BY <1>2, <1>4, <1>5

LEMMA DisconnectStudioInv == ASSUME Inv, DisconnectStudio PROVE Inv'
<1> USE DEF Inv
<1>1. PICK w \in Pushes(wire, Message("disconnect", token, 0)) : Teardown(w, "listening")
  BY DEF DisconnectStudio
<1>2. Connected
  BY DEF DisconnectStudio
<1>3. UNCHANGED <<linkVars, listening, sessions, offers, attached, attaching, calls, deliveries,
                  pluginVars, bounds>>
  BY DEF DisconnectStudio
<1>4. /\ w \in Wires /\ w.up = wire.up /\ w.pending = wire.pending /\ w.answered = wire.answered
      /\ \/ w.queue = wire.queue
         \/ \E m \in Messages : m.run = 0 /\ w.queue = Append(wire.queue, m)
      /\ \A p \in Studios : w.mail[p] = wire.mail[p] \/ w.mail[p].run = 0
  BY <1>1, <1>2, NoticePushed
<1>5. "listening" \in Phases /\ connects' = connects /\ faults' = faults /\ faults \in Nat
  BY <1>3 DEF Phases, bounds, PluginTypes
<1>6. QED
  BY <1>1, <1>3, <1>4, <1>5, SessionEnded

LEMMA GoesStaleInv == ASSUME Inv, GoesStale PROVE Inv'
<1> USE DEF Inv
<1>1. /\ Teardown(wire, "listening")
      /\ UNCHANGED <<linkVars, listening, sessions, offers, attached, attaching, calls, deliveries,
                     pluginVars, bounds>>
  BY DEF GoesStale
<1>2. "listening" \in Phases /\ connects' = connects /\ faults' = faults /\ faults \in Nat
  BY <1>1 DEF Phases, bounds, PluginTypes
<1>3. QED
  BY <1>1, <1>2, SessionEnded DEF Relay, RelayTypes

LEMMA TransportFailsInv == ASSUME Inv, TransportFails PROVE Inv'
<1> USE DEF Inv
<1>1. /\ Teardown(wire, "error") /\ faults' = faults + 1
      /\ UNCHANGED <<linkVars, listening, sessions, offers, attached, attaching, calls, deliveries,
                     pluginVars, connects>>
  BY DEF TransportFails
<1>2. "error" \in Phases /\ faults' \in Nat
  BY <1>1 DEF Phases, PluginTypes
<1>3. QED
  BY <1>1, <1>2, SessionEnded DEF Relay, RelayTypes

LEMMA ExecuteInv == ASSUME Inv, Execute PROVE Inv'
<1> USE DEF Inv
<1> DEFINE e == Len(runs) + 1
           m == Message("execute_request", token, e)
           run == [state |-> "sent", session |-> token]
           R == [state : Live \cup Outcomes, session : 1 .. sessions]
<1>1. /\ Connected /\ Len(runs) < MaxRuns /\ runs' = Append(runs, run) /\ wire' \in Pushes(wire, m)
      /\ UNCHANGED <<linkVars, phase, listening, token, sessions, offer, tries, offers,
                     attached, attaching, calls, deliveries, pluginVars, bounds>>
  BY DEF Execute
<1>2. /\ runs \in Seq(R) /\ Len(runs) \in Nat /\ DOMAIN runs = 1 .. Len(runs) /\ token \in Nat
      /\ e \in Runs /\ e \in Nat /\ e # 0 /\ e \notin DOMAIN runs /\ Len(runs) <= MaxRuns
  BY <1>1 DEF Nova, NovaTypes, Runs
<1>3. run \in R /\ run.state = "sent" /\ run.session = token
  BY <1>1 DEF Nova, NovaTypes, Connected, Live
<1> HIDE DEF run, R
<1>4. /\ runs' \in Seq(R) /\ Len(runs') = e /\ DOMAIN runs' = 1 .. e /\ runs'[e] = run
      /\ \A i \in DOMAIN runs : runs'[i] = runs[i]
  BY <1>1, <1>2, <1>3
<1>5. m \in Messages /\ m.session = token /\ m.run = e
  BY <1>2, MessageTypes
<1> HIDE DEF e, m
<1>6. /\ wire' \in Wires /\ wire'.up = wire.up /\ wire'.token = wire.token
      /\ wire'.pending = wire.pending /\ wire'.answered = wire.answered
      /\ \/ wire'.queue = wire.queue /\ wire'.mail = wire.mail
         \/ wire'.queue = Append(wire.queue, m) /\ wire'.mail = wire.mail /\ wire.up
         \/ /\ wire'.queue = wire.queue /\ wire.up
            /\ \E p \in Studios : /\ wire'.mail[p] \in {m, wire.mail[p]}
                                  /\ \A o \in Studios : o # p => wire'.mail[o] = wire.mail[o]
  BY <1>1, <1>5, PushFacts DEF Relay, RelayTypes
<1>7. /\ wire.queue \in Seq(Messages) /\ DOMAIN wire.queue = 1 .. Len(wire.queue) /\ Len(wire.queue) \in Nat
      /\ wire'.queue = wire.queue \/ /\ DOMAIN wire'.queue = 1 .. Len(wire.queue) + 1
                                     /\ wire'.queue[Len(wire.queue) + 1] = m
                                     /\ \A i \in DOMAIN wire.queue : wire'.queue[i] = wire.queue[i]
  <2>1. wire.queue \in Seq(Messages)
    BY WireFields DEF Relay, RelayTypes
  <2>2. QED
    BY <1>5, <1>6, <2>1
<1>8. Link'
  BY <1>1, <1>6, LinkKept DEF Link, LinkTypes
<1>9. Nova'
  <2>1. NovaTypes'
    BY <1>1, <1>2, <1>4 DEF Nova, NovaTypes, R, e
  <2>2. \A i \in DOMAIN runs' : runs'[i].state \in Live => runs'[i].session = token
    BY <1>2, <1>3, <1>4 DEF Nova, LiveRunsHaveASession, LiveRuns, e
  <2>3. QED
    BY <1>1, <2>1, <2>2 DEF Nova, LiveRunsHaveASession, LiveRuns
<1>10. PluginTypes'
  BY <1>1, PluginsKept DEF Nova, NovaTypes
<1>11. Relay'
  <2>1. RelayTypes' /\ TokenIsTheSessions' /\ HandshakesAreNovas'
    BY <1>1, <1>6 DEF Relay, RelayTypes, TokenIsTheSessions, HandshakesAreNovas, linkVars, Connected
  <2>2. \A i \in DOMAIN wire'.queue : wire'.queue[i].session = token
    BY <1>1, <1>5, <1>7 DEF Relay, QueueIsTheSessions
  <2>3. QED
    BY <1>1, <2>1, <2>2 DEF Relay, QueueIsTheSessions
<1>12. ExecutionsMoveOnce'
  <2>1. work' = work /\ deliveries' = deliveries
    BY <1>1 DEF pluginVars
  <2>2. /\ work[e] = "none"
        /\ \A i \in DOMAIN wire.queue : wire.queue[i].run # e
        /\ \A p \in Studios : wire.mail[p].run # e
    <3>1. /\ \A i \in DOMAIN wire.queue : wire.queue[i].run # 0 => wire.queue[i].run \in DOMAIN runs
          /\ \A p \in Studios : wire.mail[p].run # 0 => wire.mail[p].run \in DOMAIN runs
          /\ work[e] = "none"
      BY <1>2 DEF Moved, ExecutionsMoveOnce
    <3>2. QED
      BY <1>2, <3>1
  <2>3. e \in DOMAIN runs' /\ DOMAIN runs \subseteq DOMAIN runs'
    BY <1>2, <1>4 DEF e
  <2>4. CASE wire'.queue = wire.queue /\ wire'.mail = wire.mail
    BY <1>6, <2>1, <2>3, <2>4 DEF Moved, ExecutionsMoveOnce
  <2>5. CASE wire'.queue = Append(wire.queue, m) /\ wire'.mail = wire.mail
    <3>1. \A i \in DOMAIN wire'.queue :
            \/ i = Len(wire.queue) + 1 /\ wire'.queue[i] = m
            \/ i \in DOMAIN wire.queue /\ wire'.queue[i] = wire.queue[i]
      BY <1>5, <1>7, <2>5
    <3>2. \A i \in DOMAIN wire'.queue : wire'.queue[i].run # 0 =>
           /\ work[wire'.queue[i].run] = "none" /\ wire'.queue[i].run \in DOMAIN runs'
           /\ \A j \in DOMAIN wire'.queue : wire'.queue[j].run = wire'.queue[i].run => i = j
           /\ \A p \in Studios : wire'.mail[p].run # wire'.queue[i].run
      BY <1>5, <2>2, <2>3, <2>5, <3>1 DEF Moved, ExecutionsMoveOnce
    <3>3. QED
      BY <1>6, <2>1, <2>3, <2>5, <3>2 DEF Moved, ExecutionsMoveOnce
  <2>6. CASE /\ wire'.queue = wire.queue
             /\ \E p \in Studios : /\ wire'.mail[p] \in {m, wire.mail[p]}
                                   /\ \A o \in Studios : o # p => wire'.mail[o] = wire.mail[o]
    <3>1. PICK p \in Studios : /\ wire'.mail[p] \in {m, wire.mail[p]}
                               /\ \A o \in Studios : o # p => wire'.mail[o] = wire.mail[o]
      BY <2>6
    <3>2. \A o \in Studios : wire'.mail[o] = wire.mail[o] \/ (o = p /\ wire'.mail[o] = m)
      BY <3>1
    <3>3. \A o \in Studios : wire'.mail[o].run # 0 =>
           /\ work[wire'.mail[o].run] = "none" /\ wire'.mail[o].run \in DOMAIN runs'
           /\ \A q \in Studios : wire'.mail[q].run = wire'.mail[o].run => o = q
      BY <1>5, <2>2, <2>3, <3>2 DEF Moved, ExecutionsMoveOnce
    <3>4. \A i \in DOMAIN wire.queue : wire.queue[i].run # 0 =>
           \A o \in Studios : wire'.mail[o].run # wire.queue[i].run
      BY <1>5, <2>2, <3>2 DEF Moved, ExecutionsMoveOnce
    <3>5. QED
      BY <1>6, <2>1, <2>3, <2>6, <3>3, <3>4 DEF Moved, ExecutionsMoveOnce
  <2>7. QED
    BY <1>6, <2>4, <2>5, <2>6
<1>13. OutcomesAreTrue'
  BY <1>1, <1>2, <1>3, <1>4 DEF Moved, OutcomesAreTrue, pluginVars, e
<1>14. QED
  BY <1>8, <1>9, <1>10, <1>11, <1>12, <1>13 DEF Moved

-----------------------------------------------------------------------------
(* Deliveries.                                                             *)

(* A request is answered if it waits, a delivery of it taken or not.       *)
LEMMA Answered ==
  ASSUME Inv, NEW r \in deliveries \cup wire.pending, NEW what \in AnswerKinds,
         wire' = Respond(wire, r, what, 0), deliveries' \subseteq deliveries, work' = work, DOMAIN runs' = DOMAIN runs,
         UNCHANGED <<linkVars, token, sessions, offers>>, offer' \in {0, offer}
  PROVE  Relay' /\ ExecutionsMoveOnce' /\ wire'.up = wire.up
<1> USE DEF Inv
<1>1. r \in Requests /\ wire \in Wires /\ 0 \in Nat
  BY WireFields DEF Relay, RelayTypes
<1>a. PICK v : v = Respond(wire, r, what, 0)
  OBVIOUS
<1>b. wire' = v
  BY <1>a
<1>2. /\ wire' \in Wires /\ wire'.up = wire.up /\ wire'.token = wire.token /\ wire'.queue = wire.queue
      /\ wire'.mail = wire.mail /\ wire'.pending = wire.pending \ {r}
      /\ wire'.answered = IF r \in wire.pending THEN wire.answered \cup {Reply(r, what, 0)}
                                                ELSE wire.answered
      /\ Reply(r, what, 0).rpc = r /\ Reply(r, what, 0).session = 0
  BY <1>1, <1>a, <1>b, RespondFacts
<1>3. \A a \in wire'.answered :
        \/ a \in wire.answered
        \/ a = Reply(r, what, 0) /\ r \in wire.pending /\ a.rpc = r /\ a.session = 0
  BY <1>2
<1>4. r.code <= offers /\ sessions \in Nat
  BY DEF Relay, HandshakesAreNovas, Nova, NovaTypes
<1>5. Relay'
  <2>1. \A a \in wire'.answered : a \in wire.answered \/ (a.rpc.code <= offers /\ a.session <= sessions)
    BY <1>3, <1>4
  <2>2. QED
    BY <1>2, <2>1, RelayKept DEF linkVars
<1>6. ExecutionsMoveOnce'
  <2>1. \A a \in wire'.answered : Moving(a.rpc) =>
           \/ a \in wire.answered
           \/ /\ a.rpc \in wire.pending /\ a.rpc \notin wire'.pending
              /\ \A b \in wire'.answered : b.rpc = a.rpc => b = a \/ b \in wire.answered
    BY <1>2, <1>3
  <2>2. QED
    BY <1>2, <2>1, ExecutionsKept DEF Moved, Relay
<1>7. QED
  BY <1>2, <1>5, <1>6

LEMMA DeliveryUnheardInv == ASSUME Inv, DeliveryUnheard PROVE Inv'
<1> USE DEF Inv
<1>1. /\ deliveries' \subseteq deliveries
      /\ UNCHANGED <<linkVars, novaVars, attached, attaching, calls, wire, pluginVars, bounds>>
  BY DEF DeliveryUnheard
<1>2. Link' /\ Nova' /\ PluginTypes'
  BY <1>1, LinkKept, NovaKept, PluginsKept DEF Link, LinkTypes, Nova, NovaTypes, novaVars
<1>3. Relay' /\ Moved'
  BY <1>1, WireKept DEF novaVars, pluginVars, linkVars
<1>4. QED
  BY <1>2, <1>3

LEMMA RefuseDeliveryInv == ASSUME Inv, RefuseDelivery PROVE Inv'
<1> USE DEF Inv
<1>1. PICK r \in deliveries : deliveries' = deliveries \ {r} /\ wire' = Respond(wire, r, "refused", 0)
  BY DEF RefuseDelivery, Handled
<1>2. UNCHANGED <<linkVars, novaVars, attached, attaching, calls, pluginVars, bounds>>
  BY DEF RefuseDelivery
<1>3. "refused" \in AnswerKinds /\ work' = work /\ runs' = runs
  BY <1>2 DEF AnswerKinds, pluginVars, novaVars
<1>4. Relay' /\ ExecutionsMoveOnce' /\ wire'.up = wire.up
  BY <1>1, <1>2, <1>3, Answered DEF novaVars
<1>5. Link' /\ Nova' /\ PluginTypes'
  BY <1>2, <1>4, LinkKept, NovaKept, PluginsKept DEF Link, LinkTypes, Nova, NovaTypes, novaVars
<1>6. QED
  BY <1>3, <1>4, <1>5, OutcomesKept DEF Moved

LEMMA HandleHelloInv == ASSUME Inv, HandleHello PROVE Inv'
<1> USE DEF Inv
<1>1. PICK r \in deliveries :
        /\ deliveries' = deliveries \ {r}
        /\ wire' = Respond(wire, r, IF Connected THEN "busy" ELSE "welcome", 0)
  BY DEF HandleHello, Handled
<1>2. /\ phase' = IF ~Connected /\ phase = "listening" THEN "connecting" ELSE phase
      /\ UNCHANGED <<linkVars, listening, token, sessions, offer, tries, offers, runs, attached,
                     attaching, calls, pluginVars, bounds>>
  BY DEF HandleHello
<1>3. /\ (IF Connected THEN "busy" ELSE "welcome") \in AnswerKinds /\ work' = work
      /\ phase' \in Phases
  BY <1>2 DEF AnswerKinds, pluginVars, Phases, Link, LinkTypes
<1>4. Relay' /\ ExecutionsMoveOnce' /\ wire'.up = wire.up
  BY <1>1, <1>2, <1>3, Answered
<1>5. Link' /\ Nova' /\ PluginTypes'
  BY <1>2, <1>3, <1>4, LinkKept, NovaKept, PluginsKept DEF Nova, NovaTypes
<1>6. QED
  BY <1>2, <1>3, <1>4, <1>5, OutcomesKept DEF Moved

(* A session opens only where there was none, on a relay that is up.       *)
LEMMA PairSucceedsInv ==
  ASSUME Inv, NEW r \in deliveries, r.kind = "pair_request", PairSucceeds(r),
         deliveries' = deliveries \ {r},
         UNCHANGED <<linkVars, listening, offers, runs, attached, attaching, calls, pluginVars, bounds>>
  PROVE  Inv'
<1> USE DEF Inv
<1>1. /\ token = 0 /\ r.code = offer /\ offer # 0 /\ offer' = 0 /\ tries' = 0
      /\ sessions' = sessions + 1 /\ token' = sessions + 1 /\ phase' = "connected"
      /\ wire' = Respond(SetToken(ClearQueue(wire), token'), r, "paired", token')
  BY DEF PairSucceeds, Connected
<1>2. wire.up
  BY <1>1 DEF Relay, HandshakesAreNovas, Handshake
<1>3. /\ sessions \in Nat /\ token' \in Nat /\ token' # 0 /\ r \in Requests /\ wire \in Wires
      /\ "paired" \in AnswerKinds
  BY <1>1 DEF Nova, NovaTypes, Relay, RelayTypes, AnswerKinds
<1>4. PICK v : v = ClearQueue(wire)
  OBVIOUS
<1>5. /\ v \in Wires /\ v.queue = <<>> /\ v.up = wire.up
      /\ v.pending = wire.pending /\ v.answered = wire.answered /\ v.mail = wire.mail
  BY <1>3, <1>4, ClearQueueFacts
<1>a. PICK t \in Nat : t = token'
  BY <1>3
<1>6. PICK w : w = SetToken(v, t)
  OBVIOUS
<1>7. /\ w \in Wires /\ w.queue = <<>> /\ w.up /\ w.token = t
      /\ w.pending = wire.pending /\ w.answered = wire.answered /\ w.mail = wire.mail
  BY <1>2, <1>5, <1>6 DEF SetToken, Wires
<1>8. wire' = Respond(w, r, "paired", t)
  BY <1>1, <1>4, <1>6, <1>a
<1>9. /\ wire' \in Wires /\ wire'.up /\ wire'.token = token' /\ wire'.queue = <<>>
      /\ wire'.mail = wire.mail /\ wire'.pending = wire.pending \ {r}
      /\ wire'.answered = IF r \in wire.pending THEN wire.answered \cup {Reply(r, "paired", t)}
                                                ELSE wire.answered
      /\ Reply(r, "paired", t).rpc = r /\ Reply(r, "paired", t).session = token'
  <2>1. /\ wire' \in Wires /\ wire'.up = w.up /\ wire'.token = w.token /\ wire'.queue = w.queue
        /\ wire'.mail = w.mail /\ wire'.pending = w.pending \ {r}
        /\ wire'.answered = IF r \in w.pending THEN w.answered \cup {Reply(r, "paired", t)}
                                               ELSE w.answered
        /\ Reply(r, "paired", t).rpc = r /\ Reply(r, "paired", t).session = t
    <3>1. w \in Wires /\ r \in Requests /\ t \in Nat /\ "paired" \in AnswerKinds
      BY <1>3, <1>7
    <3>2. Reply(r, "paired", t) \in Answers /\ Reply(r, "paired", t).rpc = r
          /\ Reply(r, "paired", t).session = t
      BY <3>1 DEF Reply, Answers
    <3>3. CASE r \in w.pending
      BY <1>8, <3>1, <3>2, <3>3 DEF Respond, Wires
    <3>4. CASE r \notin w.pending
      BY <1>8, <3>1, <3>2, <3>4 DEF Respond
    <3>5. QED
      BY <3>3, <3>4
  <2>2. QED
    BY <1>7, <1>a, <2>1
<1>10. Link'
  BY <1>1, <1>2, <1>9, LinkKept DEF Phases
<1>11. Nova'
  <2>1. runs \in Seq([state : Live \cup Outcomes, session : 1 .. sessions'])
    <3>1. runs \in Seq([state : Live \cup Outcomes, session : 1 .. sessions])
      BY DEF Nova, NovaTypes
    <3>2. [state : Live \cup Outcomes, session : 1 .. sessions]
            \subseteq [state : Live \cup Outcomes, session : 1 .. sessions']
      BY <1>1, <1>3
    <3>3. \A S, T : S \subseteq T => Seq(S) \subseteq Seq(T)
      OBVIOUS
    <3>4. QED
      BY <3>1, <3>2, <3>3
  <2>2. NovaTypes'
    BY <1>1, <1>3, <2>1 DEF Nova, NovaTypes
  <2>3. LiveRuns = {}
    <3>1. SUFFICES ASSUME NEW e \in LiveRuns PROVE FALSE
      OBVIOUS
    <3>2. e \in DOMAIN runs /\ runs[e].session = 0
      BY <1>1 DEF Nova, LiveRunsHaveASession, LiveRuns
    <3> DEFINE R == [state : Live \cup Outcomes, session : 1 .. sessions]
    <3>3. runs \in Seq(R)
      BY DEF Nova, NovaTypes
    <3>4. runs[e] \in R
      <4> HIDE DEF R
      <4>1. QED
        BY <3>2, <3>3
    <3>5. QED
      BY <3>2, <3>4
  <2>4. QED
    BY <2>2, <2>3 DEF Nova, LiveRunsHaveASession, LiveRuns
<1>12. PluginTypes'
  BY <1>1, <1>3, PluginsKept
<1>13. Relay'
  <2>1. RelayTypes' /\ QueueIsTheSessions' /\ TokenIsTheSessions'
    BY <1>9 DEF Relay, RelayTypes, QueueIsTheSessions, TokenIsTheSessions
  <2>2. \A a \in wire'.answered : a.rpc.code <= offers' /\ a.session <= sessions'
    <3>1. \A a \in wire.answered : a.session \in Nat /\ a.session <= sessions /\ a.rpc.code <= offers
      BY AnswerFields, WireFields DEF Relay, RelayTypes, HandshakesAreNovas
    <3>2. r.code <= offers
      BY DEF Relay, HandshakesAreNovas
    <3>3. \A a \in wire'.answered : \/ a \in wire.answered
                                    \/ a.rpc = r /\ a.session = token'
      BY <1>9
    <3>4. QED
      BY <1>1, <1>3, <3>1, <3>2, <3>3
  <2>3. HandshakesAreNovas'
    BY <1>1, <1>9, <2>2 DEF Relay, HandshakesAreNovas
  <2>4. QED
    BY <2>1, <2>3 DEF Relay
<1>14. Moved'
  <2>1. work' = work
    BY DEF pluginVars
  <2>2. \A a \in wire'.answered : Moving(a.rpc) => a \in wire.answered
    BY <1>9 DEF Moving
  <2>3. ExecutionsMoveOnce'
    BY <1>9, <2>1, <2>2, ExecutionsKept DEF Moved, Relay
  <2>4. QED
    BY <2>1, <2>3, OutcomesKept DEF Moved
<1>15. QED
  BY <1>10, <1>11, <1>12, <1>13, <1>14

LEMMA HandlePairRequestInv == ASSUME Inv, HandlePairRequest PROVE Inv'
<1> USE DEF Inv
<1>1. PICK r \in deliveries :
        /\ r.kind = "pair_request" /\ deliveries' = deliveries \ {r}
        /\ PairFails(r) \/ PairIsBusy(r) \/ PairSucceeds(r)
  BY DEF HandlePairRequest, Handled
<1>2. UNCHANGED <<linkVars, listening, offers, runs, attached, attaching, calls, pluginVars, bounds>>
  BY DEF HandlePairRequest
<1>3. "refused" \in AnswerKinds /\ work' = work
  BY <1>2 DEF AnswerKinds, pluginVars
<1>4. CASE PairFails(r) \/ PairIsBusy(r)
  <2>1. /\ wire' = Respond(wire, r, "refused", 0) /\ UNCHANGED <<token, sessions>>
        /\ offer' \in {0, offer} /\ phase' \in Phases /\ tries' \in 0 .. (MaxTries - 1)
        /\ phase' = "stopped" => phase = "stopped"
    BY <1>4 DEF PairFails, PairIsBusy, TriesLeft, Phases, Link, LinkTypes, Nova, NovaTypes
  <2>2. Relay' /\ ExecutionsMoveOnce' /\ wire'.up = wire.up
    BY <1>1, <1>2, <1>3, <2>1, Answered
  <2>3. Link' /\ PluginTypes'
    BY <1>2, <2>1, <2>2, LinkKept, PluginsKept DEF Nova, NovaTypes
  <2>4. Nova'
    BY <1>2, <2>1 DEF Nova, NovaTypes, LiveRunsHaveASession, LiveRuns
  <2>5. QED
    BY <1>2, <1>3, <2>2, <2>3, <2>4, OutcomesKept DEF Moved
<1>5. CASE PairSucceeds(r)
  BY <1>1, <1>2, <1>5, PairSucceedsInv
<1>6. QED
  BY <1>1, <1>4, <1>5

(* A success that Nova records is a script that was written.               *)
LEMMA HandleReportInv == ASSUME Inv, HandleReport PROVE Inv'
<1> USE DEF Inv
<1>1. PICK r \in deliveries :
        /\ r.kind \in {"running", "success", "failed"} /\ deliveries' = deliveries \ {r}
        /\ wire' = Respond(wire, r, "ok", 0) /\ runs' = WithExecution(r)
  BY DEF HandleReport, Handled
<1>2. UNCHANGED <<linkVars, phase, listening, token, sessions, offer, tries, offers, attached,
                  attaching, calls, pluginVars, bounds>>
  BY DEF HandleReport
<1> DEFINE R == [state : Live \cup Outcomes, session : 1 .. sessions]
<1>3. runs \in Seq(R) /\ DOMAIN runs = 1 .. Len(runs) /\ Len(runs) \in Nat
  BY DEF Nova, NovaTypes
<1>4. /\ runs' \in Seq(R) /\ Len(runs') = Len(runs) /\ DOMAIN runs' = DOMAIN runs
      /\ \A e \in DOMAIN runs :
           \/ runs'[e] = runs[e]
           \/ e = r.run /\ e \in LiveRuns /\ runs'[e].state = r.kind /\ runs'[e].session = runs[e].session
  <2>1. CASE r.run \in LiveRuns
    <3>1. r.run \in DOMAIN runs /\ runs' = [runs EXCEPT ![r.run] = [runs[r.run] EXCEPT !.state = r.kind]]
      BY <1>1, <2>1 DEF WithExecution, LiveRuns
    <3>2. runs[r.run] \in R
      <4> HIDE DEF R
      <4>1. QED
        BY <1>3, <3>1
    <3>3. PICK x : x = [runs[r.run] EXCEPT !.state = r.kind]
      OBVIOUS
    <3>4. x \in R /\ x.state = r.kind /\ x.session = runs[r.run].session
      BY <1>1, <3>2, <3>3 DEF Live, Outcomes
    <3>5. runs' = [runs EXCEPT ![r.run] = x]
      BY <3>1, <3>3
    <3> HIDE DEF R
    <3>6. QED
      BY <1>3, <2>1, <3>1, <3>4, <3>5
  <2>2. CASE r.run \notin LiveRuns
    BY <1>1, <1>3, <2>2 DEF WithExecution
  <2>3. QED
    BY <2>1, <2>2
<1>5. "ok" \in AnswerKinds /\ work' = work
  BY <1>2 DEF AnswerKinds, pluginVars
<1>6. Relay' /\ ExecutionsMoveOnce' /\ wire'.up = wire.up
  BY <1>1, <1>2, <1>4, <1>5, Answered
<1>7. Link' /\ PluginTypes'
  BY <1>2, <1>6, LinkKept, PluginsKept DEF Nova, NovaTypes, Link, LinkTypes
<1>8. Nova'
  <2>1. NovaTypes'
    BY <1>2, <1>4 DEF Nova, NovaTypes
  <2>2. \A e \in DOMAIN runs' : runs'[e].state \in Live => runs'[e].session = token
    BY <1>4 DEF Nova, LiveRunsHaveASession, LiveRuns
  <2>3. QED
    BY <1>2, <2>1, <2>2 DEF Nova, LiveRunsHaveASession, LiveRuns
<1>9. OutcomesAreTrue'
  <2>1. r.kind = "success" => work[r.run] = "written"
    BY DEF Moved, ExecutionsMoveOnce
  <2>2. QED
    BY <1>4, <1>5, <2>1 DEF Moved, OutcomesAreTrue
<1>10. QED
  BY <1>6, <1>7, <1>8, <1>9 DEF Moved

LEMMA HandleDisconnectInv == ASSUME Inv, HandleDisconnect PROVE Inv'
<1> USE DEF Inv
<1>1. PICK r \in deliveries :
        deliveries' = deliveries \ {r} /\ Teardown(Respond(wire, r, "ok", 0), "listening")
  BY DEF HandleDisconnect, Handled
<1>2. UNCHANGED <<linkVars, listening, sessions, offers, attached, attaching, calls, pluginVars, bounds>>
  BY DEF HandleDisconnect
<1>3. r \in Requests /\ wire \in Wires /\ "ok" \in AnswerKinds /\ 0 \in Nat
  BY DEF Relay, RelayTypes, AnswerKinds
<1>4. PICK w : w = Respond(wire, r, "ok", 0)
  OBVIOUS
<1>5. /\ w \in Wires /\ w.up = wire.up /\ w.queue = wire.queue
      /\ w.mail = wire.mail /\ w.pending = wire.pending \ {r}
      /\ w.answered = IF r \in wire.pending THEN wire.answered \cup {Reply(r, "ok", 0)}
                                            ELSE wire.answered
      /\ Reply(r, "ok", 0).rpc = r /\ Reply(r, "ok", 0).session = 0
  BY <1>3, <1>4, RespondFacts
<1>6. \A a \in w.answered :
        \/ a \in wire.answered
        \/ /\ a.rpc \in wire.pending /\ a.rpc \notin w.pending /\ a.session = 0
           /\ \A b \in w.answered : b.rpc = a.rpc => b = a \/ b \in wire.answered
  BY <1>5
<1>7. /\ "listening" \in Phases /\ connects' = connects /\ faults' \in Nat /\ Teardown(w, "listening")
  BY <1>1, <1>2, <1>4 DEF Phases, bounds, PluginTypes
<1>8. QED
  BY <1>1, <1>2, <1>5, <1>6, <1>7, SessionEnded

-----------------------------------------------------------------------------
(* The relay's timers and the plugins.                                     *)

LEMMA HeardFacts ==
  ASSUME wire \in Wires, NEW a, NEW v, v = Heard(a)
  PROVE  /\ v \in Wires /\ v.up = wire.up /\ v.token = wire.token /\ v.queue = wire.queue
         /\ v.parked = wire.parked /\ v.pending = wire.pending /\ v.answered = wire.answered \ {a}
         /\ v.mail = wire.mail
  BY DEF Heard, Wires

\* The wire without the message for p.
Emptied(w, p) == [w EXCEPT !.mail[p] = NoMail]

LEMMA MailTaken ==
  ASSUME NEW w \in Wires, NEW p \in Studios, NEW v, v = Emptied(w, p)
  PROVE  /\ v \in Wires /\ v.up = w.up /\ v.token = w.token /\ v.queue = w.queue
         /\ v.parked = w.parked /\ v.pending = w.pending /\ v.answered = w.answered
         /\ v.mail[p].run = 0 /\ \A o \in Studios : o # p => v.mail[o] = w.mail[o]
<1> DEFINE mail == [w.mail EXCEPT ![p] = NoMail]
<1>1. mail \in [Studios -> Messages] /\ mail[p] = NoMail /\ \A o \in Studios : o # p => mail[o] = w.mail[o]
  BY WireFields, MessageTypes
<1>2. v = [w EXCEPT !.mail = mail]
  BY DEF Wires, Emptied
<1> HIDE DEF mail
<1>3. /\ v \in Wires /\ v.mail = mail /\ v.up = w.up /\ v.token = w.token /\ v.queue = w.queue
      /\ v.parked = w.parked /\ v.pending = w.pending /\ v.answered = w.answered
  BY <1>1, <1>2 DEF Wires
<1>4. QED
  BY <1>1, <1>3, MessageTypes

(* The wire carries less than it did.                                      *)
LEMMA Less ==
  ASSUME Inv, UNCHANGED <<linkVars, novaVars, work>>, wire' \in Wires, wire'.up = wire.up,
         wire'.token = wire.token, wire'.queue = wire.queue, wire'.pending \subseteq wire.pending,
         wire'.answered \subseteq wire.answered, deliveries' \subseteq deliveries,
         \A p \in Studios : wire'.mail[p] = wire.mail[p] \/ wire'.mail[p].run = 0
  PROVE  Relay' /\ Moved'
<1> USE DEF Inv, novaVars, linkVars
<1>1. Relay'
  BY RelayKept
<1>2. ExecutionsMoveOnce'
  BY ExecutionsKept DEF Moved, Relay
<1>3. QED
  BY <1>1, <1>2, OutcomesKept DEF Moved

(* A request that carries no execution is sent.                            *)
LEMMA Sent ==
  ASSUME Inv, UNCHANGED <<linkVars, novaVars, work>>, NEW w \in Wires, NEW r \in Requests,
         w.up = wire.up, w.token = wire.token, w.queue = wire.queue, w.pending = wire.pending,
         w.answered \subseteq wire.answered, Send(w, r), r.code <= offers, r.kind \notin {"running", "success"},
         \A p \in Studios : w.mail[p] = wire.mail[p] \/ w.mail[p].run = 0
  PROVE  Relay' /\ Moved' /\ wire'.up = wire.up
<1> USE DEF Inv, novaVars, linkVars
<1>1. /\ wire' \in Wires /\ wire'.up = w.up /\ wire'.token = w.token /\ wire'.queue = w.queue
      /\ wire'.mail = w.mail
      /\ w.up => /\ wire'.pending = w.pending \cup {r} /\ wire'.answered = w.answered
                 /\ deliveries' = deliveries \cup {r}
      /\ ~w.up => /\ wire'.pending = w.pending
                  /\ wire'.answered = w.answered \cup {Reply(r, "failed", 0)}
                  /\ deliveries' = deliveries
      /\ Reply(r, "failed", 0).rpc = r /\ Reply(r, "failed", 0).session = 0
      /\ deliveries' \subseteq Requests
  BY SendFacts DEF Relay, RelayTypes
<1>2. RelayTypes' /\ QueueIsTheSessions' /\ TokenIsTheSessions'
  BY <1>1 DEF Relay, RelayTypes, QueueIsTheSessions, TokenIsTheSessions, Connected
<1>3. HandshakesAreNovas'
  <2>1. \A a \in wire'.answered : a.rpc.code <= offers /\ a.session <= sessions
    BY <1>1 DEF Relay, HandshakesAreNovas, Nova, NovaTypes
  <2>2. QED
    BY <1>1, <2>1 DEF Relay, HandshakesAreNovas, Connected
<1>4. /\ \A q \in wire'.pending : Moving(q) => q \in wire.pending
      /\ \A a \in wire'.answered : Moving(a.rpc) => a \in wire.answered
      /\ \A q \in deliveries' : q.kind = "success" => q \in deliveries
  BY <1>1 DEF Moving
<1>5. ExecutionsMoveOnce'
  BY <1>1, <1>4, ExecutionsKept DEF Moved, Relay
<1>6. QED
  BY <1>1, <1>2, <1>3, <1>5, OutcomesKept DEF Relay, Moved

LEMMA RpcTimesOutInv == ASSUME Inv, RpcTimesOut PROVE Inv'
<1> USE DEF Inv
<1>1. PICK r \in wire.pending : wire' = Respond(wire, r, "failed", 0)
  BY DEF RpcTimesOut
<1>2. /\ UNCHANGED <<linkVars, novaVars, attached, attaching, calls, deliveries, pluginVars, connects>>
      /\ faults' \in {faults, faults + 1}
  BY DEF RpcTimesOut
<1>3. "failed" \in AnswerKinds /\ work' = work /\ runs' = runs
  BY <1>2 DEF AnswerKinds, pluginVars, novaVars
<1>4. Relay' /\ ExecutionsMoveOnce' /\ wire'.up = wire.up
  BY <1>1, <1>2, <1>3, Answered DEF novaVars
<1>5. PluginTypes'
  BY <1>2 DEF PluginTypes, pluginVars, novaVars, Runs
<1>6. Link' /\ Nova'
  BY <1>2, <1>4, LinkKept, NovaKept DEF Link, LinkTypes, Nova, NovaTypes, novaVars
<1>7. QED
  BY <1>3, <1>4, <1>5, <1>6, OutcomesKept DEF Moved

LEMMA PollExpiresInv == ASSUME Inv, NEW q \in wire.parked, PollExpires(q) PROVE Inv'
<1> USE DEF Inv
<1>1. /\ wire' = [wire EXCEPT !.parked = wire.parked \ {q}]
      /\ UNCHANGED <<linkVars, novaVars, attached, attaching, calls, deliveries, pluginVars, bounds>>
  BY DEF PollExpires, Relay, RelayTypes, Wires
<1>2. /\ wire' \in Wires /\ wire'.up = wire.up /\ wire'.token = wire.token /\ wire'.queue = wire.queue
      /\ wire'.pending = wire.pending /\ wire'.answered = wire.answered /\ wire'.mail = wire.mail
  BY <1>1 DEF Relay, RelayTypes, Wires
<1>3. Relay' /\ Moved'
  BY <1>1, <1>2, Less DEF pluginVars
<1>4. Link' /\ Nova' /\ PluginTypes'
  BY <1>1, <1>2, LinkKept, NovaKept, PluginsKept DEF Link, LinkTypes, Nova, NovaTypes, novaVars
<1>5. QED
  BY <1>3, <1>4

(* A plugin's step changes nothing of Nova's but the wire.                 *)
LEMMA NovaUntouched ==
  ASSUME Inv, UNCHANGED <<linkVars, novaVars, attached, attaching, calls>>, wire'.up = wire.up
  PROVE  Link' /\ Nova'
  BY LinkKept, NovaKept DEF Inv, Link, LinkTypes, novaVars

LEMMA EndSessionFacts ==
  ASSUME Inv, NEW p \in Studios, NEW w \in Wires, EndSession(p, w)
  PROVE  /\ wire' \in Wires /\ wire'.up = w.up /\ wire'.token = w.token /\ wire'.queue = w.queue
         /\ wire'.pending = w.pending /\ wire'.answered = w.answered
         /\ \A o \in Studios : wire'.mail[o] = w.mail[o] \/ wire'.mail[o].run = 0
         /\ studio' \in [Studios -> {"disconnected", "connecting", "connected"}]
         /\ key' \in [Studios -> 0 .. sessions] /\ generation' \in [Studios -> 0 .. connects]
<1>1. /\ studio' = [studio EXCEPT ![p] = "disconnected"] /\ key' = [key EXCEPT ![p] = 0]
      /\ generation' = [generation EXCEPT ![p] = 0] /\ wire' = Emptied(w, p)
  BY DEF EndSession, Emptied
<1>2. sessions \in Nat /\ connects \in Nat
  BY DEF Inv, Nova, NovaTypes, PluginTypes
<1>3. /\ studio' \in [Studios -> {"disconnected", "connecting", "connected"}]
      /\ key' \in [Studios -> 0 .. sessions] /\ generation' \in [Studios -> 0 .. connects]
  BY <1>1, <1>2 DEF Inv, PluginTypes
<1>4. /\ wire' \in Wires /\ wire'.up = w.up /\ wire'.token = w.token /\ wire'.queue = w.queue
      /\ wire'.pending = w.pending /\ wire'.answered = w.answered
      /\ wire'.mail[p].run = 0 /\ \A o \in Studios : o # p => wire'.mail[o] = w.mail[o]
  BY <1>1, MailTaken
<1>5. QED
  BY <1>3, <1>4

(* The end of a plugin's session, given a wire that carries no more than it did. *)
LEMMA SessionForgotten ==
  ASSUME Inv, NEW p \in Studios, NEW w \in Wires, EndSession(p, w), w.up = wire.up,
         w.token = wire.token, w.queue = wire.queue, w.pending \subseteq wire.pending,
         w.answered \subseteq wire.answered, w.mail = wire.mail,
         UNCHANGED <<linkVars, novaVars, attached, attaching, calls, deliveries, work, connects>>,
         leaving' \in [Studios -> BOOLEAN], faults' \in Nat
  PROVE  Inv'
<1> USE DEF Inv
<1>1. /\ wire' \in Wires /\ wire'.up = w.up /\ wire'.token = w.token /\ wire'.queue = w.queue
      /\ wire'.pending = w.pending /\ wire'.answered = w.answered
      /\ \A o \in Studios : wire'.mail[o] = w.mail[o] \/ wire'.mail[o].run = 0
      /\ studio' \in [Studios -> {"disconnected", "connecting", "connected"}]
      /\ key' \in [Studios -> 0 .. sessions] /\ generation' \in [Studios -> 0 .. connects]
  BY EndSessionFacts
<1>2. Link' /\ Nova'
  BY <1>1, NovaUntouched
<1>3. Relay' /\ Moved'
  BY <1>1, Less
<1>4. PluginTypes'
  BY <1>1 DEF PluginTypes, novaVars, Runs
<1>5. QED
  BY <1>2, <1>3, <1>4

LEMMA ConnectInv == ASSUME Inv, NEW p \in Studios, Connect(p) PROVE Inv'
<1> USE DEF Inv
<1>1. /\ connects' = connects + 1 /\ studio' = [studio EXCEPT ![p] = "connecting"]
      /\ generation' = [generation EXCEPT ![p] = connects']
      /\ UNCHANGED <<linkVars, novaVars, attached, attaching, calls, key, leaving, work, faults>>
  BY DEF Connect
<1>2. PICK code \in {0, offer} : Send(Emptied(wire, p), Greeting(p, connects', code))
  BY DEF Connect, Emptied
<1>3. PICK w : w = Emptied(wire, p)
  OBVIOUS
<1>4. /\ w \in Wires /\ w.up = wire.up /\ w.token = wire.token /\ w.queue = wire.queue
      /\ w.pending = wire.pending /\ w.answered = wire.answered
      /\ w.mail[p].run = 0 /\ \A o \in Studios : o # p => w.mail[o] = wire.mail[o]
  BY <1>3, MailTaken DEF Relay, RelayTypes
<1>5. PICK r : r = Greeting(p, connects', code)
  OBVIOUS
<1>6. r \in Requests /\ r.code <= offers /\ r.kind = "hello"
  <2>1. connects' \in Nat /\ code \in Nat /\ code <= offers
    BY <1>1, <1>2 DEF PluginTypes, Nova, NovaTypes
  <2>2. QED
    BY <1>5, <2>1 DEF Greeting, Requests, Handshake, Reports
<1>7. Send(w, r)
  BY <1>2, <1>3, <1>5
<1>8. Relay' /\ Moved' /\ wire'.up = wire.up
  BY <1>1, <1>4, <1>6, <1>7, Sent
<1>9. Link' /\ Nova'
  BY <1>1, <1>8, NovaUntouched
<1>10. PluginTypes'
  BY <1>1 DEF PluginTypes, novaVars, Runs
<1>11. QED
  BY <1>8, <1>9, <1>10

LEMMA HelloAnsweredInv == ASSUME Inv, NEW p \in Studios, HelloAnswered(p) PROVE Inv'
<1> USE DEF Inv
<1>1. PICK a \in AnswersTo(p, {"hello"}) :
       IF a.what = "welcome"
       THEN /\ Send(Heard(a), [a.rpc EXCEPT !.kind = "pair_request"])
            /\ UNCHANGED studio
       ELSE /\ studio' = [studio EXCEPT ![p] = "disconnected"]
            /\ wire' = Heard(a) /\ UNCHANGED deliveries
  BY DEF HelloAnswered
<1>2. UNCHANGED <<linkVars, novaVars, attached, attaching, calls, key, generation, leaving, work, bounds>>
  BY DEF HelloAnswered
<1>3. a \in wire.answered /\ a \in Answers /\ a.rpc \in Requests /\ a.rpc.code <= offers
  <2>1. a \in wire.answered /\ wire.answered \subseteq Answers
    BY WireFields DEF AnswersTo, Relay, RelayTypes
  <2>2. QED
    BY <2>1, AnswerFields DEF Relay, HandshakesAreNovas
<1>4. PICK w : w = Heard(a)
  OBVIOUS
<1>5. /\ w \in Wires /\ w.up = wire.up /\ w.token = wire.token /\ w.queue = wire.queue
      /\ w.pending = wire.pending /\ w.answered = wire.answered \ {a} /\ w.mail = wire.mail
  BY <1>4, HeardFacts DEF Relay, RelayTypes
<1>6. Relay' /\ Moved' /\ wire'.up = wire.up /\ studio' \in [Studios -> {"disconnected", "connecting", "connected"}]
  <2>1. CASE a.what = "welcome"
    <3>1. PICK r : r = [a.rpc EXCEPT !.kind = "pair_request"]
      OBVIOUS
    <3>2. r \in Requests /\ r.code <= offers /\ r.kind = "pair_request"
      BY <1>3, <3>1 DEF Requests, Handshake, Reports
    <3>3. Send(w, r)
      BY <1>1, <1>4, <2>1, <3>1
    <3>4. Relay' /\ Moved' /\ wire'.up = wire.up
      BY <1>2, <1>5, <3>2, <3>3, Sent
    <3>5. QED
      BY <1>1, <2>1, <3>4 DEF PluginTypes
  <2>2. CASE a.what # "welcome"
    <3>1. wire' = w /\ deliveries' = deliveries /\ studio' = [studio EXCEPT ![p] = "disconnected"]
      BY <1>1, <1>4, <2>2
    <3>2. Relay' /\ Moved'
      BY <1>2, <1>5, <3>1, Less
    <3>3. QED
      BY <1>5, <3>1, <3>2 DEF PluginTypes
  <2>3. QED
    BY <2>1, <2>2
<1>7. Link' /\ Nova'
  BY <1>2, <1>6, NovaUntouched
<1>8. PluginTypes'
  BY <1>2, <1>6 DEF PluginTypes, novaVars, bounds, Runs
<1>9. QED
  BY <1>6, <1>7, <1>8

LEMMA PairAnsweredInv == ASSUME Inv, NEW p \in Studios, PairAnswered(p) PROVE Inv'
<1> USE DEF Inv
<1>1. PICK a \in AnswersTo(p, {"pair_request"}) :
       /\ wire' = Heard(a)
       /\ IF generation[p] # a.rpc.gen THEN UNCHANGED <<studio, key>>
          ELSE IF a.what = "paired"
          THEN studio' = [studio EXCEPT ![p] = "connected"] /\ key' = [key EXCEPT ![p] = a.session]
          ELSE studio' = [studio EXCEPT ![p] = "disconnected"] /\ UNCHANGED key
  BY DEF PairAnswered
<1>2. UNCHANGED <<linkVars, novaVars, attached, attaching, calls, deliveries, generation, leaving, work, bounds>>
  BY DEF PairAnswered
<1>3. a \in wire.answered /\ a.session \in Nat /\ a.session <= sessions /\ sessions \in Nat
  <2>1. a \in wire.answered /\ wire.answered \subseteq Answers
    BY WireFields DEF AnswersTo, Relay, RelayTypes
  <2>2. QED
    BY <2>1, AnswerFields DEF Relay, HandshakesAreNovas, Nova, NovaTypes
<1>4. /\ wire' \in Wires /\ wire'.up = wire.up /\ wire'.token = wire.token /\ wire'.queue = wire.queue
      /\ wire'.pending = wire.pending /\ wire'.answered = wire.answered \ {a} /\ wire'.mail = wire.mail
  BY <1>1, HeardFacts DEF Relay, RelayTypes
<1>5. Relay' /\ Moved'
  BY <1>2, <1>4, Less
<1>6. Link' /\ Nova'
  BY <1>2, <1>4, NovaUntouched
<1>7. studio' \in [Studios -> {"disconnected", "connecting", "connected"}] /\ key' \in [Studios -> 0 .. sessions]
  BY <1>1, <1>3 DEF PluginTypes
<1>8. PluginTypes'
  BY <1>2, <1>7 DEF PluginTypes, novaVars, bounds, Runs
<1>9. QED
  BY <1>5, <1>6, <1>8

(* The end of a plugin's session, of which nothing else is asked.          *)
LEMMA EndedInv ==
  ASSUME Inv, NEW p \in Studios, EndSession(p, wire),
         UNCHANGED <<linkVars, novaVars, attached, attaching, calls, deliveries, leaving, work, bounds>>
  PROVE  Inv'
<1>1. /\ wire \in Wires /\ leaving' \in [Studios -> BOOLEAN] /\ faults' \in Nat
      /\ work' = work /\ connects' = connects
  BY DEF Inv, Relay, RelayTypes, PluginTypes, bounds
<1>2. QED
  BY <1>1, SessionForgotten

\* What the poll of a session that is admitted is answered with, or left waiting.
Polled(p) ==
  wire' = IF wire.queue # <<>>
          THEN [wire EXCEPT !.queue = Tail(@), !.mail[p] = Head(wire.queue)]
          ELSE [wire EXCEPT !.parked = @ \cup {[client |-> p, token |-> key[p], gen |-> generation[p]]}]

(* A poll takes the first message of the queue, if there is one.           *)
LEMMA PolledInv ==
  ASSUME Inv, NEW p \in Studios, Polled(p),
         UNCHANGED <<linkVars, novaVars, attached, attaching, calls, deliveries, pluginVars, bounds>>
  PROVE  Inv'
<1> USE DEF Inv
<1>1. wire \in Wires /\ key[p] \in Nat /\ generation[p] \in Nat
  BY DEF Relay, RelayTypes, PluginTypes, Nova, NovaTypes
<1>2. PluginTypes' /\ work' = work /\ runs' = runs
  BY PluginsKept DEF novaVars, pluginVars, Nova, NovaTypes
<1>3. CASE wire.queue = <<>>
  <2>1. PICK q : q = [client |-> p, token |-> key[p], gen |-> generation[p]]
    OBVIOUS
  <2>2. q \in [client: Studios, token: Nat, gen: Nat]
    BY <1>1, <2>1
  <2>3. wire' = [wire EXCEPT !.parked = wire.parked \cup {q}]
    BY <1>1, <1>3, <2>1 DEF Polled, Wires
  <2>4. /\ wire' \in Wires /\ wire'.up = wire.up /\ wire'.token = wire.token /\ wire'.queue = wire.queue
        /\ wire'.pending = wire.pending /\ wire'.answered = wire.answered /\ wire'.mail = wire.mail
    BY <1>1, <2>2, <2>3 DEF Wires
  <2>5. QED
    BY <1>2, <2>4, Less, NovaUntouched
<1>4. CASE wire.queue # <<>>
  <2> DEFINE m == Head(wire.queue)
             q == Tail(wire.queue)
             mail == [wire.mail EXCEPT ![p] = m]
  <2>1. /\ wire.queue \in Seq(Messages) /\ DOMAIN wire.queue = 1 .. Len(wire.queue) /\ Len(wire.queue) \in Nat
        /\ Len(wire.queue) # 0 /\ 1 \in DOMAIN wire.queue /\ m = wire.queue[1] /\ m \in Messages
        /\ q \in Seq(Messages) /\ DOMAIN q = 1 .. Len(wire.queue) - 1
        /\ \A i \in DOMAIN q : i + 1 \in DOMAIN wire.queue /\ i + 1 # 1 /\ q[i] = wire.queue[i + 1]
    <3>1. wire.queue \in Seq(Messages)
      BY <1>1, WireFields
    <3>2. QED
      BY <1>4, <3>1
  <2>2. /\ mail \in [Studios -> Messages] /\ mail[p] = m
        /\ \A o \in Studios : o # p => mail[o] = wire.mail[o]
    BY <1>1, <2>1, WireFields
  <2>3. wire' = [wire EXCEPT !.queue = q, !.mail = mail]
    BY <1>1, <1>4 DEF Polled, Wires
  <2> HIDE DEF m, q, mail
  <2>4. /\ wire' \in Wires /\ wire'.queue = q /\ wire'.mail = mail /\ wire'.up = wire.up
        /\ wire'.token = wire.token /\ wire'.pending = wire.pending /\ wire'.answered = wire.answered
    BY <1>1, <2>1, <2>2, <2>3 DEF Wires
  <2>5. Link' /\ Nova'
    BY <2>4, NovaUntouched
  <2>6. RelayTypes' /\ TokenIsTheSessions' /\ HandshakesAreNovas'
    BY <2>4 DEF Relay, RelayTypes, TokenIsTheSessions, HandshakesAreNovas, Connected, linkVars, novaVars
  <2>7. QueueIsTheSessions'
    BY <2>1, <2>4 DEF Relay, QueueIsTheSessions, Connected, novaVars
  <2>8. \A i \in DOMAIN q : q[i].run # 0 =>
          /\ work[q[i].run] = "none" /\ q[i].run \in DOMAIN runs /\ q[i].run # m.run
          /\ \A j \in DOMAIN q : q[j].run = q[i].run => i = j
          /\ \A o \in Studios : wire.mail[o].run # q[i].run
    <3>1. SUFFICES ASSUME NEW i \in DOMAIN q, q[i].run # 0
                   PROVE  /\ work[q[i].run] = "none" /\ q[i].run \in DOMAIN runs /\ q[i].run # m.run
                          /\ \A j \in DOMAIN q : q[j].run = q[i].run => i = j
                          /\ \A o \in Studios : wire.mail[o].run # q[i].run
      OBVIOUS
    <3>2. i + 1 \in DOMAIN wire.queue /\ i \in Nat /\ i + 1 # 1 /\ q[i] = wire.queue[i + 1]
      BY <2>1
    <3>3. /\ work[q[i].run] = "none" /\ q[i].run \in DOMAIN runs
          /\ \A j \in DOMAIN wire.queue : wire.queue[j].run = q[i].run => i + 1 = j
          /\ \A o \in Studios : wire.mail[o].run # q[i].run
      BY <3>1, <3>2 DEF Moved, ExecutionsMoveOnce
    <3>4. q[i].run # m.run
      BY <2>1, <3>2, <3>3
    <3>5. \A j \in DOMAIN q : q[j].run = q[i].run => i = j
      <4>1. SUFFICES ASSUME NEW j \in DOMAIN q, q[j].run = q[i].run PROVE i = j
        OBVIOUS
      <4>2. j + 1 \in DOMAIN wire.queue /\ j \in Nat /\ q[j] = wire.queue[j + 1]
        BY <2>1
      <4>3. i + 1 = j + 1
        BY <3>3, <4>1, <4>2
      <4>4. QED
        BY <3>2, <4>2, <4>3
    <3>6. QED
      BY <3>3, <3>4, <3>5
  <2>9. m.run # 0 => /\ work[m.run] = "none" /\ m.run \in DOMAIN runs
                     /\ \A o \in Studios : wire.mail[o].run # m.run
    BY <2>1 DEF Moved, ExecutionsMoveOnce
  <2>10. \A o \in Studios : mail[o] = wire.mail[o] \/ (o = p /\ mail[o] = m)
    BY <2>2
  <2>11. \A o \in Studios : mail[o].run # 0 =>
           /\ work[mail[o].run] = "none" /\ mail[o].run \in DOMAIN runs
           /\ \A s \in Studios : mail[s].run = mail[o].run => o = s
    BY <2>9, <2>10 DEF Moved, ExecutionsMoveOnce
  <2>12. \A i \in DOMAIN q : q[i].run # 0 => \A o \in Studios : mail[o].run # q[i].run
    BY <2>8, <2>10
  <2>13. ExecutionsMoveOnce'
    BY <1>2, <2>4, <2>8, <2>11, <2>12 DEF Moved, ExecutionsMoveOnce
  <2>14. QED
    BY <1>2, <2>5, <2>6, <2>7, <2>13, OutcomesKept DEF Relay, Moved
<1>5. QED
  BY <1>3, <1>4

LEMMA PollInv == ASSUME Inv, NEW p \in Studios, Poll(p) PROVE Inv'
<1>1. UNCHANGED <<linkVars, novaVars, attached, attaching, calls, deliveries, leaving, work, bounds>>
  BY DEF Poll
<1>2. CASE EndSession(p, wire)
  BY <1>1, <1>2, EndedInv
<1>3. CASE Polled(p) /\ UNCHANGED <<studio, key, generation>>
  <2>1. UNCHANGED pluginVars
    BY <1>1, <1>3 DEF pluginVars
  <2>2. QED
    BY <1>1, <1>3, <2>1, PolledInv
<1>4. QED
  BY <1>2, <1>3 DEF Poll, Polled

LEMMA LosesContactInv == ASSUME Inv, NEW p \in Studios, LosesContact(p) PROVE Inv'
  BY EndedInv DEF LosesContact

LEMMA ToldToEndInv == ASSUME Inv, NEW p \in Studios, ToldToEnd(p) PROVE Inv'
  BY EndedInv DEF ToldToEnd

(* An execution that a plugin takes is nowhere else, and was not begun.    *)
LEMMA ReceiveExecutionInv == ASSUME Inv, NEW p \in Studios, ReceiveExecution(p) PROVE Inv'
<1> USE DEF Inv
<1> DEFINE e == wire.mail[p].run
<1>1. /\ wire.mail[p].what = "execute_request" /\ work' = [work EXCEPT ![e] = "starting"]
      /\ Send(Emptied(wire, p), Rpc(p, "running", key[p], e))
      /\ UNCHANGED <<linkVars, novaVars, attached, attaching, calls, studio, key, generation, leaving, bounds>>
  BY DEF ReceiveExecution, Emptied
<1>2. wire \in Wires /\ wire.mail[p] \in Messages /\ e \in Runs /\ e # 0 /\ key[p] \in Nat
  <2>1. wire \in Wires /\ wire.mail \in [Studios -> Messages]
    BY WireFields DEF Relay, RelayTypes
  <2>2. wire.mail[p] \in Messages
    BY <2>1
  <2>3. QED
    BY <1>1, <2>1, <2>2 DEF Messages, Runs, PluginTypes, Nova, NovaTypes
<1> HIDE DEF e
<1>3. PICK w : w = Emptied(wire, p)
  OBVIOUS
<1>4. /\ w \in Wires /\ w.up = wire.up /\ w.token = wire.token /\ w.queue = wire.queue
      /\ w.pending = wire.pending /\ w.answered = wire.answered
      /\ w.mail[p].run = 0 /\ \A o \in Studios : o # p => w.mail[o] = wire.mail[o]
  BY <1>2, <1>3, MailTaken
<1>5. PICK r : r = Rpc(p, "running", key[p], e)
  OBVIOUS
<1>6. /\ r \in Requests /\ r.kind = "running" /\ r.run = e /\ r.code = 0 /\ r.kind \notin Handshake
  BY <1>2, <1>5 DEF Rpc, Requests, Reports, Handshake, Runs
<1>7. Send(w, r)
  BY <1>1, <1>3, <1>5
<1>8. /\ wire' \in Wires /\ wire'.up = wire.up /\ wire'.token = wire.token /\ wire'.queue = wire.queue
      /\ wire'.mail = w.mail
      /\ wire.up => /\ wire'.pending = wire.pending \cup {r} /\ wire'.answered = wire.answered
                    /\ deliveries' = deliveries \cup {r}
      /\ ~wire.up => /\ wire'.pending = wire.pending
                     /\ wire'.answered = wire.answered \cup {Reply(r, "failed", 0)}
                     /\ deliveries' = deliveries
      /\ Reply(r, "failed", 0).rpc = r /\ Reply(r, "failed", 0).session = 0
      /\ deliveries' \subseteq Requests
  BY <1>4, <1>6, <1>7, SendFacts DEF Relay, RelayTypes
<1>9. Link' /\ Nova'
  BY <1>1, <1>8, NovaUntouched
<1>10. PluginTypes'
  BY <1>1, <1>2 DEF PluginTypes, novaVars, bounds, Runs
<1>11. Relay'
  <2>1. RelayTypes' /\ QueueIsTheSessions' /\ TokenIsTheSessions'
    BY <1>1, <1>8 DEF Relay, RelayTypes, QueueIsTheSessions, TokenIsTheSessions, Connected, novaVars,
                      linkVars
  <2>2. offers \in Nat /\ sessions \in Nat /\ offers' = offers /\ sessions' = sessions
    BY <1>1 DEF Nova, NovaTypes, novaVars
  <2>3. \A a \in wire'.answered : a.rpc.code <= offers /\ a.session <= sessions
    BY <1>6, <1>8, <2>2 DEF Relay, HandshakesAreNovas
  <2>4. \A q \in deliveries' \cup wire'.pending : q.code <= offers
    BY <1>6, <1>8, <2>2 DEF Relay, HandshakesAreNovas
  <2>5. HandshakesAreNovas'
    BY <1>1, <1>6, <1>8, <2>3, <2>4 DEF Relay, HandshakesAreNovas, Connected, novaVars
  <2>6. QED
    BY <2>1, <2>5 DEF Relay
<1>12. work[e] = "none" /\ e \in DOMAIN runs
  BY <1>2 DEF Moved, ExecutionsMoveOnce, e
<1>13. /\ \A i \in DOMAIN wire.queue : wire.queue[i].run # e
       /\ \A o \in Studios : w.mail[o].run # e
       /\ \A q \in wire.pending : Moving(q) => q.run # e
       /\ \A a \in wire.answered : Moving(a.rpc) => a.rpc.run # e
  BY <1>2, <1>4, <1>12 DEF Moved, ExecutionsMoveOnce, e
<1>14. /\ work'[e] = "starting" /\ \A x \in Runs : x # e => work'[x] = work[x]
       /\ runs' = runs /\ DOMAIN runs \subseteq Runs
  BY <1>1, <1>2 DEF PluginTypes, novaVars, Nova, NovaTypes, Runs
<1>15. ExecutionsMoveOnce'
  <2>1. /\ \A i \in DOMAIN wire.queue : wire.queue[i].run # 0 => wire.queue[i].run \in Runs
        /\ \A o \in Studios : w.mail[o].run # 0 => w.mail[o] = wire.mail[o] /\ w.mail[o].run \in Runs
    BY <1>4, <1>14 DEF Moved, ExecutionsMoveOnce
  <2>2. /\ \A q \in wire.pending : Moving(q) => q.run \in Runs
        /\ \A a \in wire.answered : Moving(a.rpc) => a.rpc.run \in Runs
        /\ \A q \in deliveries : q.kind = "success" => q.run \in Runs
    <3>1. wire.pending \subseteq Requests /\ wire.answered \subseteq Answers /\ deliveries \subseteq Requests
      BY <1>2, WireFields DEF Relay, RelayTypes
    <3>2. QED
      BY <3>1, RequestFields, AnswerFields DEF Moving, Reports
  <2>3. \A i \in DOMAIN wire'.queue : wire'.queue[i].run # 0 =>
         /\ work'[wire'.queue[i].run] = "none" /\ wire'.queue[i].run \in DOMAIN runs'
         /\ \A j \in DOMAIN wire'.queue : wire'.queue[j].run = wire'.queue[i].run => i = j
         /\ \A o \in Studios : wire'.mail[o].run # wire'.queue[i].run
    BY <1>8, <1>13, <1>14, <2>1 DEF Moved, ExecutionsMoveOnce
  <2>4. \A o \in Studios : wire'.mail[o].run # 0 =>
         /\ work'[wire'.mail[o].run] = "none" /\ wire'.mail[o].run \in DOMAIN runs'
         /\ \A s \in Studios : wire'.mail[s].run = wire'.mail[o].run => o = s
    BY <1>8, <1>13, <1>14, <2>1 DEF Moved, ExecutionsMoveOnce
  <2>5. \A q \in wire'.pending : Moving(q) =>
         /\ work'[q.run] = "starting"
         /\ \A s \in wire'.pending : Moving(s) /\ s.run = q.run => q = s
         /\ \A a \in wire'.answered : Moving(a.rpc) => a.rpc.run # q.run
    BY <1>6, <1>8, <1>13, <1>14, <2>2 DEF Moved, ExecutionsMoveOnce
  <2>6. \A a \in wire'.answered : Moving(a.rpc) =>
         /\ work'[a.rpc.run] = "starting"
         /\ \A b \in wire'.answered : Moving(b.rpc) /\ b.rpc.run = a.rpc.run => a = b
    BY <1>6, <1>8, <1>13, <1>14, <2>2 DEF Moved, ExecutionsMoveOnce
  <2>7. /\ \A q \in deliveries' : q.kind = "success" => work'[q.run] = "written"
        /\ \A x \in Runs \ DOMAIN runs' : work'[x] = "none"
    BY <1>6, <1>8, <1>12, <1>14, <2>2 DEF Moved, ExecutionsMoveOnce
  <2>8. QED
    BY <2>3, <2>4, <2>5, <2>6, <2>7 DEF ExecutionsMoveOnce
<1>16. OutcomesAreTrue'
  BY <1>12, <1>14 DEF Moved, OutcomesAreTrue
<1>17. QED
  BY <1>9, <1>10, <1>11, <1>15, <1>16 DEF Moved

(* The one report that moved an execution becomes its outcome.             *)
LEMMA DeliverScriptInv == ASSUME Inv, NEW p \in Studios, DeliverScript(p) PROVE Inv'
<1> USE DEF Inv
<1>1. PICK a \in AnswersTo(p, {"running"}), ok \in BOOLEAN :
       /\ work' = [work EXCEPT ![a.rpc.run] = IF ok THEN "written" ELSE "failed"]
       /\ Report(Heard(a), Rpc(p, IF ok THEN "success" ELSE "failed", key[p], a.rpc.run))
  BY DEF DeliverScript
<1>2. UNCHANGED <<linkVars, novaVars, attached, attaching, calls, studio, key, generation, leaving, bounds>>
  BY DEF DeliverScript
<1> DEFINE e == a.rpc.run
<1>3. a \in wire.answered /\ Moving(a.rpc) /\ e \in Runs /\ key[p] \in Nat
  <2>1. a \in wire.answered /\ a.rpc.kind = "running" /\ wire.answered \subseteq Answers
    BY WireFields DEF AnswersTo, Relay, RelayTypes
  <2>2. a.rpc \in Requests
    BY <2>1, AnswerFields
  <2>3. QED
    BY <2>1, <2>2, RequestFields DEF Moving, Reports, PluginTypes, Nova, NovaTypes
<1> HIDE DEF e
<1>4. PICK w : w = Heard(a)
  OBVIOUS
<1>5. /\ w \in Wires /\ w.up = wire.up /\ w.token = wire.token /\ w.queue = wire.queue
      /\ w.pending = wire.pending /\ w.answered = wire.answered \ {a} /\ w.mail = wire.mail
  BY <1>4, HeardFacts DEF Relay, RelayTypes
<1>6. PICK r : r = Rpc(p, IF ok THEN "success" ELSE "failed", key[p], e)
  OBVIOUS
<1>7. /\ r \in Requests /\ r.kind \notin Handshake /\ r.code = 0 /\ r.run = e
      /\ r.kind = "success" => ok
  BY <1>3, <1>6 DEF Rpc, Requests, Reports, Handshake, Runs
<1>8. wire' = w /\ deliveries' \subseteq deliveries \cup {r}
  BY <1>1, <1>4, <1>6 DEF Report, e
<1>9. Link' /\ Nova'
  BY <1>2, <1>5, <1>8, NovaUntouched
<1>10. PluginTypes'
  BY <1>1, <1>2, <1>3 DEF PluginTypes, novaVars, bounds, Runs, e
<1>11. Relay'
  <2>1. RelayTypes' /\ QueueIsTheSessions' /\ TokenIsTheSessions'
    BY <1>2, <1>5, <1>7, <1>8 DEF Relay, RelayTypes, QueueIsTheSessions, TokenIsTheSessions, Connected,
                                  novaVars, linkVars
  <2>2. offers \in Nat
    BY DEF Nova, NovaTypes
  <2>3. HandshakesAreNovas'
    BY <1>2, <1>5, <1>7, <1>8, <2>2 DEF Relay, HandshakesAreNovas, Connected, novaVars
  <2>4. QED
    BY <2>1, <2>3 DEF Relay
<1>12. work[e] = "starting"
  BY <1>3 DEF Moved, ExecutionsMoveOnce, e
<1>13. /\ \A q \in wire.pending : Moving(q) => q.run # e
       /\ \A b \in w.answered : Moving(b.rpc) => b.rpc.run # e
  BY <1>3, <1>5 DEF Moved, ExecutionsMoveOnce, e
<1>14. /\ work'[e] = IF ok THEN "written" ELSE "failed"
       /\ \A x \in Runs : x # e => work'[x] = work[x]
       /\ runs' = runs /\ DOMAIN runs \subseteq Runs
  BY <1>1, <1>2, <1>3 DEF PluginTypes, novaVars, Nova, NovaTypes, Runs, e
<1>15. ExecutionsMoveOnce'
  <2>1. /\ wire.pending \subseteq Requests /\ wire.answered \subseteq Answers /\ deliveries \subseteq Requests
    BY <1>5, WireFields DEF Relay, RelayTypes
  <2>2. /\ \A q \in wire.pending : Moving(q) => q.run \in Runs
        /\ \A b \in wire.answered : Moving(b.rpc) => b.rpc.run \in Runs
        /\ \A q \in deliveries : q.kind = "success" => q.run \in Runs
    BY <2>1, RequestFields, AnswerFields DEF Moving, Reports
  <2>3. \A i \in DOMAIN wire'.queue : wire'.queue[i].run # 0 =>
         /\ work'[wire'.queue[i].run] = "none" /\ wire'.queue[i].run \in DOMAIN runs'
         /\ \A j \in DOMAIN wire'.queue : wire'.queue[j].run = wire'.queue[i].run => i = j
         /\ \A o \in Studios : wire'.mail[o].run # wire'.queue[i].run
    BY <1>5, <1>8, <1>12, <1>14 DEF Moved, ExecutionsMoveOnce
  <2>4. \A o \in Studios : wire'.mail[o].run # 0 =>
         /\ work'[wire'.mail[o].run] = "none" /\ wire'.mail[o].run \in DOMAIN runs'
         /\ \A s \in Studios : wire'.mail[s].run = wire'.mail[o].run => o = s
    BY <1>5, <1>8, <1>12, <1>14 DEF Moved, ExecutionsMoveOnce
  <2>5. \A q \in wire'.pending : Moving(q) =>
         /\ work'[q.run] = "starting"
         /\ \A s \in wire'.pending : Moving(s) /\ s.run = q.run => q = s
         /\ \A b \in wire'.answered : Moving(b.rpc) => b.rpc.run # q.run
    BY <1>5, <1>8, <1>13, <1>14, <2>2 DEF Moved, ExecutionsMoveOnce
  <2>6. \A b \in wire'.answered : Moving(b.rpc) =>
         /\ work'[b.rpc.run] = "starting"
         /\ \A c \in wire'.answered : Moving(c.rpc) /\ c.rpc.run = b.rpc.run => b = c
    BY <1>5, <1>8, <1>13, <1>14, <2>2 DEF Moved, ExecutionsMoveOnce
  <2>7. \A q \in deliveries' : q.kind = "success" => work'[q.run] = "written"
    <3>1. \A q \in deliveries : q.kind = "success" => work[q.run] = "written" /\ q.run # e
      BY <1>12 DEF Moved, ExecutionsMoveOnce
    <3>2. QED
      BY <1>7, <1>8, <1>14, <2>2, <3>1
  <2>8. \A x \in Runs \ DOMAIN runs' : work'[x] = "none"
    BY <1>12, <1>14 DEF Moved, ExecutionsMoveOnce
  <2>9. QED
    BY <2>3, <2>4, <2>5, <2>6, <2>7, <2>8 DEF ExecutionsMoveOnce
<1>16. OutcomesAreTrue'
  BY <1>12, <1>14 DEF Moved, OutcomesAreTrue
<1>17. QED
  BY <1>9, <1>10, <1>11, <1>15, <1>16 DEF Moved

LEMMA LeaveInv == ASSUME Inv, NEW p \in Studios, Leave(p) PROVE Inv'
<1> USE DEF Inv
<1>1. /\ leaving' = [leaving EXCEPT ![p] = TRUE] /\ Send(wire, Rpc(p, "disconnect", key[p], 0))
      /\ UNCHANGED <<linkVars, novaVars, attached, attaching, calls, studio, key, generation, work, bounds>>
  BY DEF Leave
<1>2. wire \in Wires /\ key[p] \in Nat /\ offers \in Nat
  BY DEF Relay, RelayTypes, PluginTypes, Nova, NovaTypes
<1>3. PICK r : r = Rpc(p, "disconnect", key[p], 0)
  OBVIOUS
<1>4. r \in Requests /\ r.kind = "disconnect" /\ r.code = 0
  BY <1>2, <1>3 DEF Rpc, Requests, Reports
<1>5. Send(wire, r) /\ r.code <= offers
  BY <1>1, <1>2, <1>3, <1>4
<1>6. Relay' /\ Moved' /\ wire'.up = wire.up
  BY <1>1, <1>2, <1>4, <1>5, Sent
<1>7. Link' /\ Nova'
  BY <1>1, <1>6, NovaUntouched
<1>8. PluginTypes'
  BY <1>1 DEF PluginTypes, novaVars, bounds, Runs
<1>9. QED
  BY <1>6, <1>7, <1>8

LEMMA LeftInv == ASSUME Inv, NEW p \in Studios, Left(p) PROVE Inv'
<1> USE DEF Inv
<1>1. PICK a \in AnswersTo(p, {"disconnect"}) : EndSession(p, Heard(a))
  BY DEF Left
<1>2. /\ leaving' = [leaving EXCEPT ![p] = FALSE]
      /\ UNCHANGED <<linkVars, novaVars, attached, attaching, calls, deliveries, work, bounds>>
  BY DEF Left
<1>3. PICK w : w = Heard(a)
  OBVIOUS
<1>4. /\ w \in Wires /\ w.up = wire.up /\ w.token = wire.token /\ w.queue = wire.queue
      /\ w.pending = wire.pending /\ w.answered = wire.answered \ {a} /\ w.mail = wire.mail
  BY <1>3, HeardFacts DEF Relay, RelayTypes
<1>5. EndSession(p, w) /\ leaving' \in [Studios -> BOOLEAN] /\ faults' \in Nat /\ connects' = connects
  BY <1>1, <1>2, <1>3 DEF PluginTypes, bounds
<1>6. QED
  BY <1>2, <1>4, <1>5, SessionForgotten

LEMMA CrashInv == ASSUME Inv, NEW p \in Studios, Crash(p) PROVE Inv'
<1> USE DEF Inv
<1> DEFINE pending == {r \in wire.pending : r.client # p}
           answered == {a \in wire.answered : a.rpc.client # p}
<1>1. /\ faults' = faults + 1 /\ leaving' = [leaving EXCEPT ![p] = FALSE]
      /\ EndSession(p, [wire EXCEPT !.pending = {r \in @ : r.client # p},
                                    !.answered = {a \in @ : a.rpc.client # p}])
      /\ UNCHANGED <<linkVars, novaVars, attached, attaching, calls, deliveries, work, connects>>
  BY DEF Crash
<1>2. PICK w : w = [wire EXCEPT !.pending = {r \in @ : r.client # p},
                                !.answered = {a \in @ : a.rpc.client # p}]
  OBVIOUS
<1>3. w = [wire EXCEPT !.pending = pending, !.answered = answered]
  BY <1>2 DEF Relay, RelayTypes, Wires
<1>4. pending \subseteq wire.pending /\ answered \subseteq wire.answered
  OBVIOUS
<1> HIDE DEF pending, answered
<1>5. /\ w \in Wires /\ w.up = wire.up /\ w.token = wire.token /\ w.queue = wire.queue
      /\ w.pending \subseteq wire.pending /\ w.answered \subseteq wire.answered /\ w.mail = wire.mail
  BY <1>3, <1>4 DEF Relay, RelayTypes, Wires
<1>6. EndSession(p, w) /\ leaving' \in [Studios -> BOOLEAN] /\ faults' \in Nat
  BY <1>1, <1>2 DEF PluginTypes
<1>7. QED
  BY <1>1, <1>5, <1>6, SessionForgotten

-----------------------------------------------------------------------------
(* The theorems.                                                           *)

LEMMA InvInit == BridgeInit => Inv
<1> SUFFICES ASSUME BridgeInit PROVE Inv
  OBVIOUS
<1>1. wire \in Wires /\ ~wire.up /\ wire.token = 0 /\ wire.queue = <<>> /\ wire.pending = {}
      /\ wire.answered = {} /\ wire.mail = [p \in Studios |-> NoMail]
  <2>1. [p \in Studios |-> NoMail] \in [Studios -> Messages] /\ <<>> \in Seq(Messages)
    BY MessageTypes
  <2>2. QED
    BY <2>1 DEF BridgeInit, Wires
<1>2. Link
  <2>1. calls \in Seq(Calls) /\ calls = <<>>
    BY DEF BridgeInit
  <2>a. /\ status = "disconnected" /\ attempt = 0 /\ attempts = 0 /\ crossed = FALSE
        /\ phase = "stopped" /\ listening = FALSE /\ attached = FALSE /\ attaching = 0
    BY DEF BridgeInit, ConnectionInit
  <2>2. LinkTypes
    <3>1. status \in Statuses /\ phase \in Phases
      BY <2>a DEF Statuses, Phases
    <3>2. attempt \in 0 .. attempts /\ attempts \in Nat /\ attaching \in 0 .. attempts
      BY <2>a
    <3>3. QED
      BY <2>1, <2>a, <3>1, <3>2 DEF LinkTypes
  <2>3. LinkInv
    BY <1>1, <2>1 DEF BridgeInit, ConnectionInit, LinkInv
  <2>4. QED
    BY <2>2, <2>3 DEF Link
<1>3. Nova
  <2>1. <<>> \in Seq([state : Live \cup Outcomes, session : 1 .. sessions]) /\ Len(<<>>) = 0
    OBVIOUS
  <2>2. NovaTypes
    BY <2>1 DEF BridgeInit, NovaTypes
  <2>3. QED
    BY <2>2 DEF BridgeInit, Nova, LiveRunsHaveASession, LiveRuns
<1>4. Relay
  BY <1>1 DEF BridgeInit, Relay, RelayTypes, QueueIsTheSessions, TokenIsTheSessions, HandshakesAreNovas,
              Connected
<1>5. PluginTypes
  BY DEF BridgeInit, PluginTypes, Runs
<1>6. Moved
  BY <1>1, MessageTypes DEF BridgeInit, Moved, ExecutionsMoveOnce, OutcomesAreTrue
<1>7. QED
  BY <1>2, <1>3, <1>4, <1>5, <1>6 DEF Inv

LEMMA InvStutters == ASSUME Inv, UNCHANGED bridgeVars PROVE Inv'
<1> USE DEF Inv, bridgeVars
<1>1. Link' /\ Nova' /\ PluginTypes'
  BY LinkKept, NovaKept, PluginsKept DEF novaVars, relayVars, Link, LinkTypes, Nova, NovaTypes
<1>2. Relay' /\ Moved'
  BY WireKept DEF novaVars, relayVars, pluginVars, linkVars
<1>3. QED
  BY <1>1, <1>2

LEMMA InvPreserved == ASSUME Inv, [BridgeNext]_bridgeVars PROVE Inv'
<1>1. CASE NovaStep
  BY <1>1, StartBridgeInv, AttachInv, StartAnsweredInv, DisconnectInv, DismissInv, ConnectTimesOutInv,
     StopAnsweredInv, OfferPairingInv, OfferEndsInv, DisconnectStudioInv, GoesStaleInv,
     TransportFailsInv, ExecuteInv, DeliveryUnheardInv, RefuseDeliveryInv, HandleHelloInv,
     HandlePairRequestInv, HandleReportInv, HandleDisconnectInv DEF NovaStep
<1>2. CASE RelayStep
  BY <1>2, RpcTimesOutInv, PollExpiresInv DEF RelayStep
<1>3. CASE \E p \in Studios : StudioStep(p)
  <2>1. PICK p \in Studios : StudioStep(p)
    BY <1>3
  <2>2. QED
    BY <2>1, ConnectInv, HelloAnsweredInv, PairAnsweredInv, PollInv, LosesContactInv, ToldToEndInv,
       ReceiveExecutionInv, DeliverScriptInv, LeaveInv, LeftInv, CrashInv DEF StudioStep
<1>4. CASE UNCHANGED bridgeVars
  BY <1>4, InvStutters
<1>5. QED
  BY <1>1, <1>2, <1>3, <1>4 DEF BridgeNext

\* Whatever the order of the plugins' requests, Nova's commands and their answers, and
\* whichever windows close: no execution outlives its session or is reported as a success
\* unwritten, the relay's queue and token are those of the session there is, an execution
\* is handed over once; and until a start crosses a stop, a link that shows as connected is
\* one that Nova listens on, and an attempt that was given up leaves no relay up.
THEOREM SessionsKeepTheirRuns == BridgeSpec => []BridgeInv
<1>1. Inv /\ [BridgeNext]_bridgeVars => Inv'
  BY InvPreserved
<1>2. QED
  BY <1>1, InvInit, InvIsBridgeInv, PTL DEF BridgeSpec

(* Every step but those that handle a pairing or a disconnect leaves the   *)
(* session as it is or takes no delivery.                                  *)
LEMMA TakesOrKeeps ==
  ASSUME [BridgeNext]_bridgeVars, ~HandlePairRequest, ~HandleDisconnect
  PROVE  token' = token \/ deliveries \subseteq deliveries'
<1>1. CASE NovaStep
  <2>1. CASE StartBridge \/ Attach \/ StartAnswered \/ Dismiss \/ StopAnswered \/ OfferPairing
             \/ OfferEnds \/ Execute \/ DeliveryUnheard \/ RefuseDelivery \/ HandleHello \/ HandleReport
    BY <2>1 DEF StartBridge, Attach, StartAnswered, Dismiss, StopAnswered, OfferPairing, OfferEnds,
       Execute, DeliveryUnheard, RefuseDelivery, HandleHello, HandleReport, novaVars
  <2>2. CASE Disconnect \/ ConnectTimesOut \/ DisconnectStudio \/ GoesStale \/ TransportFails
    BY <2>2 DEF Disconnect, ConnectTimesOut, StopBridge, DisconnectStudio, GoesStale, TransportFails,
       relayVars
  <2>3. QED
    BY <1>1, <2>1, <2>2 DEF NovaStep
<1>2. CASE RelayStep
  BY <1>2 DEF RelayStep, RpcTimesOut, PollExpires, novaVars
<1>3. CASE \E p \in Studios : StudioStep(p)
  BY <1>3 DEF StudioStep, Connect, HelloAnswered, PairAnswered, Poll, LosesContact, ToldToEnd,
     ReceiveExecution, DeliverScript, Leave, Left, Crash, novaVars
<1>4. CASE UNCHANGED bridgeVars
  BY <1>4 DEF bridgeVars, novaVars
<1>5. QED
  BY <1>1, <1>2, <1>3, <1>4 DEF BridgeNext

\* A delivery that ends a session, or that opens one in its place, came from that session:
\* what a plugin sent before it was replaced ends nothing when it is handled afterwards.
THEOREM OldRequestsEndNothing == BridgeSpec => OnlyItsPluginEndsIt
<1> DEFINE A == \A r \in deliveries \ deliveries' : Connected /\ token' # token => r.token = token
<1>1. ASSUME [BridgeNext]_bridgeVars PROVE A
  <2>1. CASE HandlePairRequest
    <3>1. SUFFICES ASSUME Connected PROVE token' = token
      OBVIOUS
    <3>2. QED
      BY <2>1, <3>1 DEF HandlePairRequest, PairFails, PairIsBusy, PairSucceeds
  <2>2. CASE HandleDisconnect
    BY <2>2 DEF HandleDisconnect, Handled, Refused, Handshake
  <2>3. CASE ~HandlePairRequest /\ ~HandleDisconnect
    BY <1>1, <2>3, TakesOrKeeps
  <2>4. QED
    BY <2>1, <2>2, <2>3
<1>2. [BridgeNext]_bridgeVars => [A]_bridgeVars
  BY <1>1
<1>3. QED
  BY <1>2, PTL DEF BridgeSpec, OnlyItsPluginEndsIt
=============================================================================
