---------------------- MODULE LocalServiceSystemProofs ----------------------
(***************************************************************************)
(* Proofs about the Local Service backend under its controller.            *)
(***************************************************************************)
EXTENDS LocalServiceSystem, BackendControllerProofs, FiniteSetTheorems, FunctionTheorems

USE BoundsAssumption

-----------------------------------------------------------------------------
(* What the client's operators do to the calls, one operator at a time.    *)

LEMMA RemoveAtFacts ==
  ASSUME NEW T, NEW q \in Seq(T), NEW i \in DOMAIN q, NEW r, r = RemoveAt(q, i)
  PROVE  /\ r \in Seq(T)
         /\ Len(r) = Len(q) - 1
         /\ \A k \in 1 .. Len(q) - 1 : r[k] = q[IF k < i THEN k ELSE k + 1]
<1> DEFINE a == SubSeq(q, 1, i - 1)
           b == SubSeq(q, i + 1, Len(q))
<1>1. r = a \o b
  BY DEF RemoveAt
<1>2. i \in 1 .. Len(q) /\ Len(q) \in Nat
  OBVIOUS
<1>3. a \in Seq(T) /\ Len(a) = i - 1 /\ \A k \in 1 .. i - 1 : a[k] = q[k]
  BY <1>2
<1>4. b \in Seq(T) /\ Len(b) = Len(q) - i /\ \A k \in 1 .. Len(q) - i : b[k] = q[k + i]
  BY <1>2
<1> HIDE DEF a, b
<1>5. QED
  BY <1>1, <1>2, <1>3, <1>4

Same(d, c) ==
  /\ d.session = c.session /\ d.running = c.running
  /\ d.timer = c.timer /\ d.attached = c.attached

SameRequest(k, l) == k.op = l.op /\ k.sid = l.sid /\ k.n = l.n

(* The calls replaced, one for one.                                        *)
LEMMA CallsReplaced ==
  ASSUME NEW c \in ClientType, NEW q \in [DOMAIN c.calls -> Calls],
         NEW d, d = [c EXCEPT !.calls = q]
  PROVE  /\ d \in ClientType /\ Same(d, c) /\ DOMAIN d.calls = DOMAIN c.calls
         /\ \A i \in DOMAIN c.calls : d.calls[i] = q[i]
<1>1. c.calls \in Seq(Calls) /\ Len(c.calls) \in Nat /\ DOMAIN c.calls = 1 .. Len(c.calls)
  BY DEF ClientType
<1>2. q \in Seq(Calls)
  <2>1. q \in [1 .. Len(c.calls) -> Calls]
    BY <1>1
  <2>2. QED
    BY <1>1, <2>1
<1>3. d \in ClientType /\ Same(d, c) /\ d.calls = q
  BY <1>2 DEF ClientType, Same
<1>4. QED
  BY <1>3

(* One field of one call.                                                  *)
LEMMA GenPassed ==
  ASSUME NEW l \in Calls, NEW k, k = [l EXCEPT !.gen = FALSE]
  PROVE  /\ k \in Calls /\ SameRequest(k, l) /\ k.why = l.why /\ k.answer = l.answer
         /\ k.awaited = l.awaited /\ k.life = l.life /\ k.gen = FALSE
  BY DEF Calls, SameRequest

LEMMA LifePassed ==
  ASSUME NEW l \in Calls, NEW k, k = [l EXCEPT !.life = FALSE]
  PROVE  /\ k \in Calls /\ SameRequest(k, l) /\ k.why = l.why /\ k.answer = l.answer
         /\ k.awaited = l.awaited /\ k.life = FALSE /\ k.gen = l.gen
  BY DEF Calls, SameRequest

LEMMA WhyChanged ==
  ASSUME NEW l \in Calls, NEW k, k = [l EXCEPT !.why = "orphan"]
  PROVE  /\ k \in Calls /\ SameRequest(k, l) /\ k.why = "orphan" /\ k.answer = l.answer
         /\ k.awaited = l.awaited /\ k.life = l.life /\ k.gen = l.gen
  BY DEF Calls, SameRequest, Whys

LEMMA NoLongerAwaited ==
  ASSUME NEW l \in Calls, NEW k, k = [l EXCEPT !.awaited = FALSE]
  PROVE  /\ k \in Calls /\ SameRequest(k, l) /\ k.why = l.why /\ k.answer = l.answer
         /\ k.awaited = FALSE /\ k.life = l.life /\ k.gen = l.gen
  BY DEF Calls, SameRequest

AnswerType == [is: {"none", "ok", "lost", "refused"}, id: Nat, attached: BOOLEAN]

LEMMA AnswerGiven ==
  ASSUME NEW l \in Calls, NEW a \in AnswerType, NEW k, k = [l EXCEPT !.answer = a]
  PROVE  /\ k \in Calls /\ SameRequest(k, l) /\ k.why = l.why /\ k.answer = a
         /\ k.awaited = l.awaited /\ k.life = l.life /\ k.gen = l.gen
  BY DEF Calls, SameRequest, AnswerType

LEMMA NewGenerationFacts ==
  ASSUME NEW c \in ClientType, NEW d, d = NewGeneration(c)
  PROVE  /\ d \in ClientType /\ Same(d, c)
         /\ DOMAIN d.calls = DOMAIN c.calls
         /\ \A i \in DOMAIN c.calls :
              LET k == d.calls[i]
                  l == c.calls[i] IN
              /\ SameRequest(k, l) /\ k.why = l.why /\ k.answer = l.answer
              /\ k.awaited = l.awaited /\ k.life = l.life /\ k.gen = FALSE
<1> DEFINE q == [i \in DOMAIN c.calls |-> [c.calls[i] EXCEPT !.gen = FALSE]]
<1>1. d = [c EXCEPT !.calls = q]
  BY DEF NewGeneration, OnCalls
<1>2. \A i \in DOMAIN c.calls : c.calls[i] \in Calls
  BY DEF ClientType
<1>3. \A i \in DOMAIN c.calls : q[i] = [c.calls[i] EXCEPT !.gen = FALSE]
  OBVIOUS
<1>4. ASSUME NEW i \in DOMAIN c.calls
      PROVE  LET k == q[i]
                 l == c.calls[i] IN
             /\ k \in Calls /\ SameRequest(k, l) /\ k.why = l.why /\ k.answer = l.answer
             /\ k.awaited = l.awaited /\ k.life = l.life /\ k.gen = FALSE
  BY <1>2, <1>3, GenPassed
<1>5. q \in [DOMAIN c.calls -> Calls]
  BY <1>4
<1> HIDE DEF q
<1>6. /\ d \in ClientType /\ Same(d, c) /\ DOMAIN d.calls = DOMAIN c.calls
      /\ \A i \in DOMAIN c.calls : d.calls[i] = q[i]
  BY <1>1, <1>5, CallsReplaced
<1>7. QED
  BY <1>4, <1>6

LEMMA NewLifeFacts ==
  ASSUME NEW c \in ClientType, NEW d, d = NewLife(c)
  PROVE  /\ d \in ClientType /\ Same(d, c)
         /\ DOMAIN d.calls = DOMAIN c.calls
         /\ \A i \in DOMAIN c.calls :
              LET k == d.calls[i]
                  l == c.calls[i] IN
              /\ SameRequest(k, l) /\ k.why = l.why /\ k.answer = l.answer
              /\ k.awaited = l.awaited /\ k.life = FALSE /\ k.gen = l.gen
<1> DEFINE q == [i \in DOMAIN c.calls |-> [c.calls[i] EXCEPT !.life = FALSE]]
<1>1. d = [c EXCEPT !.calls = q]
  BY DEF NewLife, OnCalls
<1>2. \A i \in DOMAIN c.calls : c.calls[i] \in Calls
  BY DEF ClientType
<1>3. \A i \in DOMAIN c.calls : q[i] = [c.calls[i] EXCEPT !.life = FALSE]
  OBVIOUS
<1>4. ASSUME NEW i \in DOMAIN c.calls
      PROVE  LET k == q[i]
                 l == c.calls[i] IN
             /\ k \in Calls
             /\ SameRequest(k, l) /\ k.why = l.why /\ k.answer = l.answer
             /\ k.awaited = l.awaited /\ k.life = FALSE /\ k.gen = l.gen
  BY <1>2, <1>3, LifePassed
<1>5. q \in [DOMAIN c.calls -> Calls]
  BY <1>4
<1> HIDE DEF q
<1>6. /\ d \in ClientType /\ Same(d, c) /\ DOMAIN d.calls = DOMAIN c.calls
      /\ \A i \in DOMAIN c.calls : d.calls[i] = q[i]
  BY <1>1, <1>5, CallsReplaced
<1>7. QED
  BY <1>4, <1>6

(* The handshake of a start that is aborted is nobody's any more.          *)
Orphaned(c, n) ==
  [c EXCEPT !.calls = [i \in DOMAIN c.calls |->
                         IF Starts(c.calls[i], n) THEN [c.calls[i] EXCEPT !.why = "orphan"]
                                                  ELSE c.calls[i]]]

LEMMA OrphanedFacts ==
  ASSUME NEW c \in ClientType, NEW n, NEW d, d = Orphaned(c, n)
  PROVE  /\ d \in ClientType /\ Same(d, c)
         /\ DOMAIN d.calls = DOMAIN c.calls
         /\ \A i \in DOMAIN c.calls :
              LET k == d.calls[i]
                  l == c.calls[i] IN
              /\ SameRequest(k, l) /\ k.answer = l.answer /\ k.awaited = l.awaited
              /\ k.life = l.life /\ k.gen = l.gen
              /\ k.why = IF Starts(l, n) THEN "orphan" ELSE l.why
<1> DEFINE q == [i \in DOMAIN c.calls |-> IF Starts(c.calls[i], n) THEN [c.calls[i] EXCEPT !.why = "orphan"] ELSE c.calls[i]]
<1>1. d = [c EXCEPT !.calls = q]
  BY DEF Orphaned
<1>2. \A i \in DOMAIN c.calls : c.calls[i] \in Calls
  BY DEF ClientType
<1>3. \A i \in DOMAIN c.calls : q[i] = IF Starts(c.calls[i], n) THEN [c.calls[i] EXCEPT !.why = "orphan"] ELSE c.calls[i]
  OBVIOUS
<1>4. ASSUME NEW i \in DOMAIN c.calls
      PROVE  LET k == q[i]
                 l == c.calls[i] IN
             /\ k \in Calls
             /\ SameRequest(k, l) /\ k.answer = l.answer /\ k.awaited = l.awaited
             /\ k.life = l.life /\ k.gen = l.gen
             /\ k.why = IF Starts(l, n) THEN "orphan" ELSE l.why
  <2>0. PICK l \in Calls : l = c.calls[i]
    BY <1>2
  <2>1. PICK k : l = c.calls[i] /\ k = q[i]
    BY <2>0
  <2>2. CASE Starts(l, n)
    <3>1. k = [l EXCEPT !.why = "orphan"]
      BY <1>3, <2>1, <2>2
    <3>2. QED
      BY <2>1, <2>2, <3>1, WhyChanged
  <2>3. CASE ~Starts(l, n)
    <3>1. k = l
      BY <1>3, <2>1, <2>3
    <3>2. QED
      BY <2>1, <2>3, <3>1 DEF SameRequest
  <2>4. QED
    BY <2>2, <2>3
<1>5. q \in [DOMAIN c.calls -> Calls]
  BY <1>4
<1> HIDE DEF q
<1>6. /\ d \in ClientType /\ Same(d, c) /\ DOMAIN d.calls = DOMAIN c.calls
      /\ \A i \in DOMAIN c.calls : d.calls[i] = q[i]
  BY <1>1, <1>5, CallsReplaced
<1>7. QED
  BY <1>4, <1>6

(* Nobody awaits call j any more. *)
Dropped(c, j) == [c EXCEPT !.calls[j].awaited = FALSE]

LEMMA DroppedFacts ==
  ASSUME NEW c \in ClientType, NEW j \in DOMAIN c.calls, NEW d, d = Dropped(c, j)
  PROVE  /\ d \in ClientType /\ Same(d, c)
         /\ DOMAIN d.calls = DOMAIN c.calls
         /\ \A i \in DOMAIN c.calls :
              LET k == d.calls[i]
                  l == c.calls[i] IN
              /\ SameRequest(k, l) /\ k.why = l.why /\ k.answer = l.answer
              /\ k.life = l.life /\ k.gen = l.gen
              /\ (k.awaited <=> l.awaited /\ i # j)
<1> DEFINE q == [i \in DOMAIN c.calls |-> IF i = j THEN [c.calls[i] EXCEPT !.awaited = FALSE] ELSE c.calls[i]]
<1>1. d = [c EXCEPT !.calls = q]
  BY DEF Dropped
<1>2. \A i \in DOMAIN c.calls : c.calls[i] \in Calls
  BY DEF ClientType
<1>3. \A i \in DOMAIN c.calls : q[i] = IF i = j THEN [c.calls[i] EXCEPT !.awaited = FALSE] ELSE c.calls[i]
  OBVIOUS
<1>4. ASSUME NEW i \in DOMAIN c.calls
      PROVE  LET k == q[i]
                 l == c.calls[i] IN
             /\ k \in Calls
             /\ SameRequest(k, l) /\ k.why = l.why /\ k.answer = l.answer
             /\ k.life = l.life /\ k.gen = l.gen
             /\ (k.awaited <=> l.awaited /\ i # j)
  <2>0. PICK l \in Calls : l = c.calls[i]
    BY <1>2
  <2>1. PICK k : l = c.calls[i] /\ k = q[i]
    BY <2>0
  <2>2. CASE i = j
    <3>1. k = [l EXCEPT !.awaited = FALSE]
      BY <1>3, <2>1, <2>2
    <3>2. QED
      BY <2>1, <2>2, <3>1, NoLongerAwaited
  <2>3. CASE i # j
    <3>1. k = l /\ l.awaited \in BOOLEAN
      BY <1>3, <2>1, <2>3 DEF Calls
    <3>2. QED
      BY <2>1, <2>3, <3>1 DEF SameRequest
  <2>4. QED
    BY <2>2, <2>3
<1>5. q \in [DOMAIN c.calls -> Calls]
  BY <1>4
<1> HIDE DEF q
<1>6. /\ d \in ClientType /\ Same(d, c) /\ DOMAIN d.calls = DOMAIN c.calls
      /\ \A i \in DOMAIN c.calls : d.calls[i] = q[i]
  BY <1>1, <1>5, CallsReplaced
<1>7. QED
  BY <1>4, <1>6

(* The answer of call j is on its way. *)
Handed(c, j, a) == [c EXCEPT !.calls[j].answer = a]

LEMMA HandedFacts ==
  ASSUME NEW c \in ClientType, NEW j \in DOMAIN c.calls, NEW a \in AnswerType, NEW d, d = Handed(c, j, a)
  PROVE  /\ d \in ClientType /\ Same(d, c)
         /\ DOMAIN d.calls = DOMAIN c.calls
         /\ \A i \in DOMAIN c.calls :
              LET k == d.calls[i]
                  l == c.calls[i] IN
              /\ SameRequest(k, l) /\ k.why = l.why /\ k.awaited = l.awaited
              /\ k.life = l.life /\ k.gen = l.gen
              /\ k.answer = IF i = j THEN a ELSE l.answer
<1> DEFINE q == [i \in DOMAIN c.calls |-> IF i = j THEN [c.calls[i] EXCEPT !.answer = a] ELSE c.calls[i]]
<1>1. d = [c EXCEPT !.calls = q]
  BY DEF Handed
<1>2. \A i \in DOMAIN c.calls : c.calls[i] \in Calls
  BY DEF ClientType
<1>3. \A i \in DOMAIN c.calls : q[i] = IF i = j THEN [c.calls[i] EXCEPT !.answer = a] ELSE c.calls[i]
  OBVIOUS
<1>4. ASSUME NEW i \in DOMAIN c.calls
      PROVE  LET k == q[i]
                 l == c.calls[i] IN
             /\ k \in Calls
             /\ SameRequest(k, l) /\ k.why = l.why /\ k.awaited = l.awaited
             /\ k.life = l.life /\ k.gen = l.gen
             /\ k.answer = IF i = j THEN a ELSE l.answer
  <2>0. PICK l \in Calls : l = c.calls[i]
    BY <1>2
  <2>1. PICK k : l = c.calls[i] /\ k = q[i]
    BY <2>0
  <2>2. CASE i = j
    <3>1. k = [l EXCEPT !.answer = a]
      BY <1>3, <2>1, <2>2
    <3>2. QED
      BY <2>1, <2>2, <3>1, AnswerGiven
  <2>3. CASE i # j
    <3>1. k = l
      BY <1>3, <2>1, <2>3
    <3>2. QED
      BY <2>1, <2>3, <3>1 DEF SameRequest
  <2>4. QED
    BY <2>2, <2>3
<1>5. q \in [DOMAIN c.calls -> Calls]
  BY <1>4
<1> HIDE DEF q
<1>6. /\ d \in ClientType /\ Same(d, c) /\ DOMAIN d.calls = DOMAIN c.calls
      /\ \A i \in DOMAIN c.calls : d.calls[i] = q[i]
  BY <1>1, <1>5, CallsReplaced
<1>7. QED
  BY <1>4, <1>6

(* Where a call stood before call i was taken out. *)
Place(i, k) == IF k < i THEN k ELSE k + 1

LEMMA WithoutFacts ==
  ASSUME NEW c \in ClientType, NEW i \in DOMAIN c.calls, NEW d, d = Without(c, i)
  PROVE  /\ d \in ClientType /\ Same(d, c)
         /\ \A k \in DOMAIN d.calls : /\ Place(i, k) \in DOMAIN c.calls /\ Place(i, k) # i
                                      /\ d.calls[k] = c.calls[Place(i, k)]
         /\ \A k, l \in DOMAIN d.calls : k < l => Place(i, k) < Place(i, l)
         /\ \A j \in DOMAIN c.calls : j # i => \E k \in DOMAIN d.calls : Place(i, k) = j
<1> DEFINE r == RemoveAt(c.calls, i)
<1>1. c.calls \in Seq(Calls) /\ Len(c.calls) \in Nat /\ DOMAIN c.calls = 1 .. Len(c.calls)
  BY DEF ClientType
<1>2. /\ r \in Seq(Calls) /\ Len(r) = Len(c.calls) - 1
      /\ \A k \in 1 .. Len(c.calls) - 1 : r[k] = c.calls[Place(i, k)]
  <2>1. PICK q \in Seq(Calls) : q = c.calls
    BY <1>1
  <2>2. /\ r \in Seq(Calls) /\ Len(r) = Len(c.calls) - 1
        /\ \A k \in 1 .. Len(c.calls) - 1 : r[k] = c.calls[IF k < i THEN k ELSE k + 1]
    BY <2>1, RemoveAtFacts
  <2>3. QED
    BY <2>2 DEF Place
<1>3. d = [c EXCEPT !.calls = r]
  BY DEF Without
<1> HIDE DEF r
<1>4. d \in ClientType /\ Same(d, c) /\ d.calls = r
  BY <1>2, <1>3 DEF ClientType, Same
<1>5. DOMAIN r = 1 .. Len(c.calls) - 1
  BY <1>1, <1>2
<1>6. \A k \in DOMAIN r : Place(i, k) \in DOMAIN c.calls /\ Place(i, k) # i
  BY <1>1, <1>5 DEF Place
<1>7. \A k, l \in DOMAIN r : k < l => Place(i, k) < Place(i, l)
  BY <1>1, <1>5 DEF Place
<1>8. ASSUME NEW j \in DOMAIN c.calls, j # i PROVE \E k \in DOMAIN r : Place(i, k) = j
  <2>1. CASE j < i
    <3>1. j \in DOMAIN r /\ Place(i, j) = j
      BY <1>1, <1>5, <2>1 DEF Place
    <3>2. QED
      BY <3>1
  <2>2. CASE j > i
    <3>1. j - 1 \in DOMAIN r /\ Place(i, j - 1) = j
      BY <1>1, <1>5, <2>2 DEF Place
    <3>2. QED
      BY <3>1
  <2>3. QED
    BY <1>1, <1>8, <2>1, <2>2
<1>9. QED
  BY <1>2, <1>4, <1>5, <1>6, <1>7, <1>8

(* Every call is new once.                                                 *)
NewCall(op, sid, why, n, awaited) ==
  [op |-> op, sid |-> sid, why |-> why, n |-> n, gen |-> TRUE, life |-> TRUE,
   awaited |-> awaited, answer |-> Unanswered]

Appended(c, k) == [c EXCEPT !.calls = Append(c.calls, k)]

LEMMA AppendFacts ==
  ASSUME NEW c \in ClientType, NEW k \in Calls, NEW d, d = Appended(c, k)
  PROVE  \E m \in Nat :
         /\ d \in ClientType /\ Same(d, c)
         /\ DOMAIN d.calls = DOMAIN c.calls \cup {m}
         /\ \A i \in DOMAIN c.calls : i < m /\ d.calls[i] = c.calls[i]
         /\ d.calls[m] = k
<1> DEFINE r == Append(c.calls, k)
<1>1. c.calls \in Seq(Calls) /\ Len(c.calls) \in Nat /\ DOMAIN c.calls = 1 .. Len(c.calls)
  BY DEF ClientType
<1>2. d = [c EXCEPT !.calls = r]
  BY DEF Appended
<1>3. /\ r \in Seq(Calls) /\ Len(r) = Len(c.calls) + 1
      /\ r[Len(c.calls) + 1] = k
      /\ \A i \in 1 .. Len(c.calls) : r[i] = c.calls[i]
  BY <1>1
<1> HIDE DEF r
<1>4. d \in ClientType /\ Same(d, c) /\ d.calls = r
  BY <1>2, <1>3 DEF ClientType, Same
<1>5. DOMAIN r = 1 .. Len(c.calls) + 1
  BY <1>1, <1>3
<1>6. DOMAIN r = DOMAIN c.calls \cup {Len(c.calls) + 1}
  BY <1>1, <1>5
<1>7. \A i \in DOMAIN c.calls : i < Len(c.calls) + 1
  BY <1>1
<1>8. QED
  BY <1>1, <1>3, <1>4, <1>6, <1>7

-----------------------------------------------------------------------------
(* The invariant, part by part.                                            *)

IsAnswered(k) == k.answer # Unanswered

(* A call's continuation fits its request, and an awaited one of this      *)
(* generation names the session the client holds.                          *)
Fits(k) ==
  /\ k.why \in {"orphan", "recover"} => k.op = "handshake"
  /\ k.why \in {"check", "detect"} => k.op = "health"
  /\ k.why = "inject" => k.op = "attach"
  /\ k.why = "repair" => k.op = "detach"
  /\ k.why \in {"stop", "release", "failed"} => k.op = "shutdown"
  /\ k.why = "start" => k.op \in {"handshake", "health"}
  /\ k.why = "nothing" => k.op \in {"shutdown", "detach"}
  /\ k.sid = 0 <=> k.op = "handshake"
  /\ k.op = "handshake" /\ k.answer.is = "ok" => k.answer.id # 0
  /\ k.op = "handshake" => k.answer.is # "lost"
  /\ k.answer.is = "none" => ~IsAnswered(k)

Names(k, sid) == k.awaited /\ k.gen /\ k.op # "handshake" => k.sid = sid

(* The service handles the calls in their order, and the generation passes *)
(* for all calls at once.                                                  *)
InTurn(q) ==
  \A i, j \in DOMAIN q :
    i < j => (q[i].gen => q[j].gen) /\ (IsAnswered(q[j]) => IsAnswered(q[i]))

ClientOk(c) ==
  /\ \A i \in DOMAIN c.calls : Fits(c.calls[i]) /\ Names(c.calls[i], c.session)
  /\ InTurn(c.calls)

LEMMA OkNewGeneration ==
  ASSUME NEW c \in ClientType, NEW e \in ClientType, e.calls = c.calls, ClientOk(c),
         NEW d, d = NewGeneration(e)
  PROVE  ClientOk(d)
<1>1. /\ DOMAIN d.calls = DOMAIN c.calls
      /\ \A i \in DOMAIN c.calls :
           LET k == d.calls[i]
               l == c.calls[i] IN
           /\ SameRequest(k, l) /\ k.why = l.why /\ k.answer = l.answer
           /\ k.awaited = l.awaited /\ k.life = l.life /\ k.gen = FALSE
  <2>1. /\ DOMAIN d.calls = DOMAIN e.calls
        /\ \A i \in DOMAIN e.calls :
             LET k == d.calls[i]
                 l == e.calls[i] IN
             /\ SameRequest(k, l) /\ k.why = l.why /\ k.answer = l.answer
             /\ k.awaited = l.awaited /\ k.life = l.life /\ k.gen = FALSE
    BY NewGenerationFacts
  <2>2. QED
    BY <2>1
<1>2. \A i \in DOMAIN d.calls : Fits(d.calls[i])
  BY <1>1 DEF ClientOk, Fits, SameRequest, IsAnswered
<1>3. \A i \in DOMAIN d.calls : Names(d.calls[i], d.session)
  BY <1>1 DEF Names
<1>4. InTurn(d.calls)
  BY <1>1 DEF ClientOk, InTurn, IsAnswered
<1>5. QED
  BY <1>2, <1>3, <1>4 DEF ClientOk

LEMMA OkNewLife ==
  ASSUME NEW c \in ClientType, ClientOk(c), NEW d, d = NewLife(c)
  PROVE  ClientOk(d)
<1>1. /\ DOMAIN d.calls = DOMAIN c.calls /\ d.session = c.session
      /\ \A i \in DOMAIN c.calls :
           LET k == d.calls[i]
               l == c.calls[i] IN
           /\ SameRequest(k, l) /\ k.why = l.why /\ k.answer = l.answer
           /\ k.awaited = l.awaited /\ k.life = FALSE /\ k.gen = l.gen
  BY NewLifeFacts DEF Same
<1>2. \A i \in DOMAIN d.calls : Fits(d.calls[i])
  BY <1>1 DEF ClientOk, Fits, SameRequest, IsAnswered
<1>3. \A i \in DOMAIN d.calls : Names(d.calls[i], d.session)
  BY <1>1 DEF ClientOk, Names, SameRequest
<1>4. InTurn(d.calls)
  BY <1>1 DEF ClientOk, InTurn, IsAnswered
<1>5. QED
  BY <1>2, <1>3, <1>4 DEF ClientOk

LEMMA OkOrphaned ==
  ASSUME NEW c \in ClientType, ClientOk(c), NEW n,
         \A i \in DOMAIN c.calls : Starts(c.calls[i], n) => c.calls[i].op = "handshake",
         NEW d, d = Orphaned(c, n)
  PROVE  ClientOk(d)
<1>1. /\ DOMAIN d.calls = DOMAIN c.calls /\ d.session = c.session
      /\ \A i \in DOMAIN c.calls :
           LET k == d.calls[i]
               l == c.calls[i] IN
           /\ SameRequest(k, l) /\ k.answer = l.answer /\ k.awaited = l.awaited
           /\ k.life = l.life /\ k.gen = l.gen
           /\ k.why = IF Starts(l, n) THEN "orphan" ELSE l.why
  BY OrphanedFacts DEF Same
<1>2. \A i \in DOMAIN d.calls : Fits(d.calls[i])
  BY <1>1 DEF ClientOk, Fits, SameRequest, IsAnswered
<1>3. \A i \in DOMAIN d.calls : Names(d.calls[i], d.session)
  BY <1>1 DEF ClientOk, Names, SameRequest
<1>4. InTurn(d.calls)
  BY <1>1 DEF ClientOk, InTurn, IsAnswered
<1>5. QED
  BY <1>2, <1>3, <1>4 DEF ClientOk

LEMMA OkDropped ==
  ASSUME NEW c \in ClientType, ClientOk(c), NEW j \in DOMAIN c.calls, NEW d, d = Dropped(c, j)
  PROVE  ClientOk(d)
<1>1. /\ DOMAIN d.calls = DOMAIN c.calls /\ d.session = c.session
      /\ \A i \in DOMAIN c.calls :
           LET k == d.calls[i]
               l == c.calls[i] IN
           /\ SameRequest(k, l) /\ k.why = l.why /\ k.answer = l.answer
           /\ k.life = l.life /\ k.gen = l.gen
           /\ (k.awaited <=> l.awaited /\ i # j)
  <2>1. Same(d, c)
    BY DroppedFacts
  <2>2. d.session = c.session
    BY <2>1 DEF Same
  <2>3. QED
    BY <2>2, DroppedFacts
<1>2. \A i \in DOMAIN d.calls : Fits(d.calls[i])
  BY <1>1 DEF ClientOk, Fits, SameRequest, IsAnswered
<1>3. \A i \in DOMAIN d.calls : Names(d.calls[i], d.session)
  BY <1>1 DEF ClientOk, Names, SameRequest
<1>4. InTurn(d.calls)
  BY <1>1 DEF ClientOk, InTurn, IsAnswered
<1>5. QED
  BY <1>2, <1>3, <1>4 DEF ClientOk

LEMMA OkHanded ==
  ASSUME NEW c \in ClientType, ClientOk(c), NEW j \in DOMAIN c.calls, NEW a \in AnswerType,
         \A i \in DOMAIN c.calls : i < j => IsAnswered(c.calls[i]),
         ~IsAnswered(c.calls[j]),
         a.is # "none",
         c.calls[j].op = "handshake" => a.is # "lost" /\ (a.is = "ok" => a.id # 0),
         NEW d, d = Handed(c, j, a)
  PROVE  ClientOk(d)
<1>1. /\ DOMAIN d.calls = DOMAIN c.calls /\ d.session = c.session
      /\ \A i \in DOMAIN c.calls :
           LET k == d.calls[i]
               l == c.calls[i] IN
           /\ SameRequest(k, l) /\ k.why = l.why /\ k.awaited = l.awaited
           /\ k.life = l.life /\ k.gen = l.gen
           /\ k.answer = IF i = j THEN a ELSE l.answer
  BY HandedFacts DEF Same
<1>2. \A i \in DOMAIN d.calls : Fits(d.calls[i])
  BY <1>1 DEF ClientOk, Fits, SameRequest, IsAnswered
<1>3. \A i \in DOMAIN d.calls : Names(d.calls[i], d.session)
  BY <1>1 DEF ClientOk, Names, SameRequest
<1>4. InTurn(d.calls)
  BY <1>1 DEF ClientOk, InTurn, IsAnswered
<1>5. QED
  BY <1>2, <1>3, <1>4 DEF ClientOk

LEMMA OkWithout ==
  ASSUME NEW c \in ClientType, ClientOk(c), NEW i \in DOMAIN c.calls, NEW d, d = Without(c, i)
  PROVE  ClientOk(d)
<1>1. /\ d.session = c.session
      /\ \A k \in DOMAIN d.calls : Place(i, k) \in DOMAIN c.calls /\ d.calls[k] = c.calls[Place(i, k)]
      /\ \A k, l \in DOMAIN d.calls : k < l => Place(i, k) < Place(i, l)
  BY WithoutFacts DEF Same
<1>2. \A k \in DOMAIN d.calls : Fits(d.calls[k]) /\ Names(d.calls[k], d.session)
  BY <1>1 DEF ClientOk
<1>3. InTurn(d.calls)
  BY <1>1 DEF ClientOk, InTurn
<1>4. QED
  BY <1>2, <1>3 DEF ClientOk

LEMMA OkAppend ==
  ASSUME NEW c \in ClientType, ClientOk(c), NEW k \in Calls, Fits(k), Names(k, c.session),
         k.gen, ~IsAnswered(k), NEW d, d = Appended(c, k)
  PROVE  ClientOk(d)
<1>1. PICK m \in Nat :
         /\ d \in ClientType /\ Same(d, c)
         /\ DOMAIN d.calls = DOMAIN c.calls \cup {m}
         /\ \A i \in DOMAIN c.calls : i < m /\ d.calls[i] = c.calls[i]
         /\ d.calls[m] = k
  BY AppendFacts
<1>2. DOMAIN c.calls \subseteq Nat
  BY DEF ClientType
<1>3. d.session = c.session
  BY <1>1 DEF Same
<1>4. \A i \in DOMAIN d.calls : Fits(d.calls[i]) /\ Names(d.calls[i], d.session)
  BY <1>1, <1>3 DEF ClientOk
<1>5. InTurn(d.calls)
  BY <1>1, <1>2 DEF ClientOk, InTurn
<1>6. QED
  BY <1>4, <1>5 DEF ClientOk

(* The calls the operations wait for: at most one for each, of its kind,   *)
(* while its body is in the backend. starts and stops are the operations   *)
(* in their backend call, live is the start the controller waits for, or 0.*)
Waits(k) == k.awaited /\ k.why \in {"start", "stop", "failed"}

CallLinked(k, running, starts, stops, live) ==
  /\ k.awaited /\ k.why \in {"start", "failed"} => k.n \in starts
  /\ k.awaited /\ k.why = "stop" => k.n \in stops
  /\ k.awaited /\ k.why = "start" => (k.life <=> k.n = live)
  /\ k.awaited /\ k.why = "failed" /\ k.n = live => ~running
  /\ k.awaited /\ k.why = "start" /\ k.op = "handshake" /\ k.n = live => ~running

OneWaits(q) == \A i, j \in DOMAIN q : i < j /\ Waits(q[i]) /\ Waits(q[j]) => q[i].n # q[j].n

Link(c, starts, stops, live) ==
  /\ \A i \in DOMAIN c.calls : CallLinked(c.calls[i], c.running, starts, stops, live)
  /\ OneWaits(c.calls)

(* Nothing waits on behalf of operation n. *)
NoneWaits(c, n) == \A i \in DOMAIN c.calls : Waits(c.calls[i]) => c.calls[i].n # n

LEMMA LinkKept ==
  ASSUME NEW c, NEW d, NEW starts, NEW stops, NEW live, Link(c, starts, stops, live),
         DOMAIN d.calls = DOMAIN c.calls, d.running => c.running,
         \A i \in DOMAIN c.calls :
            LET k == d.calls[i]
                l == c.calls[i] IN
            /\ SameRequest(k, l) /\ k.life = l.life /\ (k.awaited => l.awaited)
            /\ k.why \in {l.why, "orphan"}
  PROVE  /\ Link(d, starts, stops, live)
         /\ \A n : NoneWaits(c, n) => NoneWaits(d, n)
<1>1. \A i \in DOMAIN d.calls : CallLinked(d.calls[i], d.running, starts, stops, live)
  BY DEF Link, CallLinked, SameRequest
<1>2. OneWaits(d.calls)
  BY DEF Link, OneWaits, Waits, SameRequest
<1>3. \A n : NoneWaits(c, n) => NoneWaits(d, n)
  BY DEF NoneWaits, Waits, SameRequest
<1>4. QED
  BY <1>1, <1>2, <1>3 DEF Link

LEMMA LinkNewLife ==
  ASSUME NEW c \in ClientType, NEW starts, NEW stops, NEW live, Link(c, starts, stops, live),
         0 \notin starts, NEW d, d = NewLife(c)
  PROVE  /\ Link(d, starts, stops, 0)
         /\ \A n : NoneWaits(c, n) => NoneWaits(d, n)
<1>1. /\ DOMAIN d.calls = DOMAIN c.calls /\ d.running = c.running
      /\ \A i \in DOMAIN c.calls :
           LET k == d.calls[i]
               l == c.calls[i] IN
           /\ SameRequest(k, l) /\ k.why = l.why /\ k.answer = l.answer
           /\ k.awaited = l.awaited /\ k.life = FALSE /\ k.gen = l.gen
  BY NewLifeFacts DEF Same
<1>2. \A i \in DOMAIN d.calls : CallLinked(d.calls[i], d.running, starts, stops, 0)
  BY <1>1 DEF Link, CallLinked, SameRequest
<1>3. OneWaits(d.calls)
  BY <1>1 DEF Link, OneWaits, Waits, SameRequest
<1>4. \A n : NoneWaits(c, n) => NoneWaits(d, n)
  BY <1>1 DEF NoneWaits, Waits, SameRequest
<1>5. QED
  BY <1>2, <1>3, <1>4 DEF Link

LEMMA LinkWithout ==
  ASSUME NEW c \in ClientType, NEW starts, NEW stops, NEW live, Link(c, starts, stops, live),
         NEW i \in DOMAIN c.calls, NEW d, d = Without(c, i)
  PROVE  /\ Link(d, starts, stops, live)
         /\ Waits(c.calls[i]) => NoneWaits(d, c.calls[i].n)
         /\ \A n : NoneWaits(c, n) => NoneWaits(d, n)
<1>1. /\ d.running = c.running
      /\ \A k \in DOMAIN d.calls : /\ Place(i, k) \in DOMAIN c.calls /\ Place(i, k) # i
                                   /\ d.calls[k] = c.calls[Place(i, k)]
      /\ \A k, l \in DOMAIN d.calls : k < l => Place(i, k) < Place(i, l)
  BY WithoutFacts DEF Same
<1>2. \A k \in DOMAIN d.calls : CallLinked(d.calls[k], d.running, starts, stops, live)
  BY <1>1 DEF Link
<1>3. OneWaits(d.calls)
  BY <1>1 DEF Link, OneWaits
<1>4. Waits(c.calls[i]) => NoneWaits(d, c.calls[i].n)
  <2>1. \A j \in DOMAIN c.calls : j \in Nat
    BY DEF ClientType
  <2>2. \A j \in DOMAIN c.calls : j # i /\ Waits(c.calls[j]) /\ Waits(c.calls[i])
                                    => c.calls[j].n # c.calls[i].n
    BY <2>1 DEF Link, OneWaits
  <2>3. QED
    BY <1>1, <2>2 DEF NoneWaits
<1>5. \A n : NoneWaits(c, n) => NoneWaits(d, n)
  BY <1>1 DEF NoneWaits
<1>6. QED
  BY <1>2, <1>3, <1>4, <1>5 DEF Link

(* An operation nothing waits for leaves its call. *)
LEMMA LinkLeft ==
  ASSUME NEW c, NEW starts, NEW stops, NEW live, Link(c, starts, stops, live),
         0 \notin starts, NEW n, NoneWaits(c, n)
  PROVE  Link(c, starts \ {n}, stops \ {n}, IF live = n THEN 0 ELSE live)
<1>1. \A i \in DOMAIN c.calls :
        CallLinked(c.calls[i], c.running, starts \ {n}, stops \ {n}, IF live = n THEN 0 ELSE live)
  BY DEF Link, CallLinked, NoneWaits, Waits
<1>2. QED
  BY <1>1 DEF Link

LEMMA LinkEntered ==
  ASSUME NEW c, NEW starts, NEW stops, Link(c, starts, stops, 0), NEW n, n \notin starts, n # 0,
         0 \notin starts
  PROVE  /\ Link(c, starts \cup {n}, stops, n)
         /\ Link(c, starts, stops \cup {n}, 0)
<1>1. \A i \in DOMAIN c.calls : CallLinked(c.calls[i], c.running, starts \cup {n}, stops, n)
  BY DEF Link, CallLinked
<1>2. \A i \in DOMAIN c.calls : CallLinked(c.calls[i], c.running, starts, stops \cup {n}, 0)
  BY DEF Link, CallLinked
<1>3. QED
  BY <1>1, <1>2 DEF Link

LEMMA LinkAppend ==
  ASSUME NEW c \in ClientType, NEW k \in Calls,
         NEW starts, NEW stops, NEW live, Link(c, starts, stops, live),
         CallLinked(k, c.running, starts, stops, live), Waits(k) => NoneWaits(c, k.n),
         NEW d, d = Appended(c, k)
  PROVE  /\ Link(d, starts, stops, live)
         /\ \A x : NoneWaits(c, x) /\ (Waits(k) => x # k.n) => NoneWaits(d, x)
<1>1. PICK m \in Nat :
         /\ d \in ClientType /\ Same(d, c)
         /\ DOMAIN d.calls = DOMAIN c.calls \cup {m}
         /\ \A i \in DOMAIN c.calls : i < m /\ d.calls[i] = c.calls[i]
         /\ d.calls[m] = k
  BY AppendFacts
<1>2. DOMAIN c.calls \subseteq Nat
  BY DEF ClientType
<1>3. d.running = c.running
  BY <1>1 DEF Same
<1>4. \A i \in DOMAIN d.calls : CallLinked(d.calls[i], d.running, starts, stops, live)
  BY <1>1, <1>3 DEF Link
<1>5. OneWaits(d.calls)
  BY <1>1, <1>2 DEF Link, OneWaits, NoneWaits
<1>6. \A x : NoneWaits(c, x) /\ (Waits(k) => x # k.n) => NoneWaits(d, x)
  BY <1>1 DEF NoneWaits
<1>7. QED
  BY <1>4, <1>5, <1>6 DEF Link

(* A call that an operation waits for.                                     *)
LEMMA AwaitedPut ==
  ASSUME NEW c \in ClientType, ClientOk(c), NEW k \in Calls, Fits(k), Names(k, c.session),
         k.gen, ~IsAnswered(k), NEW starts, NEW stops, NEW live, Link(c, starts, stops, live),
         CallLinked(k, c.running, starts, stops, live), Waits(k) => NoneWaits(c, k.n),
         NEW d, d = Appended(c, k)
  PROVE  /\ d \in ClientType /\ ClientOk(d) /\ Same(d, c) /\ Link(d, starts, stops, live)
         /\ \A x : NoneWaits(c, x) /\ (Waits(k) => x # k.n) => NoneWaits(d, x)
<1>1. d \in ClientType /\ Same(d, c)
  BY AppendFacts
<1>2. ClientOk(d)
  BY OkAppend
<1>3. /\ Link(d, starts, stops, live)
      /\ \A x : NoneWaits(c, x) /\ (Waits(k) => x # k.n) => NoneWaits(d, x)
  BY LinkAppend
<1>4. QED
  BY <1>1, <1>2, <1>3

-----------------------------------------------------------------------------
(* abort() and stop().                                                     *)

LEMMA OneStarts ==
  ASSUME NEW c \in ClientType, NEW starts, NEW stops, NEW live, Link(c, starts, stops, live),
         NEW n, NEW i \in DOMAIN c.calls, NEW j \in DOMAIN c.calls,
         Starts(c.calls[i], n), Waits(c.calls[j]), c.calls[j].n = n
  PROVE  i = j
<1>1. Waits(c.calls[i]) /\ c.calls[i].n = n
  BY DEF Starts, Waits
<1>2. DOMAIN c.calls \subseteq Nat
  BY DEF ClientType
<1>3. QED
  BY <1>1, <1>2 DEF Link, OneWaits

LEMMA AbortedCases ==
  ASSUME NEW c \in ClientType, ClientOk(c), NEW n,
         NEW starts, NEW stops, NEW live, Link(c, starts, stops, live),
         NEW d, d = Aborted(c, n)
  PROVE  \/ /\ \E i \in DOMAIN c.calls : Starts(c.calls[i], n)
            /\ \A i \in DOMAIN c.calls : Starts(c.calls[i], n) => c.calls[i].op = "handshake"
            /\ d = NewGeneration(Orphaned(c, n))
         \/ \E j \in DOMAIN c.calls :
              /\ Starts(c.calls[j], n) /\ c.calls[j].op = "health"
              /\ d = GiveUp(c, j)
         \/ /\ \A i \in DOMAIN c.calls : ~Starts(c.calls[i], n)
            /\ d = c
<1> DEFINE mine == {i \in DOMAIN c.calls : Starts(c.calls[i], n)}
           opening == \E i \in DOMAIN c.calls : Starts(c.calls[i], n) /\ c.calls[i].op = "handshake"
<1>1. \A i, j \in mine : i = j
  BY OneStarts DEF Starts, Waits
<1>2. \A i \in mine : c.calls[i].op \in {"handshake", "health"}
  BY DEF ClientOk, Fits, Starts
<1>3. CASE opening
  <2>1. d = NewGeneration(Orphaned(c, n))
    BY <1>3 DEF Aborted, OnCalls, Orphaned
  <2>2. \A i \in mine : c.calls[i].op = "handshake"
    BY <1>1, <1>3
  <2>3. QED
    BY <1>3, <2>1, <2>2
<1>4. CASE ~opening /\ mine # {}
  <2>1. d = GiveUp(c, CHOOSE i \in mine : TRUE)
    BY <1>4 DEF Aborted, Unawaited
  <2>2. (CHOOSE i \in mine : TRUE) \in mine
    BY <1>4
  <2>3. PICK j \in mine : d = GiveUp(c, j)
    BY <2>1, <2>2
  <2>4. c.calls[j].op = "health"
    BY <1>2, <1>4
  <2>5. QED
    BY <2>3, <2>4
<1>5. CASE ~opening /\ mine = {}
  <2>1. d = c
    BY <1>5 DEF Aborted, Unawaited
  <2>2. QED
    BY <1>5, <2>1
<1>6. QED
  BY <1>3, <1>4, <1>5

LEMMA GivenUp ==
  ASSUME NEW c \in ClientType, ClientOk(c), NEW i \in DOMAIN c.calls, NEW d, d = GiveUp(c, i),
         NEW starts, NEW stops, NEW live, Link(c, starts, stops, live)
  PROVE  /\ d \in ClientType /\ ClientOk(d) /\ Same(d, c) /\ Link(d, starts, stops, live)
         /\ Waits(c.calls[i]) => NoneWaits(d, c.calls[i].n)
         /\ \A x : NoneWaits(c, x) => NoneWaits(d, x)
         /\ \/ ~IsAnswered(c.calls[i]) /\ d = Dropped(c, i)
            \/ IsAnswered(c.calls[i]) /\ d = Without(c, i)
<1>1. CASE IsAnswered(c.calls[i])
  <2>1. d = Without(c, i)
    BY <1>1 DEF GiveUp, IsAnswered
  <2>2. QED
    BY <1>1, <2>1, WithoutFacts, OkWithout, LinkWithout
<1>2. CASE ~IsAnswered(c.calls[i])
  <2>1. d = Dropped(c, i)
    BY <1>2 DEF GiveUp, IsAnswered, Dropped
  <2>2. /\ d \in ClientType /\ Same(d, c)
        /\ DOMAIN d.calls = DOMAIN c.calls
        /\ \A j \in DOMAIN c.calls :
             LET k == d.calls[j]
                 l == c.calls[j] IN
             /\ SameRequest(k, l) /\ k.why = l.why /\ k.answer = l.answer
             /\ k.life = l.life /\ k.gen = l.gen
             /\ (k.awaited <=> l.awaited /\ j # i)
    BY <2>1, DroppedFacts
  <2>3. ClientOk(d)
    BY <2>1, OkDropped
  <2>4. Link(d, starts, stops, live) /\ \A x : NoneWaits(c, x) => NoneWaits(d, x)
    <3>1. d.running => c.running
      BY <2>2 DEF Same
    <3>2. \A j \in DOMAIN c.calls :
            LET k == d.calls[j]
                l == c.calls[j] IN
            /\ SameRequest(k, l) /\ k.life = l.life /\ (k.awaited => l.awaited)
            /\ k.why \in {l.why, "orphan"}
      BY <2>2
    <3>3. QED
      BY <2>2, <3>1, <3>2, LinkKept
  <2>5. Waits(c.calls[i]) => NoneWaits(d, c.calls[i].n)
    <3>1. DOMAIN c.calls \subseteq Nat
      BY DEF ClientType
    <3>2. \A j \in DOMAIN c.calls : j # i /\ Waits(c.calls[j]) /\ Waits(c.calls[i])
                                      => c.calls[j].n # c.calls[i].n
      BY <3>1 DEF Link, OneWaits
    <3>3. QED
      BY <2>2, <3>2 DEF NoneWaits, Waits, SameRequest
  <2>6. QED
    BY <1>2, <2>1, <2>2, <2>3, <2>4, <2>5
<1>3. QED
  BY <1>1, <1>2

LEMMA NewGenerationKeeps ==
  ASSUME NEW c \in ClientType, ClientOk(c), NEW e \in ClientType, e.calls = c.calls,
         NEW starts, NEW stops, NEW live, Link(e, starts, stops, live), NEW d, d = NewGeneration(e)
  PROVE  /\ d \in ClientType /\ ClientOk(d) /\ Same(d, e) /\ Link(d, starts, stops, live)
         /\ \A x : NoneWaits(c, x) => NoneWaits(d, x)
<1>1. /\ d \in ClientType /\ Same(d, e)
      /\ DOMAIN d.calls = DOMAIN e.calls
      /\ \A i \in DOMAIN e.calls :
           LET k == d.calls[i]
               l == e.calls[i] IN
           /\ SameRequest(k, l) /\ k.why = l.why /\ k.answer = l.answer
           /\ k.awaited = l.awaited /\ k.life = l.life /\ k.gen = FALSE
  BY NewGenerationFacts
<1>2. ClientOk(d)
  BY OkNewGeneration
<1>3. d.running => e.running
  BY <1>1 DEF Same
<1>4. \A i \in DOMAIN e.calls :
        LET k == d.calls[i]
            l == e.calls[i] IN
        /\ SameRequest(k, l) /\ k.life = l.life /\ (k.awaited => l.awaited)
        /\ k.why \in {l.why, "orphan"}
  BY <1>1
<1>5. Link(d, starts, stops, live) /\ \A x : NoneWaits(e, x) => NoneWaits(d, x)
  BY <1>1, <1>3, <1>4, LinkKept
<1>6. \A x : NoneWaits(c, x) => NoneWaits(e, x)
  BY DEF NoneWaits
<1>7. QED
  BY <1>1, <1>2, <1>5, <1>6

LEMMA AbortedKeeps ==
  ASSUME NEW c \in ClientType, ClientOk(c), NEW n,
         NEW starts, NEW stops, NEW live, Link(c, starts, stops, live),
         NEW d, d = Aborted(c, n)
  PROVE  /\ d \in ClientType /\ ClientOk(d) /\ Same(d, c) /\ Link(d, starts, stops, live)
         /\ (\E i \in DOMAIN c.calls : Starts(c.calls[i], n)) => NoneWaits(d, n)
         /\ \A x : NoneWaits(c, x) => NoneWaits(d, x)
<1>1. CASE /\ \E i \in DOMAIN c.calls : Starts(c.calls[i], n)
           /\ \A i \in DOMAIN c.calls : Starts(c.calls[i], n) => c.calls[i].op = "handshake"
           /\ d = NewGeneration(Orphaned(c, n))
  <2>1. PICK e : e = Orphaned(c, n)
    OBVIOUS
  <2>2. /\ e \in ClientType /\ Same(e, c)
        /\ DOMAIN e.calls = DOMAIN c.calls
        /\ \A i \in DOMAIN c.calls :
             LET k == e.calls[i]
                 l == c.calls[i] IN
             /\ SameRequest(k, l) /\ k.answer = l.answer /\ k.awaited = l.awaited
             /\ k.life = l.life /\ k.gen = l.gen
             /\ k.why = IF Starts(l, n) THEN "orphan" ELSE l.why
    BY <2>1, OrphanedFacts
  <2>3. ClientOk(e)
    BY <1>1, <2>1, OkOrphaned
  <2>4. Link(e, starts, stops, live) /\ \A x : NoneWaits(c, x) => NoneWaits(e, x)
    <3>1. e.running => c.running
      BY <2>2 DEF Same
    <3>2. \A i \in DOMAIN c.calls :
            LET k == e.calls[i]
                l == c.calls[i] IN
            /\ SameRequest(k, l) /\ k.life = l.life /\ (k.awaited => l.awaited)
            /\ k.why \in {l.why, "orphan"}
      BY <2>2
    <3>3. QED
      BY <2>2, <3>1, <3>2, LinkKept
  <2>5. NoneWaits(e, n)
    <3>1. \A i \in DOMAIN c.calls : Waits(c.calls[i]) /\ c.calls[i].n = n => Starts(c.calls[i], n)
      BY <1>1, OneStarts
    <3>2. QED
      BY <2>2, <3>1 DEF NoneWaits, Waits, SameRequest
  <2>6. d = NewGeneration(e)
    BY <1>1, <2>1
  <2>7. /\ d \in ClientType /\ ClientOk(d) /\ Same(d, e) /\ Link(d, starts, stops, live)
        /\ \A x : NoneWaits(e, x) => NoneWaits(d, x)
    BY <2>2, <2>3, <2>4, <2>6, NewGenerationKeeps
  <2>8. Same(d, c)
    BY <2>2, <2>7 DEF Same
  <2>9. QED
    BY <2>4, <2>5, <2>7, <2>8
<1>2. ASSUME NEW j \in DOMAIN c.calls, Starts(c.calls[j], n), d = GiveUp(c, j)
      PROVE  /\ d \in ClientType /\ ClientOk(d) /\ Same(d, c) /\ Link(d, starts, stops, live)
             /\ NoneWaits(d, n)
             /\ \A x : NoneWaits(c, x) => NoneWaits(d, x)
  <2>1. Waits(c.calls[j]) /\ c.calls[j].n = n
    BY <1>2 DEF Starts, Waits
  <2>2. QED
    BY <1>2, <2>1, GivenUp
<1>3. CASE (\A i \in DOMAIN c.calls : ~Starts(c.calls[i], n)) /\ d = c
  BY <1>3 DEF Same
<1>4. QED
  BY <1>1, <1>2, <1>3, AbortedCases

(* stop(), up to the await of close(): everything before the close.        *)
Quieted(c) ==
  LET idle == NewLife(c) IN IF c.running THEN Stopped(idle) ELSE [idle EXCEPT !.timer = FALSE]

LEMMA QuietedFacts ==
  ASSUME NEW c \in ClientType, NEW f, f = Quieted(c)
  PROVE  /\ f \in ClientType /\ f.calls = NewLife(c).calls /\ f.session = c.session
         /\ f.running = FALSE /\ f.timer = FALSE /\ (f.attached => c.attached)
<1>1. PICK e : e = NewLife(c)
  OBVIOUS
<1>2. e \in ClientType /\ Same(e, c)
  BY <1>1, NewLifeFacts
<1>3. f = IF c.running THEN Stopped(e) ELSE [e EXCEPT !.timer = FALSE]
  BY <1>1 DEF Quieted
<1>4. CASE c.running
  <2>1. f = Stopped(e)
    BY <1>3, <1>4
  <2>2. /\ f \in ClientType /\ f.calls = e.calls /\ f.session = e.session
        /\ f.running = FALSE /\ f.timer = FALSE /\ f.attached = FALSE
    BY <1>2, <2>1 DEF Stopped, Row, Gone, ClientType, Rows
  <2>3. QED
    BY <1>1, <1>2, <2>2 DEF Same
<1>5. CASE ~c.running
  <2>1. c.running = FALSE
    BY <1>5 DEF ClientType
  <2>2. f = [e EXCEPT !.timer = FALSE]
    BY <1>3, <1>5
  <2>3. /\ f \in ClientType /\ f.calls = e.calls /\ f.session = e.session
        /\ f.running = e.running /\ f.timer = FALSE /\ f.attached = e.attached
    BY <1>2, <2>2 DEF ClientType
  <2>4. QED
    BY <1>1, <1>2, <2>1, <2>3 DEF Same
<1>6. QED
  BY <1>4, <1>5

LEMMA StopCalledCases ==
  ASSUME NEW c \in ClientType, NEW why, NEW n, NEW d, d = StopCalled(c, why, n)
  PROVE  \/ c.session = 0 /\ d = NewGeneration(Quieted(c))
         \/ c.session # 0 /\ d = Put(Quieted(c), "shutdown", c.session, why, n, TRUE)
<1>1. PICK f : f = Quieted(c)
  OBVIOUS
<1>2. f.session = c.session
  BY <1>1, QuietedFacts
<1>3. d = Close(f, why, n)
  BY <1>1 DEF StopCalled, Quieted
<1>4. QED
  BY <1>1, <1>2, <1>3 DEF Close, Send

LEMMA QuietedKeeps ==
  ASSUME NEW c \in ClientType, ClientOk(c), NEW starts, NEW stops, NEW live,
         Link(c, starts, stops, live), 0 \notin starts, NEW f, f = Quieted(c)
  PROVE  /\ ClientOk(f) /\ Link(f, starts, stops, 0)
         /\ \A x : NoneWaits(c, x) => NoneWaits(f, x)
<1>1. PICK e : e = NewLife(c)
  OBVIOUS
<1>2. e \in ClientType /\ Same(e, c)
  BY <1>1, NewLifeFacts
<1>3. ClientOk(e)
  BY <1>1, OkNewLife
<1>4. Link(e, starts, stops, 0) /\ \A x : NoneWaits(c, x) => NoneWaits(e, x)
  BY <1>1, LinkNewLife
<1>5. f.calls = e.calls /\ f.session = e.session /\ f.running = FALSE
  BY <1>1, <1>2, QuietedFacts DEF Same
<1>6. ClientOk(f)
  BY <1>3, <1>5 DEF ClientOk
<1>7. Link(f, starts, stops, 0)
  BY <1>4, <1>5 DEF Link, CallLinked
<1>8. \A x : NoneWaits(e, x) => NoneWaits(f, x)
  BY <1>5 DEF NoneWaits
<1>9. QED
  BY <1>4, <1>6, <1>7, <1>8

MayClose(c, stops, why, n) == why = "stop" /\ c.session # 0 => n \in stops /\ NoneWaits(c, n)

OnlyMoreWaits(c, d, why, n) ==
  \A x : NoneWaits(c, x) /\ (why = "stop" /\ c.session # 0 => x # n) => NoneWaits(d, x)

LEMMA StopCalledKeeps ==
  ASSUME NEW c \in ClientType, ClientOk(c), NEW starts, NEW stops, NEW live,
         Link(c, starts, stops, live), 0 \notin starts,
         NEW why \in {"stop", "release"}, NEW n \in Nat,
         MayClose(c, stops, why, n), NEW d, d = StopCalled(c, why, n)
  PROVE  /\ d \in ClientType /\ ClientOk(d) /\ Link(d, starts, stops, 0)
         /\ ~d.running /\ ~d.timer /\ d.session = c.session
         /\ d.attached => c.attached
         /\ OnlyMoreWaits(c, d, why, n)
<1>1. PICK f : f = Quieted(c)
  OBVIOUS
<1>2. /\ f \in ClientType /\ f.session = c.session
      /\ f.running = FALSE /\ f.timer = FALSE /\ (f.attached => c.attached)
  BY <1>1, QuietedFacts
<1>3. ClientOk(f) /\ Link(f, starts, stops, 0) /\ \A x : NoneWaits(c, x) => NoneWaits(f, x)
  BY <1>1, QuietedKeeps
<1>4. CASE c.session = 0 /\ d = NewGeneration(f)
  <2>1. /\ d \in ClientType /\ ClientOk(d) /\ Same(d, f) /\ Link(d, starts, stops, 0)
        /\ \A x : NoneWaits(f, x) => NoneWaits(d, x)
    BY <1>2, <1>3, <1>4, NewGenerationKeeps
  <2>2. QED
    BY <1>2, <1>3, <2>1 DEF Same, OnlyMoreWaits
<1>5. CASE c.session # 0 /\ d = Put(f, "shutdown", c.session, why, n, TRUE)
  <2>1. c.session \in Nat /\ why \in Whys
        /\ "shutdown" \in {"handshake", "health", "attach", "detach", "shutdown"}
    BY DEF ClientType, Whys
  <2>2. PICK k : k = NewCall("shutdown", c.session, why, n, TRUE)
    OBVIOUS
  <2>3. /\ k \in Calls /\ k.op = "shutdown" /\ k.sid = c.session /\ k.why = why /\ k.n = n
        /\ k.gen /\ k.life /\ k.answer = Unanswered /\ ~IsAnswered(k) /\ k.awaited
    BY <2>1, <2>2 DEF NewCall, Calls, IsAnswered, Unanswered, Answer, Whys
  <2>4. d = Appended(f, k)
    BY <1>5, <2>2 DEF Put, NewCall, Appended
  <2>5. Fits(k) /\ Names(k, f.session)
    BY <1>2, <1>5, <2>3 DEF Fits, Names, Unanswered, Answer
  <2>6. Waits(k) <=> why = "stop"
    BY <2>3 DEF Waits
  <2>7. Waits(k) => NoneWaits(f, k.n)
    BY <1>3, <1>5, <2>3, <2>6 DEF MayClose
  <2>8. CallLinked(k, f.running, starts, stops, 0)
    BY <1>5, <2>3 DEF CallLinked, MayClose
  <2>9. /\ d \in ClientType /\ ClientOk(d) /\ Same(d, f) /\ Link(d, starts, stops, 0)
        /\ \A x : NoneWaits(f, x) /\ (Waits(k) => x # k.n) => NoneWaits(d, x)
    BY <1>2, <1>3, <2>3, <2>4, <2>5, <2>7, <2>8, AwaitedPut
  <2>10. QED
    BY <1>2, <1>3, <1>5, <2>3, <2>6, <2>9 DEF Same, OnlyMoreWaits
<1>6. QED
  BY <1>1, <1>4, <1>5, StopCalledCases

LEMMA NewcomerWaitsForNothing ==
  ASSUME NEW c, NEW starts, NEW stops, NEW live, Link(c, starts, stops, live),
         NEW n, n \notin starts, n \notin stops
  PROVE  NoneWaits(c, n)
  BY DEF Link, CallLinked, NoneWaits, Waits

LEMMA StartCalledKeeps ==
  ASSUME NEW c \in ClientType, ClientOk(c), NEW starts, NEW stops, Link(c, starts, stops, 0),
         0 \notin starts, NEW n \in Nat, n # 0, n \notin starts, n \notin stops, ~c.running,
         NEW d, d = StartCalled(c, n)
  PROVE  /\ d \in ClientType /\ ClientOk(d) /\ Link(d, starts \cup {n}, stops, n) /\ Same(d, c)
         /\ \A x : NoneWaits(c, x) /\ x # n => NoneWaits(d, x)
<1>1. PICK e : e = NewLife(c)
  OBVIOUS
<1>2. e \in ClientType /\ Same(e, c)
  BY <1>1, NewLifeFacts
<1>3. ClientOk(e)
  BY <1>1, OkNewLife
<1>4. Link(e, starts, stops, 0) /\ \A x : NoneWaits(c, x) => NoneWaits(e, x)
  BY <1>1, LinkNewLife
<1>5. Link(e, starts \cup {n}, stops, n)
  BY <1>4, LinkEntered
<1>6. NoneWaits(e, n)
  BY <1>4, NewcomerWaitsForNothing
<1>7. d = Put(e, "handshake", 0, "start", n, TRUE)
  BY <1>1 DEF StartCalled, Open
<1>8. PICK k : k = NewCall("handshake", 0, "start", n, TRUE)
  OBVIOUS
<1>9. /\ k \in Calls /\ k.op = "handshake" /\ k.sid = 0 /\ k.why = "start" /\ k.n = n
      /\ k.gen /\ k.life /\ k.answer = Unanswered /\ ~IsAnswered(k) /\ k.awaited
  <2>1. /\ "handshake" \in {"handshake", "health", "attach", "detach", "shutdown"}
        /\ "start" \in Whys /\ 0 \in Nat
    BY DEF Whys
  <2>2. QED
    BY <1>8, <2>1 DEF NewCall, Calls, IsAnswered, Unanswered, Answer, Whys
<1>10. d = Appended(e, k)
  BY <1>7, <1>8 DEF Put, NewCall, Appended
<1>11. Fits(k) /\ Names(k, e.session)
  BY <1>9 DEF Fits, Names, Unanswered, Answer
<1>12. CallLinked(k, e.running, starts \cup {n}, stops, n) /\ Waits(k)
  BY <1>2, <1>9 DEF CallLinked, Same, Waits
<1>13. /\ d \in ClientType /\ ClientOk(d) /\ Same(d, e) /\ Link(d, starts \cup {n}, stops, n)
       /\ \A x : NoneWaits(e, x) /\ (Waits(k) => x # k.n) => NoneWaits(d, x)
  BY <1>2, <1>3, <1>5, <1>6, <1>9, <1>10, <1>11, <1>12, AwaitedPut
<1>14. QED
  BY <1>2, <1>4, <1>9, <1>13 DEF Same

-----------------------------------------------------------------------------
(* What the controller's steps do to the operations out at the backend.    *)

InBackend(kind) == {n \in Begun : ops[n].kind = kind /\ ops[n].phase = "calling"}

\* The start whose backend call the controller waits for.
LiveNow ==
  IF state = "starting" /\ ~disposed /\ ops[operation].phase = "calling" THEN operation ELSE 0

\* In the time between run() and the backend call nothing ends the operation.
AnnouncedIsLive == \A n \in Begun : ops[n].phase = "announcing" => IsLive(n)

MayRun ==
  \/ state = "ready"
  \/ LiveNow # 0
  \/ state = "stopping" /\ ops[operation].phase = "announcing"

LEMMA LiveFacts ==
  ASSUME LifecycleInv
  PROVE  /\ 0 \notin Begun /\ Begun \subseteq Nat
         /\ LiveNow # 0 => /\ LiveNow = operation /\ LiveNow \in InBackend("start")
                           /\ IsLive(LiveNow) /\ ~ops[LiveNow].finishing
                           /\ state = "starting" /\ ~disposed
         /\ \A n \in InBackend("start") : IsLive(n) /\ ~ops[n].finishing => n = LiveNow
         /\ \A n \in InBackend("stop") : IsLive(n) /\ ~ops[n].finishing => state = "stopping"
<1>1. 0 \notin Begun /\ Begun \subseteq Nat
  BY DEF LifecycleInv, TypeOK, Begun
<1>2. LiveNow # 0 => /\ LiveNow = operation /\ LiveNow \in InBackend("start")
                     /\ IsLive(LiveNow) /\ ~ops[LiveNow].finishing
                     /\ state = "starting" /\ ~disposed
  <2> SUFFICES ASSUME LiveNow # 0
               PROVE  /\ LiveNow = operation /\ LiveNow \in InBackend("start")
                      /\ IsLive(LiveNow) /\ ~ops[LiveNow].finishing
                      /\ state = "starting" /\ ~disposed
    OBVIOUS
  <2>1. state = "starting" /\ ~disposed /\ ops[operation].phase = "calling" /\ LiveNow = operation
    BY DEF LiveNow
  <2>2. state \in Busy
    BY <2>1 DEF Busy
  <2>3. /\ operation # 0 /\ ops[operation].kind = "start" /\ ~ops[operation].settled
        /\ ~ops[operation].finishing
    BY <2>1, <2>2 DEF LifecycleInv, BusyIsOwned, CurrentInv
  <2>4. operation \in Begun
    BY <2>3 DEF LifecycleInv, TypeOK, Begun
  <2>5. QED
    BY <2>1, <2>3, <2>4 DEF InBackend, IsLive
<1>3. ASSUME NEW n \in InBackend("start"), IsLive(n), ~ops[n].finishing PROVE n = LiveNow
  <2>1. n \in Begun /\ ops[n].kind = "start" /\ ops[n].phase = "calling" /\ operation = n /\ ~disposed
    BY <1>3 DEF InBackend, IsLive
  <2>2. state = "starting"
    BY <1>1, <1>3, <2>1 DEF LifecycleInv, CurrentInv, BusyOf
  <2>3. QED
    BY <2>1, <2>2 DEF LiveNow
<1>4. ASSUME NEW n \in InBackend("stop"), IsLive(n), ~ops[n].finishing PROVE state = "stopping"
  BY <1>1, <1>4 DEF InBackend, IsLive, LifecycleInv, CurrentInv, BusyOf
<1>5. QED
  BY <1>1, <1>2, <1>3, <1>4

LEMMA PhasesKept ==
  ASSUME Begun' = Begun, \A m \in Begun : ops'[m].kind = ops[m].kind /\ ops'[m].phase = ops[m].phase
  PROVE  InBackend("start")' = InBackend("start") /\ InBackend("stop")' = InBackend("stop")
  BY DEF InBackend

LEMMA BeginsOut ==
  ASSUME LifecycleInv, NEW kind \in Kinds, Begin(kind), state' = BusyOf(kind),
         state \notin Busy, ~disposed, disposed' = disposed, AnnouncedIsLive
  PROVE  /\ InBackend("start")' = InBackend("start") /\ InBackend("stop")' = InBackend("stop")
         /\ LiveNow = 0 /\ LiveNow' = 0
         /\ AnnouncedIsLive'
         /\ kind = "stop" => MayRun'
<1>1. TypeOK
  BY DEF LifecycleInv
<1>2. /\ operationSeq \in Nat
      /\ operation' = operationSeq'
      /\ Begun' = Begun \cup {operationSeq'}
      /\ operationSeq' \notin Begun
      /\ \A n \in Begun : ops'[n] = ops[n]
      /\ ops'[operationSeq'].phase = "announcing"
      /\ ~ops'[operationSeq'].settled
  BY <1>1, BeginFacts
<1>3. ASSUME NEW n \in Begun PROVE ops[n].phase # "announcing"
  <2> SUFFICES ASSUME ops[n].phase = "announcing" PROVE FALSE
    OBVIOUS
  <2>1. operation = n /\ ~ops[n].settled
    BY DEF AnnouncedIsLive, IsLive
  <2>2. operation # 0
    BY <2>1, LiveFacts
  <2>3. ~ops[n].finishing
    BY DEF LifecycleInv, OperationInv
  <2>4. ops[n].kind \in Kinds
    BY <1>1 DEF TypeOK, Operation
  <2>5. state = BusyOf(ops[n].kind)
    BY <2>1, <2>2, <2>3 DEF LifecycleInv, CurrentInv
  <2>6. QED
    BY <2>4, <2>5 DEF BusyOf, Busy, Kinds
<1>4. InBackend("start")' = InBackend("start") /\ InBackend("stop")' = InBackend("stop")
  BY <1>2 DEF InBackend
<1>5. LiveNow = 0
  BY DEF LiveNow, Busy
<1>6. LiveNow' = 0
  BY <1>2 DEF LiveNow
<1>7. AnnouncedIsLive'
  BY <1>2, <1>3 DEF AnnouncedIsLive, IsLive
<1>8. kind = "stop" => MayRun'
  BY <1>2 DEF MayRun, BusyOf
<1>9. QED
  BY <1>4, <1>5, <1>6, <1>7, <1>8

LEMMA AbandonOut ==
  ASSUME LifecycleInv, Abandon, HandlersRan
  PROVE  /\ InBackend("start")' = InBackend("start") /\ InBackend("stop")' = InBackend("stop")
         /\ LiveNow' = 0
         /\ AnnouncedIsLive'
<1>1. TypeOK
  BY DEF LifecycleInv
<1>2. /\ operation' = 0 /\ Begun' = Begun
      /\ \A m \in Begun : ops'[m].kind = ops[m].kind /\ ops'[m].phase = ops[m].phase
  <2>1. /\ operation' = 0 /\ Begun' = Begun
        /\ \A m \in Begun : m # operation => ops'[m] = ops[m]
        /\ operation # 0 => /\ ops'[operation].kind = ops[operation].kind
                            /\ ops'[operation].phase = ops[operation].phase
    BY <1>1, AbandonFacts
  <2>2. 0 \notin Begun
    BY LiveFacts
  <2>3. QED
    BY <2>1, <2>2
<1>3. \A n \in Begun : ops[n].phase # "announcing"
  BY DEF HandlersRan, InSync, Sync
<1>4. InBackend("start")' = InBackend("start") /\ InBackend("stop")' = InBackend("stop")
  BY <1>2, PhasesKept
<1>5. LiveNow' = 0
  BY <1>2 DEF LiveNow
<1>6. AnnouncedIsLive'
  BY <1>2, <1>3 DEF AnnouncedIsLive
<1>7. QED
  BY <1>4, <1>5, <1>6

LEMMA InvokeOut ==
  ASSUME LifecycleInv, AnnouncedIsLive, NEW n \in Begun, InvokeBackend(n)
  PROVE  /\ LiveNow = 0 /\ ~disposed /\ disposed' = disposed /\ state' = state
         /\ ops[n].kind = "start" =>
              /\ state = "starting" /\ ~MayRun
              /\ n \notin InBackend("start") /\ n \notin InBackend("stop")
              /\ InBackend("start")' = InBackend("start") \cup {n}
              /\ InBackend("stop")' = InBackend("stop") /\ LiveNow' = n
         /\ ops[n].kind # "start" =>
              /\ state = "stopping" /\ n \notin InBackend("start") /\ n \notin InBackend("stop")
              /\ InBackend("start")' = InBackend("start")
              /\ InBackend("stop")' = InBackend("stop") \cup {n} /\ LiveNow' = 0
         /\ AnnouncedIsLive'
<1>1. TypeOK /\ n \in Nat /\ n # 0
  BY LiveFacts DEF LifecycleInv
<1>2. ops[n].phase = "announcing" /\ IsLive(n)
  BY DEF InvokeBackend, AnnouncedIsLive
<1>3. operation = n /\ ~ops[n].settled /\ ~disposed
  BY <1>2 DEF IsLive
<1>4. /\ ops' = [ops EXCEPT ![n].phase = "calling"] /\ Begun' = Begun
      /\ UNCHANGED <<state, operation, disposed>>
  BY <1>2 DEF InvokeBackend, SnapshotUnchanged, Begun
<1>5. ops[n] \in Operation
  BY <1>1 DEF TypeOK
<1>6. /\ ops'[n].phase = "calling" /\ ops'[n].kind = ops[n].kind
      /\ \A m \in Begun : m # n => ops'[m] = ops[m]
  BY <1>1, <1>4, <1>5 DEF TypeOK, Operation
<1>7. ~ops[n].finishing
  BY <1>2 DEF LifecycleInv, OperationInv
<1>8. state = BusyOf(ops[n].kind)
  BY <1>1, <1>2, <1>3, <1>7 DEF LifecycleInv, CurrentInv
<1>9. ops[n].kind \in {"start", "stop"}
  BY <1>5 DEF Operation, Kinds
<1>10. LiveNow = 0
  BY <1>2, <1>3 DEF LiveNow
<1>11. n \notin InBackend("start") /\ n \notin InBackend("stop")
  BY <1>2 DEF InBackend
<1>12. ops[n].kind = "start" =>
         /\ InBackend("start")' = InBackend("start") \cup {n}
         /\ InBackend("stop")' = InBackend("stop")
  BY <1>4, <1>6, <1>11 DEF InBackend
<1>13. ops[n].kind # "start" =>
         /\ InBackend("start")' = InBackend("start")
         /\ InBackend("stop")' = InBackend("stop") \cup {n}
  BY <1>4, <1>6, <1>9, <1>11 DEF InBackend
<1>14. ops[n].kind = "start" => LiveNow' = n /\ state = "starting"
  BY <1>3, <1>4, <1>6, <1>8 DEF LiveNow, BusyOf
<1>15. ops[n].kind # "start" => LiveNow' = 0 /\ state = "stopping"
  BY <1>4, <1>8 DEF LiveNow, BusyOf
<1>16. AnnouncedIsLive'
  <2>1. \A m \in Begun : m # n => ops[m].phase # "announcing"
    BY <1>3 DEF AnnouncedIsLive, IsLive
  <2>2. QED
    BY <1>4, <1>6, <2>1 DEF AnnouncedIsLive
<1>17. ops[n].kind = "start" => ~MayRun
  BY <1>10, <1>14 DEF MayRun
<1>18. QED
  BY <1>3, <1>4, <1>10, <1>11, <1>12, <1>13, <1>14, <1>15, <1>16, <1>17

LEMMA TimerOut ==
  ASSUME LifecycleInv, AnnouncedIsLive, NEW n \in Begun, ~ops[n].settled, TimerFires(n)
  PROVE  /\ InBackend("start")' = InBackend("start") /\ InBackend("stop")' = InBackend("stop")
         /\ LiveNow' = 0 /\ state' = "error" /\ disposed' = disposed
         /\ AnnouncedIsLive'
         /\ operation = n /\ operation' = n /\ ops'[n].finishing
<1>1. TypeOK /\ n \in Nat /\ n # 0
  BY LiveFacts DEF LifecycleInv
<1>2. ops[n] \in Operation
  BY <1>1 DEF TypeOK
<1>3. /\ ops' = [ops EXCEPT ![n].timer = FALSE, ![n].finishing = TRUE] /\ Begun' = Begun
      /\ state' = "error" /\ UNCHANGED <<operation, disposed>>
  BY DEF TimerFires, MoveTo, Begun
<1>4. /\ ops'[n].phase = ops[n].phase /\ ops'[n].kind = ops[n].kind /\ ops'[n].finishing
      /\ \A m \in Begun : m # n => ops'[m] = ops[m]
  BY <1>1, <1>2, <1>3 DEF TypeOK, Operation
<1>5. \A m \in Begun : ops[m].phase # "announcing"
  BY DEF TimerFires, Settled, HandlersRan, InSync, Sync
<1>6. InBackend("start")' = InBackend("start") /\ InBackend("stop")' = InBackend("stop")
  BY <1>3, <1>4, PhasesKept
<1>7. LiveNow' = 0
  BY <1>3 DEF LiveNow
<1>8. AnnouncedIsLive'
  BY <1>3, <1>4, <1>5 DEF AnnouncedIsLive
<1>9. operation = n
  BY DEF TimerFires, Settled, HandlersRan, InSync, Sync, LifecycleInv, OperationInv
<1>10. QED
  BY <1>3, <1>4, <1>6, <1>7, <1>8, <1>9

LEMMA HandlersOut ==
  ASSUME LifecycleInv, AnnouncedIsLive, NEW n \in Begun, Settle(n) \/ FinishFailed(n)
  PROVE  /\ InBackend("start")' = InBackend("start") /\ InBackend("stop")' = InBackend("stop")
         /\ LiveNow' = LiveNow /\ state' = state /\ disposed' = disposed
         /\ AnnouncedIsLive'
         /\ MayRun /\ ~disposed => MayRun'
<1>1. TypeOK /\ n \in Nat /\ n # 0
  BY LiveFacts DEF LifecycleInv
<1>2. ops[n] \in Operation
  BY <1>1 DEF TypeOK
<1>3. PICK op : /\ ops' = [ops EXCEPT ![n] = op]
                /\ op.kind = ops[n].kind
                /\ op.phase = IF ops[n].phase = "answered" THEN "over" ELSE ops[n].phase
                /\ operation' = operation \/ (operation = n /\ operation' = 0)
                /\ ops[n].phase = "answered" \/ ops[n].finishing
                /\ ops[n].finishing => ~(ops[n].phase = "answered")
                /\ Begun' = Begun /\ UNCHANGED <<state, disposed>>
  <2>1. CASE Settle(n)
    <3> DEFINE over == [ops[n] EXCEPT !.phase = "over"]
    <3>1. over.phase = "over" /\ over.kind = ops[n].kind /\ over \in Operation
      BY <1>2 DEF Operation
    <3>2. ops[n].verdict \in Results
      BY <1>2, <2>1 DEF Operation, Settle, LifecycleInv, OperationInv
    <3>3. "cancelled" \in Results
      BY DEF Results
    <3>4. ~ops[n].finishing
      BY <2>1 DEF Settle, LifecycleInv, OperationInv
    <3>5. /\ Begun' = Begun /\ UNCHANGED <<state, disposed>> /\ ops[n].phase = "answered"
      BY <2>1 DEF Settle, SnapshotUnchanged, Begun
    <3>6. \/ ops' = [ops EXCEPT ![n] = over] /\ operation' = operation
          \/ ops' = [ops EXCEPT ![n] = Resolve(over, "cancelled")] /\ operation' = operation
          \/ /\ ops' = [ops EXCEPT ![n] = Cleared(Resolve(over, ops[n].verdict))]
             /\ operation = n /\ operation' = 0
      BY <2>1 DEF Settle, Finish
    <3> HIDE DEF over
    <3>7. /\ Resolve(over, "cancelled").phase = "over" /\ Resolve(over, "cancelled").kind = ops[n].kind
          /\ Cleared(Resolve(over, ops[n].verdict)).phase = "over"
          /\ Cleared(Resolve(over, ops[n].verdict)).kind = ops[n].kind
      <4>1. PICK r \in Results : r = "cancelled"
        BY <3>3
      <4>2. PICK v \in Results : v = ops[n].verdict
        BY <3>2
      <4>3. Resolve(over, r).kind = over.kind /\ Resolve(over, r).phase = over.phase
        BY <3>1, ResolvedFacts
      <4>4. Cleared(Resolve(over, v)).kind = over.kind /\ Cleared(Resolve(over, v)).phase = over.phase
        BY <3>1, ResolvedFacts
      <4>5. QED
        BY <3>1, <4>1, <4>2, <4>3, <4>4
    <3>8. QED
      BY <3>1, <3>4, <3>5, <3>6, <3>7
  <2>2. CASE FinishFailed(n)
    <3> DEFINE done == [ops[n] EXCEPT !.finishing = FALSE]
    <3>1. done.phase = ops[n].phase /\ done.kind = ops[n].kind /\ done \in Operation
      BY <1>2 DEF Operation
    <3>2. "failed" \in Results
      BY DEF Results
    <3>3. ops[n].finishing /\ ops[n].phase # "answered"
      BY <2>2 DEF FinishFailed, LifecycleInv, OperationInv
    <3>4. /\ Begun' = Begun /\ UNCHANGED <<state, disposed>>
          /\ ops' = [ops EXCEPT ![n] = Cleared(Resolve(done, "failed"))]
          /\ operation' = IF operation = n THEN 0 ELSE operation
      BY <2>2 DEF FinishFailed, Finish, SnapshotUnchanged, Begun
    <3> HIDE DEF done
    <3>5. /\ Cleared(Resolve(done, "failed")).phase = ops[n].phase
          /\ Cleared(Resolve(done, "failed")).kind = ops[n].kind
      BY <3>1, <3>2, ResolvedFacts
    <3>6. QED
      BY <3>3, <3>4, <3>5
  <2>3. QED
    BY <2>1, <2>2
<1>4. ops'[n] = op /\ \A m \in Begun : m # n => ops'[m] = ops[m]
  BY <1>1, <1>3 DEF TypeOK
<1>5. InBackend("start")' = InBackend("start") /\ InBackend("stop")' = InBackend("stop")
  BY <1>3, <1>4 DEF InBackend
<1>6. ops[n].phase # "announcing"
  BY <1>3 DEF LifecycleInv, OperationInv
<1>7. state \in Busy /\ ~disposed => n # operation /\ operation \in Begun
  <2>1. state \in Busy /\ ~disposed => /\ operation # 0 /\ ~ops[operation].finishing
                                       /\ ops[operation].phase \in {"announcing", "calling"}
    BY DEF LifecycleInv, BusyIsOwned, CurrentInv
  <2>2. operation # 0 => operation \in Begun
    BY <1>1 DEF TypeOK, Begun
  <2>3. QED
    BY <1>3, <2>1, <2>2
<1>8. LiveNow' = LiveNow
  BY <1>3, <1>4, <1>7 DEF LiveNow, Busy
<1>9. AnnouncedIsLive'
  BY <1>3, <1>4, <1>6 DEF AnnouncedIsLive, IsLive
<1>10. MayRun /\ ~disposed => MayRun'
  BY <1>3, <1>4, <1>7, <1>8 DEF MayRun, Busy
<1>11. QED
  BY <1>3, <1>5, <1>8, <1>9, <1>10

(* The backend's answer to operation n, when it can be one of its kind.    *)
Verdicts(kind) == IF kind = "start" THEN {"started", "cancelled", "failed"} ELSE {"stopped", "failed"}

LEMMA TellsOut ==
  ASSUME LifecycleInv, NEW n \in Begun, HandlersRan, NEW v \in Verdicts(ops[n].kind), Tells(n, v)
  PROVE  /\ LifecycleInv'
         /\ BackendAnswers(n)
         /\ Begun' = Begun /\ disposed' = disposed
         /\ InBackend("start")' = InBackend("start") \ {n}
         /\ InBackend("stop")' = InBackend("stop") \ {n}
         /\ AnnouncedIsLive'
         /\ LiveNow' = IF LiveNow = n THEN 0 ELSE LiveNow
         /\ \/ /\ LiveNow = n
               /\ v = "started" => state' = "ready"
               /\ v # "started" => state' \in {"stopped", "error"}
            \/ /\ LiveNow = 0 /\ LiveNow # n /\ state = "stopping"
               /\ ops[n].kind = "stop" /\ state' \in {"stopped", "error"}
            \/ LiveNow # n /\ state' = state /\ operation' = operation
               /\ (state = "stopping" /\ ~disposed => ops'[operation].phase # "announcing")
<1>1. TypeOK /\ n \in Nat /\ n # 0
  BY LiveFacts DEF LifecycleInv
<1>2. ops[n] \in Operation
  BY <1>1 DEF TypeOK
<1>3. ops[n].kind \in {"start", "stop"}
  BY <1>2 DEF Operation, Kinds
<1>4. ops[n].phase = "calling" /\ UNCHANGED <<operation, operationSeq, waiting, startupHandled, disposed>>
  BY DEF Tells, StartAnswered, StopAnswered, LateAnswer, AnswerFrame
<1>5. \/ StartAnswered(n, v) /\ v \in {"started", "cancelled", "failed"}
      \/ StopAnswered(n, v) /\ v \in {"stopped", "failed"}
      \/ LateAnswer(n)
  BY DEF Tells, Verdicts, StartAnswered, StopAnswered
<1>6. BackendAnswers(n)
  BY <1>5 DEF BackendAnswers
<1>7. LifecycleInv'
  BY <1>6, AnswerInv
<1>8. PICK r \in Results : Answered(n, r)
  BY <1>5 DEF StartAnswered, StopAnswered, LateAnswer, Results
<1>9. PICK op \in Operation :
           /\ ops' = [ops EXCEPT ![n] = op]
           /\ op.kind = ops[n].kind /\ op.phase = "answered"
  BY <1>1, <1>8, AnsweredFacts
<1>10. ops'[n] = op /\ \A m \in Begun : m # n => ops'[m] = ops[m]
  BY <1>1, <1>9 DEF TypeOK
<1>11. Begun' = Begun
  BY <1>4 DEF Begun
<1>12. /\ InBackend("start")' = InBackend("start") \ {n}
       /\ InBackend("stop")' = InBackend("stop") \ {n}
  BY <1>9, <1>10, <1>11 DEF InBackend
<1>13. \A m \in Begun : ops[m].phase # "announcing" /\ ~ops[m].finishing
  BY DEF HandlersRan, InSync, Sync
<1>14. \A m \in Begun : ops'[m].phase # "announcing"
  BY <1>9, <1>10, <1>13
<1>15. AnnouncedIsLive'
  BY <1>11, <1>14 DEF AnnouncedIsLive
<1>16. operation # 0 => operation \in Begun
  BY <1>1 DEF TypeOK, Begun
<1>17. CASE StartAnswered(n, v) /\ v \in {"started", "cancelled", "failed"}
  <2>1. IsLive(n) /\ ops[n].kind = "start"
    BY <1>17 DEF StartAnswered
  <2>2. n \in InBackend("start")
    BY <1>4, <2>1 DEF InBackend
  <2>3. LiveNow = n
    BY <1>13, <2>1, <2>2, LiveFacts
  <2>4. /\ v = "started" => state' = "ready"
        /\ v # "started" => state' \in {"stopped", "error"}
    BY <1>17 DEF StartAnswered, MoveTo
  <2>5. LiveNow' = 0
    BY <2>4 DEF LiveNow
  <2>6. QED
    BY <1>4, <1>6, <1>7, <1>11, <1>12, <1>15, <2>3, <2>4, <2>5
<1>18. CASE StopAnswered(n, v) /\ v \in {"stopped", "failed"}
  <2>1. IsLive(n) /\ ops[n].kind = "stop"
    BY <1>18 DEF StopAnswered
  <2>2. n \in InBackend("stop")
    BY <1>4, <2>1 DEF InBackend
  <2>3. state = "stopping"
    BY <1>13, <2>1, <2>2, LiveFacts
  <2>4. state' \in {"stopped", "error"}
    BY <1>18 DEF StopAnswered, MoveTo
  <2>5. LiveNow = 0 /\ LiveNow' = 0
    BY <2>3, <2>4 DEF LiveNow
  <2>6. QED
    BY <1>1, <1>4, <1>6, <1>7, <1>11, <1>12, <1>15, <2>1, <2>3, <2>4, <2>5
<1>19. CASE LateAnswer(n)
  <2>1. ~IsLive(n) /\ state' = state
    BY <1>19 DEF LateAnswer, SnapshotUnchanged
  <2>2. LiveNow # n
    BY <1>1, <2>1, LiveFacts
  <2>3. LiveNow' = LiveNow
    <3>1. state = "starting" /\ ~disposed => operation \in Begun /\ operation # n
      <4>1. state = "starting" /\ ~disposed => operation # 0 /\ ~ops[operation].settled
        BY DEF LifecycleInv, BusyIsOwned, Busy
      <4>2. QED
        BY <1>16, <2>1, <4>1 DEF IsLive
    <3>2. QED
      BY <1>4, <1>10, <2>1, <3>1 DEF LiveNow
  <2>4. state = "stopping" /\ ~disposed => ops'[operation].phase # "announcing"
    <3>1. state = "stopping" /\ ~disposed => operation # 0
      BY DEF LifecycleInv, BusyIsOwned, Busy
    <3>2. QED
      BY <1>14, <1>16, <3>1
  <2>5. QED
    BY <1>1, <1>4, <1>6, <1>7, <1>11, <1>12, <1>15, <2>1, <2>2, <2>3, <2>4
<1>20. QED
  BY <1>5, <1>17, <1>18, <1>19

-----------------------------------------------------------------------------
(* The part of the invariant that holds whatever goes wrong.               *)

StartsOut == InBackend("start") \ returned
StopsOut  == InBackend("stop") \ returned

LinkInv ==
  /\ Link(client, StartsOut, StopsOut, LiveNow)
  /\ returned \subseteq InBackend("start") \cup InBackend("stop")
  /\ LiveNow \notin returned
  /\ AnnouncedIsLive

IsWatching(k) == k.awaited /\ k.why \in {"check", "recover"}

Watched(c) == c.timer \/ \E i \in DOMAIN c.calls : IsWatching(c.calls[i])

(* A running backend is the one shown, and one shown as ready is watched.  *)
RunOk(c, st, may) == (st = "ready" => c.running /\ Watched(c)) /\ (c.running => may)

RunInv == ~disposed => RunOk(client, state, MayRun)

SysCore == LifecycleInv /\ SysTypeOK /\ ClientOk(client) /\ LinkInv /\ RunInv

LEMMA CoreIsEnough == ASSUME SysCore PROVE SysInv
<1>1. SysTypeOK
  BY DEF SysCore
<1>2. RunningIsShown
  <2> SUFFICES ASSUME Turn, ~disposed
               PROVE  /\ state = "ready" => client.running
                      /\ client.running => state \in {"ready", "starting"}
    BY DEF RunningIsShown
  <2>1. RunOk(client, state, MayRun)
    BY DEF SysCore, RunInv
  <2>2. LiveNow # 0 => state = "starting"
    BY LiveFacts DEF SysCore
  <2>3. state = "stopping" => ops[operation].phase # "announcing"
    <3>1. state = "stopping" => operation # 0
      BY DEF SysCore, LifecycleInv, BusyIsOwned, Busy
    <3>2. operation # 0 => operation \in Begun
      BY DEF SysCore, LifecycleInv, TypeOK, Begun
    <3>3. \A m \in Begun : ops[m].phase # "announcing"
      BY DEF Turn, Settled, HandlersRan, InSync, Sync
    <3>4. QED
      BY <3>1, <3>2, <3>3
  <2>4. MayRun => state \in {"ready", "starting"}
    BY <2>2, <2>3 DEF MayRun
  <2>5. QED
    BY <2>1, <2>4 DEF RunOk
<1>3. ReadyIsWatched
  <2> SUFFICES ASSUME state = "ready", ~disposed
               PROVE  \/ client.timer
                      \/ \E i \in DOMAIN calls : calls[i].awaited /\ calls[i].why \in {"check", "recover"}
    BY DEF ReadyIsWatched
  <2>1. Watched(client)
    BY DEF SysCore, RunInv, RunOk
  <2>2. QED
    BY <2>1 DEF Watched, IsWatching, calls
<1>4. QED
  BY <1>1, <1>2, <1>3 DEF SysInv

LEMMA ImageIsSmall ==
  ASSUME NEW k \in Nat, NEW f, DOMAIN f = 1 .. k
  PROVE  /\ IsFiniteSet({f[i] : i \in 1 .. k})
         /\ Cardinality({f[i] : i \in 1 .. k}) <= k
<1> DEFINE R == {f[i] : i \in 1 .. k}
<1>1. PICK m \in Nat : m = k
  OBVIOUS
<1>2. IsFiniteSet(1 .. k) /\ Cardinality(1 .. k) = k
  <2>1. PICK one \in Int : one = 1
    OBVIOUS
  <2>2. IsFiniteSet(one .. k) /\ Cardinality(one .. k) = IF one > k THEN 0 ELSE k - one + 1
    BY FS_Interval
  <2>3. (IF one > k THEN 0 ELSE k - one + 1) = k
    BY <2>1
  <2>4. QED
    BY <2>1, <2>2, <2>3
<1>3. [i \in 1 .. k |-> f[i]] \in Surjection(1 .. k, R)
  BY Fun_IsSurj
<1>4. QED
  BY <1>2, <1>3, FS_Surjection


LEMMA SmallUnion ==
  ASSUME NEW S, NEW T, IsFiniteSet(S), IsFiniteSet(T), NEW k \in Nat, NEW l \in Nat,
         Cardinality(S) <= k, Cardinality(T) <= l
  PROVE  IsFiniteSet(S \cup T) /\ Cardinality(S \cup T) <= k + l
<1>1. IsFiniteSet(S \cup T) /\ Cardinality(S \cup T) = Cardinality(S) + Cardinality(T) - Cardinality(S \cap T)
  BY FS_Union
<1>2. IsFiniteSet(S \cap T)
  BY FS_Intersection
<1>3. Cardinality(S) \in Nat /\ Cardinality(T) \in Nat /\ Cardinality(S \cap T) \in Nat
  BY <1>2, FS_CardinalityType
<1>4. QED
  BY <1>1, <1>3

(* A new session gets an id that is in use nowhere.                        *)
LEMMA FreshIdIsFresh ==
  ASSUME SysTypeOK
  PROVE  FreshId \in Nat /\ FreshId # 0 /\ FreshId \notin IdsInUse
<1> DEFINE k == Len(calls)
           A == {service.id, client.session}
           B == {calls[i].sid : i \in 1 .. k}
           C == {calls[i].answer.id : i \in 1 .. k}
<1>1. k \in Nat /\ DOMAIN calls = 1 .. k
  BY DEF SysTypeOK, ClientType, calls
<1>2. IsFiniteSet(A) /\ Cardinality(A) <= 2
  <2>1. IsFiniteSet({service.id}) /\ Cardinality({service.id}) = 1
    BY FS_Singleton
  <2>2. IsFiniteSet({client.session}) /\ Cardinality({client.session}) = 1
    BY FS_Singleton
  <2>3. PICK one \in Nat : one = 1
    OBVIOUS
  <2>3a. PICK S, T : S = {service.id} /\ T = {client.session}
    OBVIOUS
  <2>3b. IsFiniteSet(S) /\ Cardinality(S) <= one /\ IsFiniteSet(T) /\ Cardinality(T) <= one
    BY <2>1, <2>2, <2>3, <2>3a
  <2>3c. IsFiniteSet(S \cup T) /\ Cardinality(S \cup T) <= one + one
    BY <2>3, <2>3b, SmallUnion
  <2>4. IsFiniteSet({service.id} \cup {client.session}) /\ Cardinality({service.id} \cup {client.session}) <= one + one
    BY <2>3a, <2>3c
  <2>5. A = {service.id} \cup {client.session}
    OBVIOUS
  <2>6. QED
    BY <2>3, <2>4, <2>5
<1>3. IsFiniteSet(B) /\ Cardinality(B) <= k
  <2>1. PICK f : f = [i \in 1 .. k |-> calls[i].sid]
    OBVIOUS
  <2>2. DOMAIN f = 1 .. k /\ B = {f[i] : i \in 1 .. k}
    BY <2>1
  <2>3. QED
    BY <1>1, <2>2, ImageIsSmall
<1>4. IsFiniteSet(C) /\ Cardinality(C) <= k
  <2>1. PICK f : f = [i \in 1 .. k |-> calls[i].answer.id]
    OBVIOUS
  <2>2. DOMAIN f = 1 .. k /\ C = {f[i] : i \in 1 .. k}
    BY <2>1
  <2>3. QED
    BY <1>1, <2>2, ImageIsSmall
<1>5. IdsInUse = (A \cup B) \cup C
  BY <1>1 DEF IdsInUse
<1> HIDE DEF A, B, C, k
<1>6. IsFiniteSet(IdsInUse) /\ Cardinality(IdsInUse) <= (2 + k) + k
  <2>1. PICK two \in Nat : two = 2
    OBVIOUS
  <2>2. IsFiniteSet(A \cup B) /\ Cardinality(A \cup B) <= two + k
    BY <1>1, <1>2, <1>3, <2>1, SmallUnion
  <2>3. PICK sum \in Nat : sum = two + k
    BY <1>1, <2>1
  <2>4. IsFiniteSet((A \cup B) \cup C) /\ Cardinality((A \cup B) \cup C) <= sum + k
    BY <1>1, <1>4, <2>2, <2>3, SmallUnion
  <2>5. QED
    BY <1>5, <2>1, <2>3, <2>4
<1>7. \E id \in 1 .. 2 * k + 3 : id \notin IdsInUse
  <2> SUFFICES ASSUME 1 .. 2 * k + 3 \subseteq IdsInUse PROVE FALSE
    OBVIOUS
  <2>1. PICK one \in Int, last \in Int : one = 1 /\ last = 2 * k + 3
    BY <1>1
  <2>2. Cardinality(one .. last) = IF one > last THEN 0 ELSE last - one + 1
    BY FS_Interval
  <2>3. Cardinality(one .. last) <= Cardinality(IdsInUse)
    BY <1>6, <2>1, FS_Subset
  <2>4. Cardinality(IdsInUse) \in Nat
    BY <1>6, FS_CardinalityType
  <2>5. (IF one > last THEN 0 ELSE last - one + 1) = 2 * k + 3
    BY <1>1, <2>1
  <2>6. 2 * k + 3 <= Cardinality(IdsInUse)
    BY <2>2, <2>3, <2>5
  <2>7. QED
    BY <1>1, <1>6, <2>4, <2>6
<1>8. FreshId \in 1 .. 2 * k + 3 /\ FreshId \notin IdsInUse
  BY <1>7 DEF FreshId, k
<1>9. QED
  BY <1>1, <1>8


-----------------------------------------------------------------------------
(* What the pieces of a continuation keep of all this.                     *)

Sound(c, starts, stops, live) == c \in ClientType /\ ClientOk(c) /\ Link(c, starts, stops, live)

Meek(d, c) ==
  /\ d.running = c.running
  /\ \A x : NoneWaits(c, x) => NoneWaits(d, x)
  /\ Watched(c) => Watched(d)

LEMMA KeepsFields ==
  ASSUME NEW starts, NEW stops, NEW live, NEW c, Sound(c, starts, stops, live),
         NEW d \in ClientType, d.calls = c.calls, d.session = c.session,
         d.running = c.running, d.timer = c.timer
  PROVE  Sound(d, starts, stops, live) /\ Meek(d, c)
<1>1. ClientOk(d)
  BY DEF Sound, ClientOk
<1>2. Link(d, starts, stops, live)
  BY DEF Sound, Link
<1>3. Meek(d, c)
  BY DEF Meek, NoneWaits, Watched
<1>4. QED
  BY <1>1, <1>2, <1>3 DEF Sound

LEMMA KeepsSchedule ==
  ASSUME NEW starts, NEW stops, NEW live, NEW c, Sound(c, starts, stops, live),
         NEW d, d = Schedule(c)
  PROVE  /\ Sound(d, starts, stops, live) /\ d.session = c.session /\ d.running = c.running
         /\ d.attached = c.attached
         /\ \A x : NoneWaits(c, x) => NoneWaits(d, x)
         /\ c.running => Watched(d)
<1>1. /\ d \in ClientType /\ d.calls = c.calls /\ d.session = c.session /\ d.running = c.running
      /\ d.timer = c.running /\ d.attached = c.attached
  BY DEF Sound, Schedule, ClientType
<1>2. ClientOk(d) /\ Link(d, starts, stops, live)
  BY <1>1 DEF Sound, ClientOk, Link
<1>3. QED
  BY <1>1, <1>2 DEF Sound, NoneWaits, Watched

LEMMA WatchedKept ==
  ASSUME NEW c, NEW d, d.timer = c.timer, DOMAIN c.calls \subseteq DOMAIN d.calls,
         \A i \in DOMAIN c.calls : /\ d.calls[i].awaited = c.calls[i].awaited
                                   /\ d.calls[i].why = c.calls[i].why
  PROVE  Watched(c) => Watched(d)
  BY DEF Watched, IsWatching

LEMMA KeepsForget ==
  ASSUME NEW starts, NEW stops, NEW live, NEW c, Sound(c, starts, stops, live),
         NEW id \in Nat, NEW d, d = NewGeneration([c EXCEPT !.session = id])
  PROVE  /\ Sound(d, starts, stops, live) /\ Meek(d, c)
         /\ d.session = id /\ d.timer = c.timer /\ d.attached = c.attached
<1>1. PICK e : e = [c EXCEPT !.session = id]
  OBVIOUS
<1>2. /\ e \in ClientType /\ e.calls = c.calls /\ e.session = id /\ e.running = c.running
      /\ e.timer = c.timer /\ e.attached = c.attached
  BY <1>1 DEF Sound, ClientType
<1>2a. d = NewGeneration(e) /\ c \in ClientType /\ ClientOk(c)
  BY <1>1 DEF Sound
<1>3. Link(e, starts, stops, live)
  BY <1>2 DEF Sound, Link
<1>4. /\ d \in ClientType /\ ClientOk(d) /\ Same(d, e) /\ Link(d, starts, stops, live)
      /\ \A x : NoneWaits(c, x) => NoneWaits(d, x)
  BY <1>2, <1>2a, <1>3, NewGenerationKeeps
<1>5. Watched(c) => Watched(d)
  <2>1. /\ DOMAIN d.calls = DOMAIN e.calls
        /\ \A i \in DOMAIN e.calls :
             LET k == d.calls[i]
                 l == e.calls[i] IN
             /\ SameRequest(k, l) /\ k.why = l.why /\ k.answer = l.answer
             /\ k.awaited = l.awaited /\ k.life = l.life /\ k.gen = FALSE
    BY <1>2, <1>2a, NewGenerationFacts
  <2>2. d.timer = c.timer
    BY <1>2, <1>4 DEF Same
  <2>3. QED
    BY <1>2, <2>1, <2>2, WatchedKept
<1>6. QED
  BY <1>2, <1>4, <1>5 DEF Sound, Meek, Same

LEMMA KeepsAppend ==
  ASSUME NEW starts, NEW stops, NEW live, NEW c, Sound(c, starts, stops, live),
         NEW k \in Calls, Fits(k), Names(k, c.session), k.gen, ~IsAnswered(k),
         k.why \notin {"start", "stop", "failed"}, NEW d, d = Appended(c, k)
  PROVE  /\ Sound(d, starts, stops, live) /\ Meek(d, c)
         /\ Same(d, c)
         /\ IsWatching(k) => Watched(d)
<1>1. c \in ClientType /\ ClientOk(c) /\ Link(c, starts, stops, live)
  BY DEF Sound
<1>2. PICK m \in Nat :
         /\ d \in ClientType /\ Same(d, c)
         /\ DOMAIN d.calls = DOMAIN c.calls \cup {m}
         /\ \A i \in DOMAIN c.calls : i < m /\ d.calls[i] = c.calls[i]
         /\ d.calls[m] = k
  BY <1>1, AppendFacts
<1>3. CallLinked(k, c.running, starts, stops, live) /\ ~Waits(k)
  BY DEF CallLinked, Waits
<1>4. /\ d \in ClientType /\ ClientOk(d) /\ Same(d, c) /\ Link(d, starts, stops, live)
      /\ \A x : NoneWaits(c, x) /\ (Waits(k) => x # k.n) => NoneWaits(d, x)
  <2>1. Waits(k) => NoneWaits(c, k.n)
    BY <1>3
  <2>2. QED
    BY <1>1, <1>3, <2>1, AwaitedPut
<1>5. Watched(c) => Watched(d)
  <2>1. d.timer = c.timer
    BY <1>2 DEF Same
  <2>2. /\ DOMAIN c.calls \subseteq DOMAIN d.calls
        /\ \A i \in DOMAIN c.calls : d.calls[i].awaited = c.calls[i].awaited /\ d.calls[i].why = c.calls[i].why
    BY <1>2
  <2>3. QED
    BY <2>1, <2>2, WatchedKept
<1>6. IsWatching(k) => Watched(d)
  BY <1>2 DEF Watched
<1>7. QED
  BY <1>3, <1>4, <1>5, <1>6 DEF Sound, Meek, Same

(* A request nothing in the controller waits for.                          *)
LEMMA KeepsSend ==
  ASSUME NEW starts, NEW stops, NEW live, NEW c, Sound(c, starts, stops, live),
         NEW op, NEW why,
         \/ op = "health" /\ why \in {"check", "detect"}
         \/ op = "attach" /\ why = "inject"
         \/ op = "detach" /\ why \in {"repair", "nothing"}
         \/ op = "shutdown" /\ why = "release",
         NEW d, d = Send(c, op, why, 0)
  PROVE  /\ Sound(d, starts, stops, live) /\ Meek(d, c)
         /\ Same(d, c)
         /\ c.session # 0 /\ why = "check" => Watched(d)
<1>1. CASE c.session = 0
  BY <1>1 DEF Send, Same, Meek
<1>2. CASE c.session # 0
  <2>1. PICK sid \in Nat : sid = c.session
    BY DEF Sound, ClientType
  <2>2. PICK k : k = NewCall(op, sid, why, 0, TRUE)
    OBVIOUS
  <2>3. /\ op \in {"handshake", "health", "attach", "detach", "shutdown"}
        /\ why \in Whys /\ 0 \in Nat /\ why \notin {"start", "stop", "failed"}
    BY DEF Whys
  <2>4. /\ k \in Calls /\ k.op = op /\ k.sid = sid /\ k.why = why
        /\ k.gen /\ k.answer = Unanswered /\ ~IsAnswered(k) /\ k.awaited
    BY <2>2, <2>3 DEF NewCall, Calls, IsAnswered, Unanswered, Answer, Whys
  <2>5. d = Appended(c, k)
    BY <1>2, <2>1, <2>2 DEF Put, NewCall, Appended, Send
  <2>6. Fits(k) /\ Names(k, c.session)
    BY <1>2, <2>1, <2>4 DEF Fits, Names, Unanswered, Answer
  <2>7. /\ Sound(d, starts, stops, live) /\ Meek(d, c) /\ Same(d, c)
        /\ IsWatching(k) => Watched(d)
    BY <2>3, <2>4, <2>5, <2>6, KeepsAppend
  <2>8. QED
    BY <2>4, <2>7 DEF IsWatching
<1>3. QED
  BY <1>1, <1>2

LEMMA KeepsOpened ==
  ASSUME NEW starts, NEW stops, NEW live, NEW c, Sound(c, starts, stops, live),
         NEW call \in Calls, NEW id \in Nat, id # 0, NEW d, d = Opened(c, call, id)
  PROVE  /\ Sound(d, starts, stops, live) /\ Meek(d, c)
         /\ d.session = (IF call.gen THEN id ELSE c.session)
         /\ d.timer = c.timer /\ d.attached = c.attached
<1>1. CASE call.gen
  <2>1. d = NewGeneration([c EXCEPT !.session = id])
    BY <1>1 DEF Opened
  <2>2. QED
    BY <1>1, <2>1, KeepsForget
<1>2. CASE ~call.gen
  <2>1. PICK k : k = NewCall("shutdown", id, "nothing", 0, FALSE)
    OBVIOUS
  <2>2. /\ k \in Calls /\ k.op = "shutdown" /\ k.sid = id /\ k.why = "nothing"
        /\ k.gen /\ k.answer = Unanswered /\ ~IsAnswered(k) /\ ~k.awaited
    <3>1. /\ "shutdown" \in {"handshake", "health", "attach", "detach", "shutdown"}
          /\ "nothing" \in Whys /\ 0 \in Nat
      BY DEF Whys
    <3>2. QED
      BY <2>1, <3>1 DEF NewCall, Calls, IsAnswered, Unanswered, Answer, Whys
  <2>3. d = Appended(c, k)
    BY <1>2, <2>1 DEF Put, NewCall, Appended, Opened, EndOrphan
  <2>4. Fits(k) /\ Names(k, c.session)
    BY <2>2 DEF Fits, Names, Unanswered, Answer
  <2>5. Sound(d, starts, stops, live) /\ Meek(d, c) /\ Same(d, c)
    BY <2>2, <2>3, <2>4, KeepsAppend
  <2>6. QED
    BY <1>2, <2>5 DEF Same
<1>3. QED
  BY <1>1, <1>2

LEMMA KeepsReadHealth ==
  ASSUME NEW starts, NEW stops, NEW live, NEW c, Sound(c, starts, stops, live),
         NEW call \in Calls, NEW r, NEW held \in BOOLEAN, NEW d, d = ReadHealth(c, call, r, held)
  PROVE  /\ Sound(d, starts, stops, live) /\ Meek(d, c)
         /\ d.session = c.session /\ d.timer = c.timer /\ (d.attached => c.attached)
<1>1. c \in ClientType
  BY DEF Sound
<1>2. ASSUME NEW e, Sound(e, starts, stops, live), Meek(e, c), e.session = c.session,
             e.timer = c.timer, e.attached => c.attached, NEW row \in Rows, d = Row(e, row)
      PROVE  /\ Sound(d, starts, stops, live) /\ Meek(d, c)
             /\ d.session = c.session /\ d.timer = c.timer /\ (d.attached => c.attached)
  <2>1. d \in ClientType /\ d.calls = e.calls /\ Same(d, e)
    BY <1>2 DEF Sound, ClientType, Row, Same
  <2>2. Sound(d, starts, stops, live) /\ Meek(d, e)
    BY <1>2, <2>1, KeepsFields DEF Same
  <2>3. QED
    BY <1>2, <2>1, <2>2 DEF Meek, Same
<1>3. Meek(c, c)
  BY DEF Meek
<1>4. CASE ~call.life
  BY <1>3, <1>4 DEF ReadHealth
<1>5. CASE call.life /\ r = "lost"
  <2>1. PICK e : e = Gone(c)
    OBVIOUS
  <2>2. /\ e \in ClientType /\ e.calls = c.calls /\ e.session = c.session /\ e.running = c.running
        /\ e.timer = c.timer /\ e.attached = FALSE
    BY <1>1, <2>1 DEF Gone, ClientType
  <2>3. Sound(e, starts, stops, live) /\ Meek(e, c)
    BY <2>2, KeepsFields
  <2>4. d = Row(e, "error") /\ "error" \in Rows
    BY <1>5, <2>1 DEF ReadHealth, Rows
  <2>5. QED
    BY <1>2, <2>2, <2>3, <2>4
<1>6. CASE call.life /\ r \in {"refused", "failed"}
  <2>1. d = Row(c, "degraded") /\ "degraded" \in Rows
    BY <1>6 DEF ReadHealth, Rows
  <2>2. QED
    BY <1>2, <1>3, <2>1
<1>7. CASE call.life /\ r \notin {"lost", "refused", "failed"}
  <2>1. PICK e : e = Absorb(c, held)
    OBVIOUS
  <2>2. /\ e \in ClientType /\ e.calls = c.calls /\ e.session = c.session /\ e.running = c.running
        /\ e.timer = c.timer /\ (e.attached => c.attached)
    BY <1>1, <2>1 DEF Absorb, ClientType
  <2>3. Sound(e, starts, stops, live) /\ Meek(e, c)
    BY <2>2, KeepsFields
  <2>4. PICK f : f = IF held /\ ~e.attached THEN Repair(e) ELSE e
    OBVIOUS
  <2>5. Sound(f, starts, stops, live) /\ Meek(f, e) /\ Same(f, e)
    <3>1. CASE held /\ ~e.attached
      <4>1. f = Send(e, "detach", "repair", 0)
        BY <2>4, <3>1 DEF Repair
      <4>2. QED
        BY <2>3, <4>1, KeepsSend
    <3>2. CASE ~(held /\ ~e.attached)
      BY <2>3, <2>4, <3>2 DEF Meek, Same
    <3>3. QED
      BY <3>1, <3>2
  <2>6. Meek(f, c)
    BY <2>3, <2>5 DEF Meek
  <2>7. PICK row \in Rows : d = Row(f, row)
    <3>1. d = Row(f, IF e.available THEN "healthy" ELSE "unavailable")
      BY <1>7, <2>1, <2>4 DEF ReadHealth
    <3>2. QED
      BY <3>1 DEF Rows
  <2>8. QED
    BY <1>2, <2>2, <2>5, <2>6, <2>7 DEF Same
<1>8. QED
  BY <1>4, <1>5, <1>6, <1>7


(* What is left of the client when the answer to call has been taken out.  *)
Rest(e, call) ==
  /\ Sound(e, StartsOut, StopsOut, LiveNow)
  /\ e.running = client.running /\ e.attached = client.attached
  /\ Waits(call) => NoneWaits(e, call.n)
  /\ Watched(client) /\ ~IsWatching(call) => Watched(e)

LEMMA RestWithout ==
  ASSUME SysCore, NEW i \in DOMAIN calls, NEW e, e = Without(client, i)
  PROVE  Rest(e, calls[i]) /\ e.session = client.session
<1>1. client \in ClientType /\ ClientOk(client) /\ Link(client, StartsOut, StopsOut, LiveNow)
  BY DEF SysCore, SysTypeOK, LinkInv
<1>2. i \in DOMAIN client.calls /\ calls[i] = client.calls[i]
  BY DEF calls
<1>3. /\ e \in ClientType /\ Same(e, client)
      /\ \A j \in DOMAIN client.calls : j # i => \E k \in DOMAIN e.calls : Place(i, k) = j
      /\ \A k \in DOMAIN e.calls : e.calls[k] = client.calls[Place(i, k)]
  BY <1>1, <1>2, WithoutFacts
<1>4. ClientOk(e)
  BY <1>1, <1>2, OkWithout
<1>5. /\ Link(e, StartsOut, StopsOut, LiveNow)
      /\ Waits(client.calls[i]) => NoneWaits(e, client.calls[i].n)
  BY <1>1, <1>2, LinkWithout
<1>6. Watched(client) /\ ~IsWatching(client.calls[i]) => Watched(e)
  BY <1>3 DEF Watched, Same
<1>7. QED
  BY <1>2, <1>3, <1>4, <1>5, <1>6 DEF Rest, Sound, Same

LEMMA RestForgot ==
  ASSUME SysCore, NEW i \in DOMAIN calls, NEW e, e = Forget(Without(client, i))
  PROVE  Rest(e, calls[i]) /\ e.session = 0
<1>1. PICK f : f = Without(client, i)
  OBVIOUS
<1>2. Rest(f, calls[i])
  BY <1>1, RestWithout
<1>3. e = NewGeneration([f EXCEPT !.session = 0]) /\ 0 \in Nat
  BY <1>1 DEF Forget
<1>4. Sound(f, StartsOut, StopsOut, LiveNow)
  BY <1>2 DEF Rest
<1>5. /\ Sound(e, StartsOut, StopsOut, LiveNow) /\ Meek(e, f)
      /\ e.session = 0 /\ e.attached = f.attached
  BY <1>3, <1>4, KeepsForget
<1>6. QED
  BY <1>2, <1>5 DEF Rest, Meek

LEMMA RestGivenUp ==
  ASSUME SysCore, NEW i \in DOMAIN calls, NEW e, e = GiveUp(client, i)
  PROVE  Rest(e, calls[i]) /\ e.session = client.session
<1>1. client \in ClientType /\ ClientOk(client) /\ Link(client, StartsOut, StopsOut, LiveNow)
  BY DEF SysCore, SysTypeOK, LinkInv
<1>2. i \in DOMAIN client.calls /\ calls[i] = client.calls[i]
  BY DEF calls
<1>3. /\ e \in ClientType /\ ClientOk(e) /\ Same(e, client) /\ Link(e, StartsOut, StopsOut, LiveNow)
      /\ Waits(client.calls[i]) => NoneWaits(e, client.calls[i].n)
      /\ \/ ~IsAnswered(client.calls[i]) /\ e = Dropped(client, i)
         \/ IsAnswered(client.calls[i]) /\ e = Without(client, i)
  BY <1>1, <1>2, GivenUp
<1>4. CASE e = Without(client, i)
  BY <1>4, RestWithout
<1>5. CASE e = Dropped(client, i)
  <2>1. /\ DOMAIN e.calls = DOMAIN client.calls
        /\ \A j \in DOMAIN client.calls :
             LET k == e.calls[j]
                 l == client.calls[j] IN
             /\ SameRequest(k, l) /\ k.why = l.why /\ k.answer = l.answer
             /\ k.life = l.life /\ k.gen = l.gen
             /\ (k.awaited <=> l.awaited /\ j # i)
    BY <1>1, <1>2, <1>5, DroppedFacts
  <2>2. Watched(client) /\ ~IsWatching(client.calls[i]) => Watched(e)
    BY <1>3, <2>1 DEF Watched, IsWatching, Same
  <2>3. QED
    BY <1>2, <1>3, <2>2 DEF Rest, Sound, Same
<1>6. QED
  BY <1>3, <1>4, <1>5

-----------------------------------------------------------------------------
(* The invariant from its parts, once for the steps that leave the         *)
(* controller alone and once for those that tell it something.             *)

LEMMA CoreParts ==
  ASSUME SysCore
  PROVE  /\ LifecycleInv /\ TypeOK /\ service \in Services /\ client \in ClientType
         /\ returned \subseteq Begun /\ faults \in 0 .. MaxFaults
         /\ Sound(client, StartsOut, StopsOut, LiveNow) /\ LiveNow \notin returned /\ AnnouncedIsLive
         /\ returned \subseteq InBackend("start") \cup InBackend("stop")
         /\ RunInv
         /\ 0 \notin Begun /\ 0 \notin StartsOut /\ 0 \notin StopsOut
         /\ StartsOut \subseteq Begun /\ StopsOut \subseteq Begun /\ Begun \subseteq Nat
<1>1. LifecycleInv
  BY DEF SysCore
<1>2. 0 \notin Begun /\ Begun \subseteq Nat
  BY <1>1, LiveFacts
<1>3. StartsOut \subseteq Begun /\ StopsOut \subseteq Begun
  BY DEF StartsOut, StopsOut, InBackend
<1>4. QED
  BY <1>1, <1>2, <1>3 DEF SysCore, SysTypeOK, LinkInv, Sound

LEMMA CoreOf ==
  ASSUME LifecycleInv', service' \in Services, faults' \in 0 .. MaxFaults,
         returned' \subseteq InBackend("start")' \cup InBackend("stop")',
         (LiveNow \notin returned)', AnnouncedIsLive',
         Sound(client', StartsOut', StopsOut', LiveNow'),
         ~disposed' => RunOk(client', state', MayRun')
  PROVE  SysCore'
<1>1. TypeOK' /\ returned' \subseteq Begun'
  BY DEF LifecycleInv, InBackend
<1>2. SysTypeOK'
  BY <1>1 DEF SysTypeOK, Sound
<1>3. LinkInv'
  BY DEF LinkInv, Sound
<1>4. ClientOk(client)'
  BY DEF Sound
<1>5. RunInv'
  BY DEF RunInv
<1>6. QED
  BY <1>2, <1>3, <1>4, <1>5 DEF SysCore

LEMMA VarsKept ==
  ASSUME UNCHANGED vars
  PROVE  /\ LifecycleInv => LifecycleInv'
         /\ InBackend("start")' = InBackend("start") /\ InBackend("stop")' = InBackend("stop")
         /\ LiveNow' = LiveNow /\ MayRun' = MayRun /\ AnnouncedIsLive' = AnnouncedIsLive
         /\ disposed' = disposed /\ state' = state /\ Begun' = Begun
<1>1. LifecycleInv => LifecycleInv'
  BY StepInv
<1>2. UNCHANGED <<state, operation, operationSeq, ops, disposed>>
  BY DEF vars
<1>3. Begun' = Begun
  BY <1>2 DEF Begun
<1>4. InBackend("start")' = InBackend("start") /\ InBackend("stop")' = InBackend("stop")
  BY <1>2, <1>3 DEF InBackend
<1>5. LiveNow' = LiveNow
  BY <1>2 DEF LiveNow
<1>6. MayRun' = MayRun
  BY <1>2, <1>5 DEF MayRun
<1>7. AnnouncedIsLive' = AnnouncedIsLive
  BY <1>2, <1>3 DEF AnnouncedIsLive, IsLive
<1>8. QED
  BY <1>1, <1>2, <1>3, <1>4, <1>5, <1>6, <1>7

LEMMA StaysCore ==
  ASSUME SysCore, UNCHANGED vars, returned' = returned, service' \in Services,
         faults' \in 0 .. MaxFaults, Sound(client', StartsOut, StopsOut, LiveNow),
         client'.running => client.running \/ LiveNow # 0,
         state = "ready" /\ ~disposed => client'.running /\ Watched(client')
  PROVE  SysCore'
<1>1. /\ LifecycleInv'
      /\ InBackend("start")' = InBackend("start") /\ InBackend("stop")' = InBackend("stop")
      /\ LiveNow' = LiveNow /\ MayRun' = MayRun /\ AnnouncedIsLive'
      /\ disposed' = disposed /\ state' = state
  BY VarsKept, CoreParts
<1>2. StartsOut' = StartsOut /\ StopsOut' = StopsOut
  BY <1>1 DEF StartsOut, StopsOut
<1>3. ~disposed => RunOk(client', state, MayRun)
  <2>1. ~disposed => RunOk(client, state, MayRun)
    BY CoreParts DEF RunInv
  <2>2. LiveNow # 0 => MayRun
    BY DEF MayRun
  <2>3. QED
    BY <2>1, <2>2 DEF RunOk
<1>4. QED
  BY <1>1, <1>2, <1>3, CoreOf, CoreParts

LEMMA TellsCore ==
  ASSUME SysCore, NEW n \in Begun, NEW v \in Verdicts(ops[n].kind), Tells(n, v),
         returned' = returned \ {n}, service' \in Services, faults' \in 0 .. MaxFaults,
         Sound(client', StartsOut, StopsOut, LiveNow), NoneWaits(client', n),
         client'.running => client.running,
         LiveNow = n /\ v = "started" => client'.running /\ Watched(client'),
         LiveNow = n /\ v # "started" => ~client'.running,
         LiveNow # n /\ state = "ready" /\ ~disposed => client'.running /\ Watched(client')
  PROVE  SysCore'
<1>1. HandlersRan
  BY DEF Tells, StartAnswered, StopAnswered, LateAnswer, AnswerFrame
<1>2. /\ LifecycleInv' /\ disposed' = disposed
      /\ InBackend("start")' = InBackend("start") \ {n}
      /\ InBackend("stop")' = InBackend("stop") \ {n}
      /\ AnnouncedIsLive'
      /\ LiveNow' = IF LiveNow = n THEN 0 ELSE LiveNow
      /\ \/ /\ LiveNow = n
            /\ v = "started" => state' = "ready"
            /\ v # "started" => state' \in {"stopped", "error"}
         \/ /\ LiveNow = 0 /\ LiveNow # n /\ state = "stopping"
            /\ ops[n].kind = "stop" /\ state' \in {"stopped", "error"}
         \/ LiveNow # n /\ state' = state /\ operation' = operation
            /\ (state = "stopping" /\ ~disposed => ops'[operation].phase # "announcing")
  BY <1>1, TellsOut, CoreParts
<1>3. StartsOut' = StartsOut \ {n} /\ StopsOut' = StopsOut \ {n}
  BY <1>2 DEF StartsOut, StopsOut
<1>4. Link(client', StartsOut \ {n}, StopsOut \ {n}, IF LiveNow = n THEN 0 ELSE LiveNow)
  BY LinkLeft, CoreParts DEF Sound
<1>5. Sound(client', StartsOut', StopsOut', LiveNow')
  BY <1>2, <1>3, <1>4 DEF Sound
<1>6. returned' \subseteq InBackend("start")' \cup InBackend("stop")'
  BY <1>2, CoreParts
<1>7. (LiveNow \notin returned)'
  BY <1>2, CoreParts
<1>8. ~disposed' => RunOk(client', state', MayRun')
  <2> SUFFICES ASSUME ~disposed PROVE RunOk(client', state', MayRun')
    BY <1>2
  <2>1. RunOk(client, state, MayRun)
    BY CoreParts DEF RunInv
  <2>2. state' = "ready" => MayRun'
    BY DEF MayRun
  <2>3. LiveNow' # 0 => MayRun'
    BY DEF MayRun
  <2>4. CASE LiveNow = n
    BY <1>2, <2>2, <2>4 DEF RunOk
  <2>5. state = "stopping" => ops[operation].phase # "announcing"
    <3>1. state = "stopping" => operation # 0
      BY CoreParts DEF LifecycleInv, BusyIsOwned, Busy
    <3>2. operation # 0 => operation \in Begun
      BY CoreParts DEF TypeOK, Begun
    <3>3. \A m \in Begun : ops[m].phase # "announcing"
      BY <1>1 DEF HandlersRan, InSync, Sync
    <3>4. QED
      BY <3>1, <3>2, <3>3
  <2>6. MayRun => state = "ready" \/ LiveNow # 0
    BY <2>5 DEF MayRun
  <2>7. CASE LiveNow = 0 /\ LiveNow # n /\ state = "stopping" /\ state' \in {"stopped", "error"}
    BY <2>1, <2>6, <2>7 DEF RunOk
  <2>8. CASE LiveNow # n /\ state' = state
    BY <1>2, <2>1, <2>2, <2>3, <2>6, <2>8 DEF RunOk
  <2>9. QED
    BY <1>2, <2>4, <2>7, <2>8
<1>9. QED
  BY <1>2, <1>5, <1>6, <1>7, <1>8, CoreOf


-----------------------------------------------------------------------------
(* The continuations.                                                      *)

Resumes(e, call, r, ans) ==
  /\ Rest(e, call) /\ call \in Calls /\ call.awaited /\ Fits(call)
  /\ CallLinked(call, client.running, StartsOut, StopsOut, LiveNow)
  /\ ans \in AnswerType
  /\ r = "ok" /\ call.op = "handshake" => ans.id # 0

Frame ==
  /\ returned = {} /\ returned' = returned
  /\ service' \in Services /\ faults' \in 0 .. MaxFaults

LEMMA ReadyRuns ==
  ASSUME SysCore
  PROVE  /\ state = "ready" /\ ~disposed => client.running /\ Watched(client)
         /\ LiveNow # 0 => state # "ready"
<1>1. state = "ready" /\ ~disposed => client.running /\ Watched(client)
  BY CoreParts DEF RunInv, RunOk
<1>2. LiveNow # 0 => state # "ready"
  BY DEF LiveNow
<1>3. QED
  BY <1>1, <1>2

LEMMA WaitingOperation ==
  ASSUME SysCore, NEW e, NEW call, NEW r, NEW ans, Resumes(e, call, r, ans), Waits(call)
  PROVE  /\ call.n \in Begun /\ call.n # 0
         /\ call.why \in {"start", "failed"} => ops[call.n].kind = "start"
         /\ call.why = "stop" => ops[call.n].kind = "stop" /\ call.n # LiveNow
         /\ NoneWaits(e, call.n)
         /\ ~IsWatching(call)
<1>1. /\ call.why \in {"start", "failed"} => call.n \in StartsOut
      /\ call.why = "stop" => call.n \in StopsOut
  BY DEF Resumes, CallLinked
<1>2. call.why \in {"start", "stop", "failed"}
  BY DEF Waits
<1>3. call.n \in Begun /\ call.n # 0
  BY <1>1, <1>2, CoreParts
<1>4. /\ call.why \in {"start", "failed"} => ops[call.n].kind = "start"
      /\ call.why = "stop" => ops[call.n].kind = "stop"
  BY <1>1 DEF StartsOut, StopsOut, InBackend
<1>5. LiveNow # 0 => ops[LiveNow].kind = "start"
  BY CoreParts, LiveFacts DEF InBackend
<1>6. NoneWaits(e, call.n)
  BY DEF Resumes, Rest
<1>7. ~IsWatching(call)
  BY <1>2 DEF IsWatching
<1>8. QED
  BY <1>2, <1>3, <1>4, <1>5, <1>6, <1>7

LEMMA ContOpens ==
  ASSUME SysCore, NEW e, NEW call, NEW r, NEW ans, Resumes(e, call, r, ans), Frame,
         Opens(e, call, r, ans)
  PROVE  SysCore'
<1> DEFINE n == call.n
<1>1. call.op = "handshake" /\ call.why = "start" /\ Waits(call)
  BY DEF Opens, Resumes, Waits
<1>2. /\ n \in Begun /\ n # 0 /\ ops[n].kind = "start" /\ NoneWaits(e, n) /\ ~IsWatching(call)
  BY <1>1, WaitingOperation
<1>3. Sound(e, StartsOut, StopsOut, LiveNow) /\ e.running = client.running
  BY DEF Resumes, Rest
<1>4. Watched(client) => Watched(e)
  BY <1>2 DEF Resumes, Rest
<1>5. n \in StartsOut /\ (call.life <=> n = LiveNow) /\ (n = LiveNow => ~client.running)
  BY <1>1 DEF Resumes, CallLinked
<1>6. "cancelled" \in Verdicts(ops[n].kind) /\ "failed" \in Verdicts(ops[n].kind)
  BY <1>2 DEF Verdicts
<1>7. returned' = returned \ {n} /\ service' \in Services /\ faults' \in 0 .. MaxFaults
  BY DEF Frame
<1>8. ASSUME NEW v \in {"cancelled", "failed"}, Tells(n, v),
             NEW d, client' = d, Sound(d, StartsOut, StopsOut, LiveNow), Meek(d, e)
      PROVE  SysCore'
  <2>1. v \in Verdicts(ops[n].kind) /\ v # "started"
    BY <1>6, <1>8
  <2>2. NoneWaits(client', n) /\ client'.running = client.running
    BY <1>2, <1>3, <1>8 DEF Meek
  <2>3. state = "ready" /\ ~disposed => client'.running /\ Watched(client')
    BY <1>3, <1>4, <1>8, <2>2, ReadyRuns DEF Meek
  <2>4. Sound(client', StartsOut, StopsOut, LiveNow)
    BY <1>8
  <2>5. LiveNow = n => ~client'.running
    BY <1>5, <2>2
  <2>6. QED
    BY <1>2, <1>7, <1>8, <2>1, <2>2, <2>3, <2>4, <2>5, TellsCore
<1>9. CASE r # "ok"
  <2>1. client' = e /\ Tells(n, IF call.life THEN "failed" ELSE "cancelled")
    BY <1>9 DEF Opens
  <2>2. Meek(e, e)
    BY DEF Meek
  <2>3. QED
    BY <1>3, <1>8, <2>1, <2>2
<1>10. CASE r = "ok"
  <2>1. PICK opened : opened = Opened(e, call, ans.id)
    OBVIOUS
  <2>2. ans.id \in Nat /\ ans.id # 0 /\ call \in Calls
    BY <1>1, <1>10 DEF Resumes, AnswerType
  <2>3. /\ Sound(opened, StartsOut, StopsOut, LiveNow) /\ Meek(opened, e)
        /\ opened.session = (IF call.gen THEN ans.id ELSE e.session)
    BY <1>3, <2>1, <2>2, KeepsOpened
  <2>4. CASE ~(call.gen /\ call.life)
    <3>1. client' = opened /\ Tells(n, "cancelled")
      BY <1>10, <2>1, <2>4 DEF Opens
    <3>2. QED
      BY <1>8, <2>3, <3>1
  <2>5. CASE call.gen /\ call.life
    <3>1. PICK up : up = [opened EXCEPT !.running = TRUE]
      OBVIOUS
    <3>2. client' = Send(up, "health", "start", n) /\ UNCHANGED vars
      BY <1>10, <2>1, <2>5, <3>1 DEF Opens, ControllerUnchanged
    <3>3. /\ up \in ClientType /\ up.calls = opened.calls /\ up.session = ans.id /\ up.running = TRUE
      BY <2>3, <2>5, <3>1 DEF Sound, ClientType
    <3>4. ClientOk(up)
      <4>1. opened.session = up.session
        BY <2>3, <2>5, <3>3
      <4>2. QED
        BY <2>3, <3>3, <4>1 DEF Sound, ClientOk
    <3>5. NoneWaits(up, n) /\ n = LiveNow
      BY <1>2, <1>5, <2>3, <2>5, <3>3 DEF Meek, NoneWaits
    <3>6. Link(up, StartsOut, StopsOut, LiveNow)
      BY <2>3, <3>3, <3>5 DEF Sound, Link, CallLinked, NoneWaits, Waits
    <3>7. PICK sid \in Nat : sid = up.session /\ sid # 0
      BY <2>2, <3>3
    <3>8. PICK k : k = NewCall("health", sid, "start", n, TRUE)
      OBVIOUS
    <3>9. /\ k \in Calls /\ k.op = "health" /\ k.sid = sid /\ k.why = "start" /\ k.n = n
          /\ k.gen /\ k.life /\ k.answer = Unanswered /\ ~IsAnswered(k) /\ k.awaited
      <4>1. /\ "health" \in {"handshake", "health", "attach", "detach", "shutdown"}
            /\ "start" \in Whys /\ n \in Nat
        BY <1>2, CoreParts DEF Whys
      <4>2. QED
        BY <3>8, <4>1 DEF NewCall, Calls, IsAnswered, Unanswered, Answer, Whys
    <3>10. PICK d : d = client'
      OBVIOUS
    <3>11. d = Appended(up, k)
      BY <3>2, <3>7, <3>8, <3>10 DEF Put, NewCall, Appended, Send
    <3>12. Fits(k) /\ Names(k, up.session)
      BY <3>7, <3>9 DEF Fits, Names, Unanswered, Answer
    <3>13. CallLinked(k, up.running, StartsOut, StopsOut, LiveNow)
      BY <1>5, <3>5, <3>9 DEF CallLinked
    <3>14. Waits(k) => NoneWaits(up, k.n)
      BY <3>5, <3>9
    <3>15. d \in ClientType /\ ClientOk(d) /\ Link(d, StartsOut, StopsOut, LiveNow)
      BY <3>3, <3>4, <3>6, <3>9, <3>11, <3>12, <3>13, <3>14, AwaitedPut
    <3>16. Sound(client', StartsOut, StopsOut, LiveNow)
      BY <3>10, <3>15 DEF Sound
    <3>17. returned' = returned
      BY DEF Frame
    <3>18. LiveNow # 0 /\ state # "ready"
      BY <1>2, <3>5, ReadyRuns
    <3>19. QED
      BY <1>7, <3>2, <3>16, <3>17, <3>18, StaysCore
  <2>6. QED
    BY <2>4, <2>5
<1>11. QED
  BY <1>9, <1>10


LEMMA ContStartChecked ==
  ASSUME SysCore, NEW e, NEW call, NEW r, NEW ans, Resumes(e, call, r, ans), Frame,
         StartChecked(e, call, r, ans)
  PROVE  SysCore'
<1> DEFINE n == call.n
<1>1. call.op = "health" /\ call.why = "start" /\ Waits(call)
  BY DEF StartChecked, Resumes, Waits
<1>2. /\ n \in Begun /\ n # 0 /\ ops[n].kind = "start" /\ NoneWaits(e, n) /\ ~IsWatching(call)
  BY <1>1, WaitingOperation
<1>3. Sound(e, StartsOut, StopsOut, LiveNow) /\ e.running = client.running
  BY DEF Resumes, Rest
<1>4. Watched(client) => Watched(e)
  BY <1>2 DEF Resumes, Rest
<1>5. n \in StartsOut /\ (call.life <=> n = LiveNow)
  BY <1>1 DEF Resumes, CallLinked
<1>6. /\ "cancelled" \in Verdicts(ops[n].kind) /\ "failed" \in Verdicts(ops[n].kind)
      /\ "started" \in Verdicts(ops[n].kind)
  BY <1>2 DEF Verdicts
<1>7. returned' = returned \ {n} /\ returned' = returned /\ service' \in Services /\ faults' \in 0 .. MaxFaults
  BY DEF Frame
<1>8. PICK read : read = ReadHealth(e, call, r, ans.attached)
  OBVIOUS
<1>9. call \in Calls /\ ans.attached \in BOOLEAN
  BY DEF Resumes, AnswerType
<1>10. Sound(read, StartsOut, StopsOut, LiveNow) /\ Meek(read, e)
  BY <1>3, <1>8, <1>9, KeepsReadHealth
<1>11. NoneWaits(read, n) /\ read.running = client.running /\ (Watched(client) => Watched(read))
  BY <1>2, <1>3, <1>4, <1>10 DEF Meek
<1>12. PICK down : down = [read EXCEPT !.running = FALSE]
  OBVIOUS
<1>13. CASE ~read.running \/ ~call.life
  <2>1. client' = read /\ Tells(n, "cancelled")
    BY <1>8, <1>13 DEF StartChecked
  <2>2. LiveNow = n => ~client'.running
    BY <1>5, <1>13, <2>1
  <2>3. state = "ready" /\ ~disposed => client'.running /\ Watched(client')
    BY <1>11, <2>1, ReadyRuns
  <2>4. Sound(client', StartsOut, StopsOut, LiveNow) /\ NoneWaits(client', n) /\ (client'.running => client.running)
    BY <1>10, <1>11, <2>1
  <2>5. QED
    BY <1>2, <1>6, <1>7, <2>1, <2>2, <2>3, <2>4, TellsCore
<1>14. CASE read.running /\ call.life /\ ~HealthFailed(call, r)
  <2>1. client' = Schedule(read) /\ Tells(n, "started")
    BY <1>8, <1>14 DEF StartChecked
  <2>2. PICK d : d = Schedule(read)
    OBVIOUS
  <2>3. /\ Sound(d, StartsOut, StopsOut, LiveNow) /\ d.running = read.running
        /\ NoneWaits(d, n) /\ Watched(d)
    <3>1. /\ Sound(d, StartsOut, StopsOut, LiveNow) /\ d.running = read.running
          /\ read.running => Watched(d)
      BY <1>10, <2>2, KeepsSchedule
    <3>2. d.calls = read.calls
      BY <1>10, <2>2 DEF Schedule, Sound, ClientType
    <3>3. NoneWaits(d, n)
      BY <1>11, <3>2 DEF NoneWaits
    <3>4. QED
      BY <1>14, <3>1, <3>3
  <2>4. Sound(client', StartsOut, StopsOut, LiveNow) /\ NoneWaits(client', n) /\ (client'.running => client.running)
    BY <1>11, <2>1, <2>2, <2>3
  <2>5. client'.running /\ Watched(client')
    BY <1>14, <2>1, <2>2, <2>3
  <2>6. QED
    BY <1>2, <1>6, <1>7, <2>1, <2>4, <2>5, TellsCore
<1>15. CASE read.running /\ call.life /\ HealthFailed(call, r)
  <2>1. /\ client' = Close(down, "failed", n)
        /\ IF down.session = 0 THEN Tells(n, "failed") ELSE UNCHANGED vars
    BY <1>8, <1>12, <1>15 DEF StartChecked, ControllerUnchanged
  <2>2. /\ down \in ClientType /\ down.calls = read.calls /\ down.session = read.session
        /\ down.running = FALSE
    BY <1>10, <1>12 DEF Sound, ClientType
  <2>3. ClientOk(down)
    BY <1>10, <2>2 DEF Sound, ClientOk
  <2>4. Link(down, StartsOut, StopsOut, LiveNow)
    BY <1>10, <2>2 DEF Sound, Link, CallLinked
  <2>5. NoneWaits(down, n)
    BY <1>11, <2>2 DEF NoneWaits
  <2>6. LiveNow = n /\ LiveNow # 0 /\ state # "ready"
    BY <1>2, <1>5, <1>15, ReadyRuns
  <2>7. CASE down.session = 0
    <3>1. PICK d : d = NewGeneration(down)
      OBVIOUS
    <3>2. client' = d
      BY <2>1, <2>7, <3>1 DEF Close
    <3>3. /\ d \in ClientType /\ ClientOk(d) /\ Same(d, down) /\ Link(d, StartsOut, StopsOut, LiveNow)
          /\ \A x : NoneWaits(down, x) => NoneWaits(d, x)
      BY <2>2, <2>3, <2>4, <3>1, NewGenerationKeeps
    <3>4. /\ Sound(client', StartsOut, StopsOut, LiveNow) /\ NoneWaits(client', n)
          /\ ~client'.running
      BY <2>2, <2>5, <3>2, <3>3 DEF Sound, Same
    <3>5. QED
      BY <1>2, <1>6, <1>7, <2>1, <2>6, <2>7, <3>4, TellsCore
  <2>8. CASE down.session # 0
    <3>1. PICK sid \in Nat : sid = down.session /\ sid # 0
      BY <2>2, <2>8 DEF ClientType
    <3>2. PICK k : k = NewCall("shutdown", sid, "failed", n, TRUE)
      OBVIOUS
    <3>3. /\ k \in Calls /\ k.op = "shutdown" /\ k.sid = sid /\ k.why = "failed" /\ k.n = n
          /\ k.gen /\ k.life /\ k.answer = Unanswered /\ ~IsAnswered(k) /\ k.awaited
      <4>1. /\ "shutdown" \in {"handshake", "health", "attach", "detach", "shutdown"}
            /\ "failed" \in Whys /\ n \in Nat
        BY <1>2, CoreParts DEF Whys
      <4>2. QED
        BY <3>1, <3>2, <4>1 DEF NewCall, Calls, IsAnswered, Unanswered, Answer, Whys
    <3>4. PICK d : d = client'
      OBVIOUS
    <3>5. d = Appended(down, k) /\ UNCHANGED vars
      BY <2>1, <2>8, <3>1, <3>2, <3>4 DEF Put, NewCall, Appended, Close, Send
    <3>6. Fits(k) /\ Names(k, down.session)
      BY <3>1, <3>3 DEF Fits, Names, Unanswered, Answer
    <3>7. CallLinked(k, down.running, StartsOut, StopsOut, LiveNow)
      BY <1>5, <2>2, <3>3 DEF CallLinked
    <3>8. Waits(k) => NoneWaits(down, k.n)
      BY <2>5, <3>3
    <3>9. d \in ClientType /\ ClientOk(d) /\ Same(d, down) /\ Link(d, StartsOut, StopsOut, LiveNow)
      BY <2>2, <2>3, <2>4, <3>3, <3>5, <3>6, <3>7, <3>8, AwaitedPut
    <3>10. Sound(client', StartsOut, StopsOut, LiveNow) /\ ~client'.running
      BY <2>2, <3>4, <3>9 DEF Sound, Same
    <3>11. QED
      BY <1>7, <2>6, <3>5, <3>10, StaysCore
  <2>9. QED
    BY <2>7, <2>8
<1>16. QED
  BY <1>13, <1>14, <1>15

LEMMA ContClose ==
  ASSUME SysCore, NEW e, NEW call, NEW r, NEW ans, Resumes(e, call, r, ans), Frame,
         NEW lostNow, CloseAnswered(e, call, r, lostNow)
  PROVE  SysCore'
<1> DEFINE n == call.n
<1>1. call.why \in {"stop", "release", "failed"} /\ call.awaited
  BY DEF CloseAnswered, Resumes
<1>2. ~IsWatching(call)
  BY <1>1 DEF IsWatching
<1>3. Sound(e, StartsOut, StopsOut, LiveNow) /\ e.running = client.running
  BY DEF Resumes, Rest
<1>4. Watched(client) => Watched(e)
  BY <1>2 DEF Resumes, Rest
<1>5. returned' = returned \ {n} /\ returned' = returned /\ service' \in Services /\ faults' \in 0 .. MaxFaults
  BY DEF Frame
<1>6. PICK d : d = client'
  OBVIOUS
<1>7. Sound(d, StartsOut, StopsOut, LiveNow) /\ Meek(d, e)
  <2>1. d = e \/ d = NewGeneration([e EXCEPT !.session = 0])
    BY <1>6 DEF CloseAnswered, Closed, Forget
  <2>2. Meek(e, e) /\ 0 \in Nat
    BY DEF Meek
  <2>3. QED
    BY <1>3, <2>1, <2>2, KeepsForget
<1>8. Sound(client', StartsOut, StopsOut, LiveNow) /\ client'.running = client.running
  BY <1>3, <1>6, <1>7 DEF Meek
<1>9. state = "ready" /\ ~disposed => client'.running /\ Watched(client')
  BY <1>4, <1>6, <1>7, <1>8, ReadyRuns DEF Meek
<1>10. CASE call.why = "release"
  <2>1. UNCHANGED vars
    BY <1>10 DEF CloseAnswered, ControllerUnchanged
  <2>2. QED
    BY <1>5, <1>8, <1>9, <2>1, StaysCore
<1>11. CASE call.why = "stop"
  <2>1. n \in Begun /\ ops[n].kind = "stop" /\ n # LiveNow /\ NoneWaits(e, n)
    BY <1>1, <1>11, WaitingOperation DEF Waits
  <2>2. Tells(n, "stopped")
    BY <1>11 DEF CloseAnswered
  <2>3. "stopped" \in Verdicts(ops[n].kind)
    BY <2>1 DEF Verdicts
  <2>4. NoneWaits(client', n)
    BY <1>6, <1>7, <2>1 DEF Meek
  <2>5. QED
    BY <1>5, <1>8, <1>9, <2>1, <2>2, <2>3, <2>4, TellsCore
<1>12. CASE call.why = "failed"
  <2>1. n \in Begun /\ ops[n].kind = "start" /\ NoneWaits(e, n)
    BY <1>1, <1>12, WaitingOperation DEF Waits
  <2>2. Tells(n, "failed")
    BY <1>12 DEF CloseAnswered
  <2>3. "failed" \in Verdicts(ops[n].kind)
    BY <2>1 DEF Verdicts
  <2>4. NoneWaits(client', n)
    BY <1>6, <1>7, <2>1 DEF Meek
  <2>5. LiveNow = n => ~client'.running
    BY <1>1, <1>8, <1>12 DEF Resumes, CallLinked
  <2>6. QED
    BY <1>5, <1>8, <1>9, <2>1, <2>2, <2>3, <2>4, <2>5, TellsCore
<1>13. QED
  BY <1>1, <1>10, <1>11, <1>12

LEMMA ContRecovers ==
  ASSUME SysCore, NEW e, NEW call, NEW r, NEW ans, Resumes(e, call, r, ans), Frame,
         Recovers(e, call, r, ans)
  PROVE  SysCore'
<1>1. call.op = "handshake" /\ call \in Calls
  BY DEF Recovers, Resumes, Fits
<1>2. Sound(e, StartsOut, StopsOut, LiveNow) /\ e.running = client.running
  BY DEF Resumes, Rest
<1>3. UNCHANGED vars
  BY DEF Recovers, ControllerUnchanged
<1>4. returned' = returned /\ service' \in Services /\ faults' \in 0 .. MaxFaults
  BY DEF Frame
<1>5. PICK opened : opened = IF r = "ok" THEN Opened(e, call, ans.id) ELSE e
  OBVIOUS
<1>6. /\ Sound(opened, StartsOut, StopsOut, LiveNow) /\ opened.running = client.running
      /\ r = "ok" /\ call.gen => opened.session # 0
  <2>1. CASE r = "ok"
    <3>1. ans.id \in Nat /\ ans.id # 0
      BY <1>1, <2>1 DEF Resumes, AnswerType
    <3>2. opened = Opened(e, call, ans.id)
      BY <1>5, <2>1
    <3>3. /\ Sound(opened, StartsOut, StopsOut, LiveNow) /\ Meek(opened, e)
          /\ opened.session = (IF call.gen THEN ans.id ELSE e.session)
      BY <1>1, <1>2, <3>1, <3>2, KeepsOpened
    <3>4. QED
      BY <1>2, <3>1, <3>3 DEF Meek
  <2>2. CASE r # "ok"
    BY <1>2, <1>5, <2>2
  <2>3. QED
    BY <2>1, <2>2
<1>7. PICK d : d = client'
  OBVIOUS
<1>8. \/ d = Schedule(opened)
      \/ d = Schedule(Row(opened, "error"))
      \/ /\ opened.running /\ call.life /\ r = "ok" /\ call.gen
         /\ d = Send(opened, "health", "check", 0)
  BY <1>5, <1>7 DEF Recovers
<1>9. Sound(d, StartsOut, StopsOut, LiveNow) /\ d.running = client.running /\ (d.running => Watched(d))
  <2>1. CASE d = Schedule(opened)
    BY <1>6, <2>1, KeepsSchedule
  <2>2. CASE d = Schedule(Row(opened, "error"))
    <3>1. PICK f : f = Row(opened, "error")
      OBVIOUS
    <3>2. /\ f \in ClientType /\ f.calls = opened.calls /\ f.session = opened.session
          /\ f.running = opened.running /\ f.timer = opened.timer
      BY <1>6, <3>1 DEF Sound, ClientType, Row, Rows
    <3>3. Sound(f, StartsOut, StopsOut, LiveNow)
      BY <1>6, <3>2, KeepsFields
    <3>4. QED
      BY <1>6, <2>2, <3>1, <3>2, <3>3, KeepsSchedule
  <2>3. CASE r = "ok" /\ call.gen /\ d = Send(opened, "health", "check", 0)
    <3>1. Sound(d, StartsOut, StopsOut, LiveNow) /\ Meek(d, opened) /\ Watched(d)
      BY <1>6, <2>3, KeepsSend
    <3>2. QED
      BY <1>6, <3>1 DEF Meek
  <2>4. QED
    BY <1>8, <2>1, <2>2, <2>3
<1>10. Sound(client', StartsOut, StopsOut, LiveNow) /\ client'.running = client.running
       /\ (client'.running => Watched(client'))
  BY <1>7, <1>9
<1>11. state = "ready" /\ ~disposed => client'.running /\ Watched(client')
  BY <1>10, ReadyRuns
<1>12. QED
  BY <1>3, <1>4, <1>10, <1>11, StaysCore

LEMMA ContOther ==
  ASSUME SysCore, NEW e, NEW call, NEW r, NEW ans, Resumes(e, call, r, ans), Frame,
         OtherAnswers(e, call, r, ans)
  PROVE  SysCore'
<1>1. Sound(e, StartsOut, StopsOut, LiveNow) /\ e.running = client.running /\ e \in ClientType
  BY DEF Resumes, Rest, Sound
<1>2. UNCHANGED vars
  BY DEF OtherAnswers, ControllerUnchanged
<1>3. returned' = returned /\ service' \in Services /\ faults' \in 0 .. MaxFaults
  BY DEF Frame
<1>4. call \in Calls /\ ans.attached \in BOOLEAN /\ ans.id \in Nat
  BY DEF Resumes, AnswerType
<1>5. PICK d : d = client'
  OBVIOUS
<1>6. Meek(e, e)
  BY DEF Meek
<1>7. ASSUME call.why # "check", Sound(d, StartsOut, StopsOut, LiveNow), Meek(d, e) PROVE SysCore'
  <2>1. ~IsWatching(call)
    BY <1>7 DEF OtherAnswers, IsWatching
  <2>2. Watched(client) => Watched(e)
    BY <2>1 DEF Resumes, Rest
  <2>3. Sound(client', StartsOut, StopsOut, LiveNow) /\ client'.running = client.running
    BY <1>1, <1>5, <1>7 DEF Meek
  <2>4. state = "ready" /\ ~disposed => client'.running /\ Watched(client')
    BY <1>5, <1>7, <2>2, <2>3, ReadyRuns DEF Meek
  <2>5. QED
    BY <1>2, <1>3, <2>3, <2>4, StaysCore
<1>8. ASSUME d \in ClientType, d.calls = e.calls, d.session = e.session, d.running = e.running, d.timer = e.timer
      PROVE  Sound(d, StartsOut, StopsOut, LiveNow) /\ Meek(d, e)
  BY <1>1, <1>8, KeepsFields
<1>9. CASE call.why = "orphan"
  <2>1. d = IF r = "ok" THEN Opened(e, call, ans.id) ELSE e
    BY <1>5, <1>9 DEF OtherAnswers
  <2>2. call.op = "handshake"
    BY <1>9 DEF Resumes, Fits
  <2>3. CASE r = "ok"
    <3>1. ans.id # 0 /\ d = Opened(e, call, ans.id)
      BY <2>1, <2>2, <2>3 DEF Resumes
    <3>2. Sound(d, StartsOut, StopsOut, LiveNow) /\ Meek(d, e)
      BY <1>1, <1>4, <3>1, KeepsOpened
    <3>3. QED
      BY <1>7, <1>9, <3>2
  <2>4. CASE r # "ok"
    BY <1>1, <1>6, <1>7, <1>9, <2>1, <2>4
  <2>5. QED
    BY <2>3, <2>4
<1>10. CASE call.why = "check"
  <2>1. PICK f : f = ReadHealth(e, call, r, ans.attached)
    OBVIOUS
  <2>2. Sound(f, StartsOut, StopsOut, LiveNow) /\ Meek(f, e)
    BY <1>1, <1>4, <2>1, KeepsReadHealth
  <2>3. d = Schedule(f)
    BY <1>5, <1>10, <2>1 DEF OtherAnswers
  <2>4. Sound(d, StartsOut, StopsOut, LiveNow) /\ d.running = f.running /\ (f.running => Watched(d))
    BY <2>2, <2>3, KeepsSchedule
  <2>5. Sound(client', StartsOut, StopsOut, LiveNow) /\ client'.running = client.running
        /\ (client.running => Watched(client'))
    BY <1>1, <1>5, <2>2, <2>4 DEF Meek
  <2>6. state = "ready" /\ ~disposed => client'.running /\ Watched(client')
    BY <2>5, ReadyRuns
  <2>7. QED
    BY <1>2, <1>3, <2>5, <2>6, StaysCore
<1>11. CASE call.why = "detect"
  <2>1. d = CASE r = "ok" -> Absorb(e, ans.attached) [] r = "lost" -> Gone(e) [] OTHER -> e
    BY <1>5, <1>11 DEF OtherAnswers
  <2>2. /\ d \in ClientType /\ d.calls = e.calls /\ d.session = e.session /\ d.running = e.running
        /\ d.timer = e.timer
    BY <1>1, <1>4, <2>1 DEF ClientType, Absorb, Gone
  <2>3. QED
    BY <1>7, <1>8, <1>11, <2>2
<1>12. CASE call.why = "inject" /\ r \in {"ok", "lost"}
  <2>1. d = IF r = "ok" THEN Attached(e) ELSE Gone(e)
    BY <1>5, <1>12 DEF OtherAnswers
  <2>2. /\ d \in ClientType /\ d.calls = e.calls /\ d.session = e.session /\ d.running = e.running
        /\ d.timer = e.timer
    BY <1>1, <2>1 DEF ClientType, Attached, Gone
  <2>3. QED
    BY <1>7, <1>8, <1>12, <2>2
<1>13. CASE call.why = "inject" /\ r \notin {"ok", "lost"}
  <2>1. d = Send(e, "detach", "nothing", 0)
    BY <1>5, <1>13 DEF OtherAnswers, SendDetach
  <2>2. Sound(d, StartsOut, StopsOut, LiveNow) /\ Meek(d, e)
    BY <1>1, <2>1, KeepsSend
  <2>3. QED
    BY <1>7, <1>13, <2>2
<1>14. CASE call.why \in {"repair", "nothing"}
  <2>1. d = e
    BY <1>5, <1>14 DEF OtherAnswers
  <2>2. QED
    BY <1>1, <1>6, <1>7, <1>14, <2>1
<1>15. QED
  BY <1>9, <1>10, <1>11, <1>12, <1>13, <1>14 DEF OtherAnswers


LEMMA ContinueCore ==
  ASSUME SysCore, NEW e, NEW call, NEW r, NEW ans, NEW lostNow, Resumes(e, call, r, ans), Frame,
         Continue(e, call, r, ans, lostNow)
  PROVE  SysCore'
  BY ContOpens, ContStartChecked, ContClose, ContRecovers, ContOther DEF Continue

LEMMA CallFacts ==
  ASSUME SysCore, NEW i \in DOMAIN calls
  PROVE  /\ calls[i] \in Calls /\ Fits(calls[i]) /\ Names(calls[i], client.session)
         /\ CallLinked(calls[i], client.running, StartsOut, StopsOut, LiveNow)
         /\ calls[i].answer \in AnswerType
<1>1. client \in ClientType /\ ClientOk(client) /\ Link(client, StartsOut, StopsOut, LiveNow)
  BY DEF SysCore, SysTypeOK, LinkInv
<1>2. calls[i] \in Calls
  BY <1>1 DEF ClientType, calls
<1>3. calls[i].answer \in AnswerType
  BY <1>2 DEF Calls, AnswerType
<1>4. QED
  BY <1>1, <1>2, <1>3 DEF ClientOk, Link, calls

LEMMA DeliverCore == ASSUME SysCore, NEW i, Deliver(i) PROVE SysCore'
<1> DEFINE call == calls[i]
           stale == call.op # "handshake" /\ ~call.gen
           lostNow == call.answer.is = "lost" /\ ~stale
<1>1. /\ i \in DOMAIN calls /\ calls[i].awaited /\ calls[i].answer # Unanswered /\ Turn
      /\ UNCHANGED <<service, returned, faults>>
  BY DEF Deliver
<1>2. PICK e : e = IF lostNow THEN Forget(Without(client, i)) ELSE Without(client, i)
  OBVIOUS
<1>3. PICK r : r = IF stale THEN "lost" ELSE call.answer.is
  OBVIOUS
<1>4. Continue(e, call, r, call.answer, lostNow)
  BY <1>2, <1>3 DEF Deliver
<1>5. Rest(e, call)
  BY <1>1, <1>2, RestWithout, RestForgot
<1>6. /\ call \in Calls /\ Fits(call) /\ call.answer \in AnswerType
      /\ CallLinked(call, client.running, StartsOut, StopsOut, LiveNow)
  BY <1>1, CallFacts
<1>7. r = "ok" /\ call.op = "handshake" => call.answer.id # 0
  BY <1>3, <1>6 DEF Fits
<1>8. Resumes(e, call, r, call.answer)
  BY <1>1, <1>5, <1>6, <1>7 DEF Resumes
<1>9. Frame
  BY <1>1, CoreParts DEF Frame, Turn
<1>10. QED
  BY <1>4, <1>8, <1>9, ContinueCore

LEMMA UnansweredType == Unanswered \in AnswerType
  BY DEF Unanswered, Answer, AnswerType

LEMMA FaultCounts == ASSUME faults \in 0 .. MaxFaults, Fault PROVE faults' \in 0 .. MaxFaults
  BY DEF Fault

LEMMA TimesOutCore == ASSUME SysCore, NEW i, RequestTimesOut(i) PROVE SysCore'
<1>1. /\ i \in DOMAIN calls /\ calls[i].awaited /\ Turn /\ Fault
      /\ UNCHANGED <<service, returned>>
      /\ Continue(GiveUp(client, i), calls[i], "failed", Unanswered, FALSE)
  BY DEF RequestTimesOut
<1>2. PICK e : e = GiveUp(client, i)
  OBVIOUS
<1>3. PICK r : r = "failed"
  OBVIOUS
<1>4. Rest(e, calls[i])
  BY <1>1, <1>2, RestGivenUp
<1>5. Resumes(e, calls[i], r, Unanswered)
  BY <1>1, <1>3, <1>4, CallFacts, UnansweredType DEF Resumes
<1>6. Frame
  BY <1>1, CoreParts, FaultCounts DEF Frame, Turn
<1>7. PICK no : Continue(e, calls[i], r, Unanswered, no)
  BY <1>1, <1>2, <1>3
<1>8. QED
  BY <1>5, <1>6, <1>7, ContinueCore

LEMMA BridgeFailsCore == ASSUME SysCore, NEW i, BridgeFails(i) PROVE SysCore'
<1>1. /\ i \in DOMAIN calls /\ Turn /\ Fault /\ UNCHANGED <<service, returned>>
  BY DEF BridgeFails
<1>2. PICK e : e = Without(client, i)
  OBVIOUS
<1>3. Rest(e, calls[i])
  BY <1>1, <1>2, RestWithout
<1>4. Frame
  BY <1>1, CoreParts, FaultCounts DEF Frame, Turn
<1>5. CASE calls[i].awaited
  <2>1. PICK r : r = "failed"
    OBVIOUS
  <2>2. PICK no : Continue(e, calls[i], r, Unanswered, no)
    BY <1>2, <1>5, <2>1 DEF BridgeFails
  <2>3. Resumes(e, calls[i], r, Unanswered)
    BY <1>1, <1>3, <1>5, <2>1, CallFacts, UnansweredType DEF Resumes
  <2>4. QED
    BY <1>4, <2>2, <2>3, ContinueCore
<1>6. CASE ~calls[i].awaited
  <2>1. client' = e /\ UNCHANGED vars
    BY <1>2, <1>6 DEF BridgeFails, ControllerUnchanged
  <2>2. ~IsWatching(calls[i])
    BY <1>6 DEF IsWatching
  <2>3. Sound(client', StartsOut, StopsOut, LiveNow) /\ client'.running = client.running
        /\ (Watched(client) => Watched(client'))
    BY <1>3, <2>1, <2>2 DEF Rest
  <2>4. state = "ready" /\ ~disposed => client'.running /\ Watched(client')
    BY <2>3, ReadyRuns
  <2>5. QED
    BY <1>4, <2>1, <2>3, <2>4, StaysCore DEF Frame
<1>7. QED
  BY <1>5, <1>6

-----------------------------------------------------------------------------
(* The service.                                                            *)

LEMMA HandleFacts ==
  ASSUME NEW s \in Services, NEW sid \in Nat, NEW fresh \in Nat, fresh # 0,
         NEW op \in {"handshake", "health", "attach", "detach", "shutdown"},
         NEW done, done = Handle(s, op, sid, fresh)
  PROVE  /\ done.service \in Services /\ done.answer \in AnswerType
         /\ done.answer.is # "none"
         /\ op = "handshake" => done.answer.is = "ok" /\ done.answer.id = fresh
<1> USE DEF Handle, Services, AnswerType, Answer, Good, Lost, NoSession
<1>1. CASE op = "handshake"
  BY <1>1 DEF Handshake
<1>2. CASE op # "handshake" /\ ~Authenticated(s, sid)
  BY <1>2
<1>3. CASE Authenticated(s, sid) /\ op \in {"health", "shutdown"}
  BY <1>3
<1>4. CASE Authenticated(s, sid) /\ op = "attach"
  BY <1>4 DEF Attach, Refused
<1>5. CASE Authenticated(s, sid) /\ op = "detach"
  BY <1>5 DEF Detach
<1>6. QED
  BY <1>1, <1>2, <1>3, <1>4, <1>5

LEMMA ReplyKeeps ==
  ASSUME SysCore, NEW i \in DOMAIN calls, ~IsAnswered(calls[i]),
         \A j \in 1 .. i - 1 : calls[j].answer # Unanswered,
         NEW a \in AnswerType, a.is # "none",
         calls[i].op = "handshake" => a.is # "lost" /\ (a.is = "ok" => a.id # 0),
         NEW d, d = Reply(client, i, a)
  PROVE  /\ Sound(d, StartsOut, StopsOut, LiveNow) /\ d.running = client.running
         /\ d.attached = client.attached
         /\ Watched(client) => Watched(d)
<1>1. client \in ClientType /\ ClientOk(client) /\ Link(client, StartsOut, StopsOut, LiveNow)
  BY DEF SysCore, SysTypeOK, LinkInv
<1>2. CASE ~calls[i].awaited
  <2>1. d = Without(client, i) /\ ~IsWatching(calls[i])
    BY <1>2 DEF Reply, calls, IsWatching
  <2>2. QED
    BY <2>1, RestWithout DEF Rest
<1>3. CASE calls[i].awaited
  <2>1. d = Handed(client, i, a)
    BY <1>3 DEF Reply, calls, Handed
  <2>2. i \in DOMAIN client.calls /\ i \in Nat /\ DOMAIN client.calls \subseteq Nat \ {0}
    BY <1>1 DEF ClientType, calls
  <2>3. /\ d \in ClientType /\ Same(d, client)
        /\ DOMAIN d.calls = DOMAIN client.calls
        /\ \A j \in DOMAIN client.calls :
              LET k == d.calls[j]
                  l == client.calls[j] IN
              /\ SameRequest(k, l) /\ k.why = l.why /\ k.awaited = l.awaited
              /\ k.life = l.life /\ k.gen = l.gen
              /\ k.answer = IF j = i THEN a ELSE l.answer
    BY <1>1, <2>1, <2>2, HandedFacts
  <2>4. \A j \in DOMAIN client.calls : j < i => IsAnswered(client.calls[j])
    <3>1. \A j \in DOMAIN client.calls : j < i => j \in 1 .. i - 1
      BY <2>2
    <3>2. QED
      BY <3>1 DEF calls, IsAnswered
  <2>5. ClientOk(d)
    BY <1>1, <2>1, <2>2, <2>4, OkHanded DEF calls
  <2>6. Link(d, StartsOut, StopsOut, LiveNow)
    <3>1. d.running => client.running
      BY <2>3 DEF Same
    <3>2. \A j \in DOMAIN client.calls :
            LET k == d.calls[j]
                l == client.calls[j] IN
            /\ SameRequest(k, l) /\ k.life = l.life /\ (k.awaited => l.awaited)
            /\ k.why \in {l.why, "orphan"}
      BY <2>3
    <3>3. QED
      BY <1>1, <2>3, <3>1, <3>2, LinkKept
  <2>7. Watched(client) => Watched(d)
    <3>1. d.timer = client.timer
      BY <2>3 DEF Same
    <3>2. /\ DOMAIN client.calls \subseteq DOMAIN d.calls
          /\ \A j \in DOMAIN client.calls : /\ d.calls[j].awaited = client.calls[j].awaited
                                            /\ d.calls[j].why = client.calls[j].why
      BY <2>3
    <3>3. QED
      BY <3>1, <3>2, WatchedKept
  <2>8. QED
    BY <2>3, <2>5, <2>6, <2>7 DEF Sound, Same
<1>4. QED
  BY <1>2, <1>3

LEMMA ReplyCore ==
  ASSUME SysCore, UNCHANGED <<vars, returned>>, service' \in Services, faults' \in 0 .. MaxFaults,
         NEW i \in DOMAIN calls, ~IsAnswered(calls[i]),
         \A j \in 1 .. i - 1 : calls[j].answer # Unanswered,
         NEW a \in AnswerType, a.is # "none",
         calls[i].op = "handshake" => a.is # "lost" /\ (a.is = "ok" => a.id # 0),
         client' = Reply(client, i, a)
  PROVE  SysCore'
<1>1. PICK d : d = client'
  OBVIOUS
<1>2. /\ Sound(d, StartsOut, StopsOut, LiveNow) /\ d.running = client.running
      /\ Watched(client) => Watched(d)
  BY <1>1, ReplyKeeps
<1>3. Sound(client', StartsOut, StopsOut, LiveNow) /\ client'.running = client.running
  BY <1>1, <1>2
<1>4. state = "ready" /\ ~disposed => client'.running /\ Watched(client')
  BY <1>1, <1>2, ReadyRuns
<1>5. QED
  BY <1>3, <1>4, StaysCore

LEMMA HandlesCore == ASSUME SysCore, NEW i, ServiceHandles(i) PROVE SysCore'
<1>1. /\ i \in DOMAIN calls /\ calls[i].answer = Unanswered
      /\ \A j \in 1 .. i - 1 : calls[j].answer # Unanswered
      /\ UNCHANGED <<vars, returned, faults>>
  BY DEF ServiceHandles
<1>2. PICK done : done = Handle(service, calls[i].op, calls[i].sid, FreshId)
  OBVIOUS
<1>3. service' = done.service /\ client' = Reply(client, i, done.answer)
  BY <1>2 DEF ServiceHandles
<1>4. FreshId \in Nat /\ FreshId # 0
  <2>1. SysTypeOK
    BY DEF SysCore
  <2>2. QED
    BY <2>1, FreshIdIsFresh
<1>5. calls[i].sid \in Nat /\ calls[i].op \in {"handshake", "health", "attach", "detach", "shutdown"}
  BY <1>1, CallFacts DEF Calls
<1>6. /\ done.service \in Services /\ done.answer \in AnswerType
      /\ done.answer.is # "none"
      /\ calls[i].op = "handshake" => done.answer.is = "ok" /\ done.answer.id = FreshId
  <2>1. PICK op \in {"handshake", "health", "attach", "detach", "shutdown"} : op = calls[i].op
    BY <1>5
  <2>2. PICK sid \in Nat : sid = calls[i].sid
    BY <1>5
  <2>3. PICK fresh \in Nat : fresh = FreshId /\ fresh # 0
    BY <1>4
  <2>4. service \in Services
    BY CoreParts
  <2>5. done = Handle(service, op, sid, fresh)
    BY <1>2, <2>1, <2>2, <2>3
  <2>6. /\ done.service \in Services /\ done.answer \in AnswerType
        /\ done.answer.is # "none"
        /\ op = "handshake" => done.answer.is = "ok" /\ done.answer.id = fresh
    BY <2>3, <2>4, <2>5, HandleFacts
  <2>7. QED
    BY <2>1, <2>3, <2>6
<1>7. calls[i].op = "handshake" => done.answer.is # "lost" /\ (done.answer.is = "ok" => done.answer.id # 0)
  BY <1>4, <1>6
<1>8. ~IsAnswered(calls[i])
  BY <1>1 DEF IsAnswered
<1>9. faults' \in 0 .. MaxFaults /\ service' \in Services /\ UNCHANGED <<vars, returned>>
  BY <1>1, <1>3, <1>6, CoreParts
<1>10. QED
  BY <1>1, <1>3, <1>6, <1>7, <1>8, <1>9, ReplyCore

LEMMA RefusedCore == ASSUME SysCore, NEW i, HandshakeRefused(i) PROVE SysCore'
<1>1. /\ i \in DOMAIN calls /\ calls[i].answer = Unanswered /\ Fault
      /\ \A j \in 1 .. i - 1 : calls[j].answer # Unanswered
      /\ client' = Reply(client, i, Refused)
      /\ UNCHANGED <<vars, returned, service>>
  BY DEF HandshakeRefused
<1>2. Refused \in AnswerType /\ Refused.is = "refused"
  BY DEF Refused, Answer, AnswerType
<1>3. ~IsAnswered(calls[i])
  BY <1>1 DEF IsAnswered
<1>4. faults' \in 0 .. MaxFaults /\ service' \in Services /\ UNCHANGED <<vars, returned>>
  BY <1>1, CoreParts, FaultCounts
<1>5. QED
  BY <1>1, <1>2, <1>3, <1>4, ReplyCore

LEMMA SessionEndsCore == ASSUME SysCore, SessionEnds PROVE SysCore'
<1>1. /\ Fault /\ service' \in {NoSession, Handshake(FreshId).service}
      /\ UNCHANGED <<vars, client, returned>>
  BY DEF SessionEnds
<1>2. service' \in Services
  <2>1. SysTypeOK
    BY DEF SysCore
  <2>2. FreshId \in Nat
    BY <2>1, FreshIdIsFresh
  <2>3. PICK fresh \in Nat : fresh = FreshId
    BY <2>2
  <2>4. Handshake(fresh).service = [id |-> fresh, attached |-> FALSE]
    <3>1. PICK s : s = [id |-> fresh, attached |-> FALSE]
      OBVIOUS
    <3>2. Handshake(fresh).service = s
      BY <3>1 DEF Handshake
    <3>3. QED
      BY <3>1, <3>2
  <2>5. service' = NoSession \/ service' = [id |-> fresh, attached |-> FALSE]
    BY <1>1, <2>3, <2>4
  <2>6. NoSession \in Services /\ [id |-> fresh, attached |-> FALSE] \in Services
    BY DEF Services, NoSession
  <2>7. QED
    BY <2>5, <2>6
<1>3. client' = client
  BY <1>1
<1>4. Sound(client', StartsOut, StopsOut, LiveNow)
  BY <1>3, CoreParts
<1>5. state = "ready" /\ ~disposed => client'.running /\ Watched(client')
  <2>1. state = "ready" /\ ~disposed => client.running /\ Watched(client)
    BY ReadyRuns
  <2>2. Watched(client) => Watched(client')
    BY <1>3 DEF Watched
  <2>3. client'.running = client.running
    BY <1>3
  <2>4. QED
    BY <2>1, <2>2, <2>3
<1>6. faults' \in 0 .. MaxFaults
  BY <1>1, CoreParts, FaultCounts
<1>7. client'.running => client.running \/ LiveNow # 0
  BY <1>3
<1>8. UNCHANGED vars /\ returned' = returned
  BY <1>1
<1>9. QED
  BY <1>2, <1>4, <1>5, <1>6, <1>7, <1>8, StaysCore

-----------------------------------------------------------------------------
(* What the controller asks of the backend.                                *)

LEMMA StartForCases ==
  ASSUME NEW c, StartFor(c)
  PROVE  \/ UNCHANGED <<state, operation, operationSeq, ops>>
         \/ Begin("start") /\ state' = "starting" /\ state \in Startable /\ ~disposed
<1>1. CASE StartAnswersAtOnce(c) \/ JoinStart(c)
  BY <1>1 DEF StartAnswersAtOnce, JoinStart, SnapshotUnchanged, OperationUnchanged
<1>2. CASE StartBackend(c)
  BY <1>2 DEF StartBackend, BeginStart, MoveTo
<1>3. QED
  BY <1>1, <1>2 DEF StartFor

LEMMA StopForCases ==
  ASSUME NEW c, NEW what, StopFor(c, what)
  PROVE  \/ UNCHANGED <<state, operation, operationSeq, ops>>
         \/ Begin("stop") /\ state' = "stopping" /\ state \in {"ready", "error"} /\ ~disposed
         \/ Abandon /\ state' = "stopped" /\ state = "starting" /\ ~disposed
<1>1. CASE NothingToStop(c, what) \/ JoinStop(c, what)
  BY <1>1 DEF NothingToStop, JoinStop, SnapshotUnchanged, OperationUnchanged
<1>2. CASE AbandonStart(c, what)
  BY <1>2 DEF AbandonStart, MoveTo
<1>3. CASE StopBackend(c, what)
  BY <1>3 DEF StopBackend, BeginStop, MoveTo, Stoppable
<1>4. QED
  BY <1>1, <1>2, <1>3 DEF StopFor

LEMMA RequestCases ==
  ASSUME NEW c, Request(c)
  PROVE  /\ disposed' = disposed
         /\ \/ UNCHANGED <<state, operation, operationSeq, ops>>
            \/ Begin("start") /\ state' = "starting" /\ state \in Startable /\ ~disposed
            \/ Begin("stop") /\ state' = "stopping" /\ state \in {"ready", "error"} /\ ~disposed
            \/ Abandon /\ state' = "stopped" /\ state = "starting" /\ ~disposed
<1>1. disposed' = disposed
  BY DEF Request, Start, Stop, Restart, Startup, Shutdown
<1>2. \/ StartFor(c)
      \/ \E what \in {"stop", "restart", "shutdown"} : StopFor(c, what)
      \/ UNCHANGED <<state, operation, operationSeq, ops>>
  <2>1. CASE Start(c) \/ Stop(c)
    BY <2>1 DEF Start, Stop
  <2>2. CASE Restart(c) \/ Shutdown(c)
    BY <2>2 DEF Restart, Shutdown
  <2>3. CASE Startup(c)
    BY <2>3 DEF Startup
  <2>4. QED
    BY <2>1, <2>2, <2>3 DEF Request
<1>3. QED
  BY <1>1, <1>2, StartForCases, StopForCases

(* Nothing the invariant speaks of has changed.                            *)
LEMMA QuietCore ==
  ASSUME SysCore, LifecycleInv', UNCHANGED <<state, operation, operationSeq, ops, disposed>>,
         UNCHANGED localVars
  PROVE  SysCore'
<1>1. UNCHANGED <<service, client, returned, faults>>
  BY DEF localVars
<1>2. Begun' = Begun
  BY DEF Begun
<1>3. InBackend("start")' = InBackend("start") /\ InBackend("stop")' = InBackend("stop")
  BY <1>2 DEF InBackend
<1>4. LiveNow' = LiveNow
  BY DEF LiveNow
<1>5. MayRun' = MayRun
  BY <1>4 DEF MayRun
<1>6. AnnouncedIsLive' = AnnouncedIsLive
  BY <1>2 DEF AnnouncedIsLive, IsLive
<1>7. StartsOut' = StartsOut /\ StopsOut' = StopsOut
  BY <1>1, <1>3 DEF StartsOut, StopsOut
<1>8. Sound(client', StartsOut', StopsOut', LiveNow')
  BY <1>1, <1>4, <1>7, CoreParts
<1>9. ~disposed' => RunOk(client', state', MayRun')
  BY <1>1, <1>5, CoreParts DEF RunInv
<1>10. QED
  BY <1>1, <1>3, <1>4, <1>6, <1>8, <1>9, CoreOf, CoreParts

LEMMA BeginCore ==
  ASSUME SysCore, LifecycleInv', NEW kind \in Kinds, Begin(kind), state' = BusyOf(kind),
         state \notin Busy, kind = "start" => state # "ready", ~disposed, disposed' = disposed,
         UNCHANGED localVars
  PROVE  SysCore'
<1>1. UNCHANGED <<service, client, returned, faults>>
  BY DEF localVars
<1>2. /\ InBackend("start")' = InBackend("start") /\ InBackend("stop")' = InBackend("stop")
      /\ LiveNow = 0 /\ LiveNow' = 0 /\ AnnouncedIsLive'
      /\ kind = "stop" => MayRun'
  BY CoreParts, BeginsOut
<1>3. StartsOut' = StartsOut /\ StopsOut' = StopsOut
  BY <1>1, <1>2 DEF StartsOut, StopsOut
<1>4. Sound(client', StartsOut', StopsOut', LiveNow')
  BY <1>1, <1>2, <1>3, CoreParts
<1>5. RunOk(client', state', MayRun')
  <2>1. state' # "ready"
    BY DEF BusyOf, Kinds
  <2>2. RunOk(client, state, MayRun)
    BY CoreParts DEF RunInv
  <2>3. kind = "start" => ~MayRun
    BY <1>2 DEF MayRun, Busy
  <2>4. client.running => MayRun'
    BY <1>2, <2>2, <2>3 DEF RunOk, Kinds
  <2>5. QED
    BY <1>1, <2>1, <2>4 DEF RunOk
<1>6. QED
  BY <1>1, <1>2, <1>4, <1>5, CoreOf, CoreParts

LEMMA ReleaseKeeps ==
  ASSUME NEW starts, NEW stops, NEW live, NEW c, Sound(c, starts, stops, live), 0 \notin starts,
         NEW d, d = StopCalled(c, "release", 0)
  PROVE  /\ d \in ClientType /\ ClientOk(d) /\ Link(d, starts, stops, 0)
         /\ ~d.running /\ (d.attached => c.attached)
         /\ \A x : NoneWaits(c, x) => NoneWaits(d, x)
<1>1. c \in ClientType /\ ClientOk(c) /\ Link(c, starts, stops, live)
  BY DEF Sound
<1>2. PICK why \in {"stop", "release"} : why = "release"
  OBVIOUS
<1>3. PICK n \in Nat : n = 0
  OBVIOUS
<1>4. d = StopCalled(c, why, n)
  BY <1>2, <1>3
<1>5. MayClose(c, stops, why, n)
  BY <1>2 DEF MayClose
<1>6. /\ d \in ClientType /\ ClientOk(d) /\ Link(d, starts, stops, 0)
      /\ ~d.running /\ (d.attached => c.attached) /\ OnlyMoreWaits(c, d, why, n)
  BY <1>1, <1>4, <1>5, StopCalledKeeps
<1>7. QED
  BY <1>2, <1>6 DEF OnlyMoreWaits

(* stop() without waiting, after abort(): left are the operations abort()  *)
(* has ended.                                                              *)
LEMMA ReleasedCore ==
  ASSUME SysCore, LifecycleInv', service' \in Services, faults' \in 0 .. MaxFaults,
         InBackend("start")' = InBackend("start"), InBackend("stop")' = InBackend("stop"),
         LiveNow' = 0, AnnouncedIsLive', ~disposed' => state' # "ready",
         NEW d, Sound(d, StartsOut, StopsOut, LiveNow), client' = StopCalled(d, "release", 0),
         NEW left, returned' = returned \cup left,
         \A n \in left : left = {n} /\ n \in InBackend("start") /\ NoneWaits(d, n)
  PROVE  SysCore'
<1>1. PICK e : e = client'
  OBVIOUS
<1>2. 0 \notin StartsOut
  BY CoreParts
<1>6. /\ e \in ClientType /\ ClientOk(e) /\ Link(e, StartsOut, StopsOut, 0)
      /\ ~e.running
      /\ \A x : NoneWaits(d, x) => NoneWaits(e, x)
  BY <1>1, <1>2, ReleaseKeeps
<1>7. \A m \in left : NoneWaits(e, m)
  BY <1>6
<1>8. Link(e, StartsOut', StopsOut', 0)
  <2>1. CASE left = {}
    <3>1. StartsOut' = StartsOut /\ StopsOut' = StopsOut
      BY <2>1 DEF StartsOut, StopsOut
    <3>2. QED
      BY <1>6, <3>1
  <2>2. CASE left # {}
    <3>1. PICK m \in left : left = {m} /\ NoneWaits(e, m)
      BY <1>7, <2>2
    <3>2. Link(e, StartsOut \ {m}, StopsOut \ {m}, 0)
      <4>1. Link(e, StartsOut \ {m}, StopsOut \ {m}, IF 0 = m THEN 0 ELSE 0)
        BY <1>2, <1>6, <3>1, LinkLeft
      <4>2. QED
        BY <4>1
    <3>3. StartsOut' = StartsOut \ {m} /\ StopsOut' = StopsOut \ {m}
      BY <3>1 DEF StartsOut, StopsOut
    <3>4. QED
      BY <3>2, <3>3
  <2>3. QED
    BY <2>1, <2>2
<1>9. Sound(client', StartsOut', StopsOut', LiveNow')
  BY <1>1, <1>6, <1>8 DEF Sound
<1>10. returned' \subseteq InBackend("start")' \cup InBackend("stop")'
  BY CoreParts
<1>11. (LiveNow \notin returned)'
  <2>1. 0 \notin returned /\ 0 \notin InBackend("start")
    BY CoreParts DEF InBackend
  <2>2. QED
    BY <2>1
<1>12. ~disposed' => RunOk(client', state', MayRun')
  BY <1>1, <1>6 DEF RunOk
<1>13. QED
  BY <1>9, <1>10, <1>11, <1>12, CoreOf

LEMMA AbortLeaves ==
  ASSUME SysCore, NEW n, NEW d, d = Aborted(client, n)
  PROVE  /\ Sound(d, StartsOut, StopsOut, LiveNow)
         /\ n \in Begun => \A m \in ReturnsOnAbort(n) : /\ ReturnsOnAbort(n) = {m}
                                                        /\ m \in InBackend("start") /\ NoneWaits(d, m)
<1>1. client \in ClientType /\ ClientOk(client) /\ Link(client, StartsOut, StopsOut, LiveNow)
  BY CoreParts DEF Sound
<1>2. /\ d \in ClientType /\ ClientOk(d) /\ Link(d, StartsOut, StopsOut, LiveNow)
      /\ (\E i \in DOMAIN client.calls : Starts(client.calls[i], n)) => NoneWaits(d, n)
  BY <1>1, AbortedKeeps
<1>3. ASSUME n \in Begun, NEW m \in ReturnsOnAbort(n)
      PROVE  ReturnsOnAbort(n) = {m} /\ m \in InBackend("start") /\ NoneWaits(d, m)
  <2>1. /\ ReturnsOnAbort(n) = {n} /\ m = n /\ ops[n].kind = "start" /\ ops[n].phase = "calling"
        /\ \E i \in DOMAIN client.calls : Starts(client.calls[i], n)
    BY <1>3 DEF ReturnsOnAbort, calls
  <2>2. QED
    BY <1>2, <1>3, <2>1 DEF InBackend
<1>4. QED
  BY <1>2, <1>3 DEF Sound

LEMMA AskCore == ASSUME SysCore, NEW c \in Clients, Ask(c) PROVE SysCore'
<1>1. Turn /\ Request(c) /\ UNCHANGED <<service, faults>>
  BY DEF Ask, LocalUnchanged
<1>2. LifecycleInv'
  BY <1>1, CoreParts, ClientInv
<1>3. /\ disposed' = disposed
      /\ \/ UNCHANGED <<state, operation, operationSeq, ops>>
         \/ Begin("start") /\ state' = "starting" /\ state \in Startable /\ ~disposed
         \/ Begin("stop") /\ state' = "stopping" /\ state \in {"ready", "error"} /\ ~disposed
         \/ Abandon /\ state' = "stopped" /\ state = "starting" /\ ~disposed
  BY <1>1, RequestCases
<1>4. CASE UNCHANGED <<state, operation, operationSeq, ops>>
  <2>1. UNCHANGED localVars
    BY <1>1, <1>4 DEF Ask, localVars
  <2>2. QED
    BY <1>2, <1>3, <1>4, <2>1, QuietCore
<1>5. CASE Begin("start") /\ state' = "starting" /\ state \in Startable /\ ~disposed
  <2>1. UNCHANGED localVars
    BY <1>1, <1>5 DEF Ask, localVars
  <2>2. PICK kind \in Kinds : kind = "start"
    BY DEF Kinds
  <2>3. Begin(kind) /\ state' = BusyOf(kind)
    BY <1>5, <2>2 DEF BusyOf
  <2>4. state \notin Busy /\ state # "ready"
    BY <1>5 DEF Startable, Busy
  <2>5. QED
    BY <1>2, <1>3, <1>5, <2>1, <2>3, <2>4, BeginCore
<1>6. CASE Begin("stop") /\ state' = "stopping" /\ state \in {"ready", "error"} /\ ~disposed
  <2>1. UNCHANGED localVars
    BY <1>1, <1>6 DEF Ask, localVars
  <2>2. PICK kind \in Kinds : kind = "stop"
    BY DEF Kinds
  <2>3. Begin(kind) /\ state' = BusyOf(kind) /\ ~(kind = "start")
    BY <1>6, <2>2 DEF BusyOf
  <2>4. state \notin Busy
    BY <1>6 DEF Busy
  <2>5. QED
    BY <1>2, <1>3, <1>6, <2>1, <2>3, <2>4, BeginCore
<1>7. CASE Abandon /\ state' = "stopped" /\ state = "starting" /\ ~disposed
  <2>1. client' = Released(operation) /\ returned' = ReturnsOnAbort(operation) /\ returned = {}
    BY <1>1, <1>7 DEF Ask, Turn
  <2>2. operation \in Begun
    BY <1>7, CoreParts DEF LifecycleInv, BusyIsOwned, Busy, TypeOK, Begun
  <2>3. HandlersRan
    BY <1>1 DEF Turn, Settled
  <2>4. /\ InBackend("start")' = InBackend("start") /\ InBackend("stop")' = InBackend("stop")
        /\ LiveNow' = 0 /\ AnnouncedIsLive'
    BY <1>7, <2>3, CoreParts, AbandonOut
  <2>5. PICK d : d = Aborted(client, operation)
    OBVIOUS
  <2>6. client' = StopCalled(d, "release", 0)
    BY <2>1, <2>5 DEF Released
  <2>7. PICK left : left = ReturnsOnAbort(operation)
    OBVIOUS
  <2>8. /\ Sound(d, StartsOut, StopsOut, LiveNow)
        /\ \A m \in left : left = {m} /\ m \in InBackend("start") /\ NoneWaits(d, m)
    BY <2>2, <2>5, <2>7, AbortLeaves
  <2>9. returned' = returned \cup left
    BY <2>1, <2>7
  <2>10. service' \in Services /\ faults' \in 0 .. MaxFaults
    BY <1>1, CoreParts
  <2>11. ~disposed' => state' # "ready"
    BY <1>7
  <2>12. QED
    BY <1>2, <2>4, <2>6, <2>8, <2>9, <2>10, <2>11, ReleasedCore
<1>8. QED
  BY <1>3, <1>4, <1>5, <1>6, <1>7

LEMMA TimeOutCore == ASSUME SysCore, NEW n \in Begun, TimeOut(n) PROVE SysCore'
<1>1. /\ Turn /\ ~ops[n].settled /\ TimerFires(n) /\ Fault
      /\ client' = Released(n) /\ returned' = ReturnsOnAbort(n) /\ service' = service
      /\ returned = {}
  BY DEF TimeOut, Turn
<1>2. LifecycleInv'
  BY <1>1, CoreParts, TimerInv
<1>3. /\ InBackend("start")' = InBackend("start") /\ InBackend("stop")' = InBackend("stop")
      /\ LiveNow' = 0 /\ state' = "error" /\ AnnouncedIsLive'
  BY <1>1, CoreParts, TimerOut
<1>4. PICK d : d = Aborted(client, n)
  OBVIOUS
<1>5. client' = StopCalled(d, "release", 0)
  BY <1>1, <1>4 DEF Released
<1>6. PICK left : left = ReturnsOnAbort(n)
  OBVIOUS
<1>7. /\ Sound(d, StartsOut, StopsOut, LiveNow)
      /\ \A m \in left : left = {m} /\ m \in InBackend("start") /\ NoneWaits(d, m)
  BY <1>4, <1>6, AbortLeaves
<1>8. returned' = returned \cup left
  BY <1>1, <1>6
<1>9. service' \in Services /\ faults' \in 0 .. MaxFaults
  BY <1>1, CoreParts, FaultCounts
<1>10. ~disposed' => state' # "ready"
  BY <1>3
<1>11. QED
  BY <1>2, <1>3, <1>5, <1>7, <1>8, <1>9, <1>10, ReleasedCore

LEMMA CloseDownCore == ASSUME SysCore, NEW c \in Clients, CloseDown(c) PROVE SysCore'
<1>1. Dispose(c) /\ UNCHANGED <<service, faults>>
  BY DEF CloseDown, LocalUnchanged
<1>2. LifecycleInv'
  BY <1>1, CoreParts, DisposeInv
<1>3. HandlersRan /\ Abandon /\ disposed' = TRUE
  BY <1>1 DEF Dispose
<1>4. /\ InBackend("start")' = InBackend("start") /\ InBackend("stop")' = InBackend("stop")
      /\ LiveNow' = 0 /\ AnnouncedIsLive'
  BY <1>3, CoreParts, AbandonOut
<1>5. service' \in Services /\ faults' \in 0 .. MaxFaults
  BY <1>1, CoreParts
<1>6. ~disposed' => state' # "ready"
  BY <1>3
<1>7. CASE operation = 0
  <2>1. PICK d : d = client
    OBVIOUS
  <2>2. client' = StopCalled(d, "release", 0) /\ returned' = returned
    BY <1>7, <2>1 DEF CloseDown
  <2>3. PICK left : left = {}
    OBVIOUS
  <2>4. /\ Sound(d, StartsOut, StopsOut, LiveNow)
        /\ \A m \in left : left = {m} /\ m \in InBackend("start") /\ NoneWaits(d, m)
    BY <2>1, <2>3, CoreParts
  <2>5. returned' = returned \cup left
    BY <2>2, <2>3
  <2>6. QED
    BY <1>2, <1>4, <1>5, <1>6, <2>2, <2>4, <2>5, ReleasedCore
<1>8. CASE operation # 0
  <2>1. operation \in Begun
    BY <1>8, CoreParts DEF TypeOK, Begun
  <2>2. PICK d : d = Aborted(client, operation)
    OBVIOUS
  <2>3. client' = StopCalled(d, "release", 0)
    BY <1>8, <2>2 DEF CloseDown, Released
  <2>4. PICK left : left = ReturnsOnAbort(operation)
    OBVIOUS
  <2>5. /\ Sound(d, StartsOut, StopsOut, LiveNow)
        /\ \A m \in left : left = {m} /\ m \in InBackend("start") /\ NoneWaits(d, m)
    BY <2>1, <2>2, <2>4, AbortLeaves
  <2>6. returned' = returned \cup left
    BY <1>8, <2>4 DEF CloseDown
  <2>7. QED
    BY <1>2, <1>4, <1>5, <1>6, <2>3, <2>5, <2>6, ReleasedCore
<1>9. QED
  BY <1>7, <1>8

LEMMA ReturnAtOnceCore == ASSUME SysCore, NEW n \in Begun, ReturnAtOnce(n) PROVE SysCore'
<1>1. PICK v : v = IF ops[n].kind = "start" THEN "cancelled" ELSE "stopped"
  OBVIOUS
<1>2. /\ n \in returned /\ Tells(n, v) /\ returned' = returned \ {n}
      /\ client' = client /\ UNCHANGED <<service, faults>>
  BY <1>1 DEF ReturnAtOnce, LocalUnchanged
<1>3. v \in Verdicts(ops[n].kind) /\ v # "started"
  BY <1>1 DEF Verdicts
<1>4. Sound(client', StartsOut, StopsOut, LiveNow)
  BY <1>2, CoreParts
<1>5. NoneWaits(client', n)
  <2>1. n \notin StartsOut /\ n \notin StopsOut
    BY <1>2 DEF StartsOut, StopsOut
  <2>2. Link(client, StartsOut, StopsOut, LiveNow)
    BY CoreParts DEF Sound
  <2>3. QED
    BY <1>2, <2>1, <2>2, NewcomerWaitsForNothing
<1>6. LiveNow # n
  BY <1>2, CoreParts
<1>7. state = "ready" /\ ~disposed => client'.running /\ Watched(client')
  BY <1>2, ReadyRuns
<1>8. service' \in Services /\ faults' \in 0 .. MaxFaults
  BY <1>2, CoreParts
<1>9. client'.running => client.running
  BY <1>2
<1>10. Tells(n, v) /\ returned' = returned \ {n}
  BY <1>2
<1>11. QED
  BY <1>3, <1>4, <1>5, <1>6, <1>7, <1>8, <1>9, <1>10, TellsCore

LEMMA InvokeCore == ASSUME SysCore, NEW n \in Begun, Invoke(n) PROVE SysCore'
<1>1. InvokeBackend(n) /\ UNCHANGED <<service, faults>>
  BY DEF Invoke, LocalUnchanged
<1>2. LifecycleInv'
  BY <1>1, CoreParts, InvokeInv
<1>3. /\ LiveNow = 0 /\ ~disposed /\ disposed' = disposed /\ state' = state
      /\ ops[n].kind = "start" =>
           /\ state = "starting" /\ ~MayRun
           /\ n \notin InBackend("start") /\ n \notin InBackend("stop")
           /\ InBackend("start")' = InBackend("start") \cup {n}
           /\ InBackend("stop")' = InBackend("stop") /\ LiveNow' = n
      /\ ops[n].kind # "start" =>
           /\ state = "stopping" /\ n \notin InBackend("start") /\ n \notin InBackend("stop")
           /\ InBackend("start")' = InBackend("start")
           /\ InBackend("stop")' = InBackend("stop") \cup {n} /\ LiveNow' = 0
      /\ AnnouncedIsLive'
  BY <1>1, CoreParts, InvokeOut
<1>4. /\ client \in ClientType /\ ClientOk(client) /\ Link(client, StartsOut, StopsOut, 0)
      /\ 0 \notin StartsOut /\ n \in Nat /\ n # 0
      /\ returned \subseteq InBackend("start") \cup InBackend("stop") /\ 0 \notin returned
  BY <1>3, CoreParts DEF Sound
<1>5. n \notin StartsOut /\ n \notin StopsOut /\ n \notin returned
  BY <1>3, <1>4 DEF StartsOut, StopsOut
<1>6. service' \in Services /\ faults' \in 0 .. MaxFaults
  BY <1>1, CoreParts
<1>7. PICK d : d = client'
  OBVIOUS
<1>8. CASE ops[n].kind = "start"
  <2>1. d = StartCalled(client, n) /\ returned' = returned
    BY <1>7, <1>8 DEF Invoke
  <2>2. ~client.running
    <3>1. RunOk(client, state, MayRun)
      BY <1>3, CoreParts DEF RunInv
    <3>2. QED
      BY <1>3, <1>8, <3>1 DEF RunOk
  <2>3. /\ d \in ClientType /\ ClientOk(d) /\ Link(d, StartsOut \cup {n}, StopsOut, n)
        /\ Same(d, client)
    BY <1>4, <1>5, <2>1, <2>2, StartCalledKeeps
  <2>4. StartsOut' = StartsOut \cup {n} /\ StopsOut' = StopsOut
    BY <1>3, <1>5, <1>8, <2>1 DEF StartsOut, StopsOut
  <2>5. Sound(client', StartsOut', StopsOut', LiveNow')
    BY <1>3, <1>7, <1>8, <2>3, <2>4 DEF Sound
  <2>6. ~disposed' => RunOk(client', state', MayRun')
    BY <1>3, <1>7, <1>8, <2>2, <2>3 DEF RunOk, Same
  <2>7. returned' \subseteq InBackend("start")' \cup InBackend("stop")'
    BY <1>3, <1>4, <1>8, <2>1
  <2>8. (LiveNow \notin returned)'
    BY <1>3, <1>5, <1>8, <2>1
  <2>9. QED
    BY <1>2, <1>3, <1>6, <2>5, <2>6, <2>7, <2>8, CoreOf
<1>9. CASE ops[n].kind # "start"
  <2>1. /\ d = StopCalled(client, "stop", n)
        /\ returned' = IF client.session = 0 THEN returned \cup {n} ELSE returned
    BY <1>7, <1>9 DEF Invoke
  <2>2. PICK starts : starts = StartsOut
    OBVIOUS
  <2>3. PICK stops : stops = StopsOut'
    OBVIOUS
  <2>4. StartsOut' = starts /\ stops = IF client.session = 0 THEN StopsOut ELSE StopsOut \cup {n}
    BY <1>3, <1>4, <1>5, <1>9, <2>1, <2>2, <2>3 DEF StartsOut, StopsOut
  <2>5. Link(client, starts, stops, 0) /\ 0 \notin starts
    <3>1. Link(client, StartsOut, StopsOut \cup {n}, 0)
      BY <1>4, <1>5, LinkEntered
    <3>2. QED
      BY <1>4, <2>2, <2>4, <3>1
  <2>6. NoneWaits(client, n)
    BY <1>4, <1>5, NewcomerWaitsForNothing
  <2>7. PICK why \in {"stop", "release"} : why = "stop"
    OBVIOUS
  <2>8. MayClose(client, stops, why, n) /\ d = StopCalled(client, why, n)
    BY <2>1, <2>4, <2>6, <2>7 DEF MayClose
  <2>9. d \in ClientType /\ ClientOk(d) /\ Link(d, starts, stops, 0) /\ ~d.running
    BY <1>4, <2>5, <2>8, StopCalledKeeps
  <2>10. Sound(client', StartsOut', StopsOut', LiveNow')
    BY <1>3, <1>7, <1>9, <2>3, <2>4, <2>9 DEF Sound
  <2>11. ~disposed' => RunOk(client', state', MayRun')
    BY <1>3, <1>7, <1>9, <2>9 DEF RunOk
  <2>12. returned' \subseteq InBackend("start")' \cup InBackend("stop")'
    BY <1>3, <1>4, <1>9, <2>1
  <2>13. (LiveNow \notin returned)'
    BY <1>3, <1>4, <1>9, <2>1
  <2>14. QED
    BY <1>2, <1>3, <1>6, <2>10, <2>11, <2>12, <2>13, CoreOf
<1>10. QED
  BY <1>8, <1>9

LEMMA BookkeepingCore == ASSUME SysCore, Bookkeeping PROVE SysCore'
<1>1. UNCHANGED localVars
  BY DEF Bookkeeping
<1>2. CASE \E n \in Begun : Settle(n) \/ FinishFailed(n)
  <2>1. PICK n \in Begun : Settle(n) \/ FinishFailed(n)
    BY <1>2
  <2>2. LifecycleInv'
    BY <2>1, CoreParts, SettleInv, FinishFailedInv
  <2>3. /\ InBackend("start")' = InBackend("start") /\ InBackend("stop")' = InBackend("stop")
        /\ LiveNow' = LiveNow /\ state' = state /\ disposed' = disposed /\ AnnouncedIsLive'
        /\ MayRun /\ ~disposed => MayRun'
    BY <2>1, CoreParts, HandlersOut
  <2>4. UNCHANGED <<service, client, returned, faults>>
    BY <1>1 DEF localVars
  <2>5. StartsOut' = StartsOut /\ StopsOut' = StopsOut
    BY <2>3, <2>4 DEF StartsOut, StopsOut
  <2>6. Sound(client', StartsOut', StopsOut', LiveNow')
    BY <2>3, <2>4, <2>5, CoreParts
  <2>7. ~disposed' => RunOk(client', state', MayRun')
    <3>1. ~disposed => RunOk(client, state, MayRun)
      BY CoreParts DEF RunInv
    <3>2. QED
      BY <2>3, <2>4, <3>1 DEF RunOk
  <2>8. returned' \subseteq InBackend("start")' \cup InBackend("stop")' /\ (LiveNow \notin returned)'
    BY <2>3, <2>4, CoreParts
  <2>9. service' \in Services /\ faults' \in 0 .. MaxFaults
    BY <2>4, CoreParts
  <2>10. QED
    BY <2>2, <2>3, <2>6, <2>7, <2>8, <2>9, CoreOf
<1>3. ASSUME NEW c \in Clients, ResumeCaller(c) PROVE SysCore'
  <2>1. LifecycleInv'
    BY <1>3, CoreParts, ClientInv DEF Resume
  <2>2. UNCHANGED <<state, operation, operationSeq, ops, disposed>>
    BY <1>3 DEF ResumeCaller, SnapshotUnchanged, OperationUnchanged
  <2>3. QED
    BY <1>1, <2>1, <2>2, QuietCore
<1>4. ASSUME NEW c \in Clients, ResumeRestart(c) PROVE SysCore'
  <2>1. LifecycleInv'
    BY <1>4, CoreParts, ClientInv DEF Resume
  <2>2. StartFor(c) /\ disposed' = disposed
    BY <1>4 DEF ResumeRestart
  <2>3. CASE UNCHANGED <<state, operation, operationSeq, ops>>
    BY <1>1, <2>1, <2>2, <2>3, QuietCore
  <2>4. CASE Begin("start") /\ state' = "starting" /\ state \in Startable /\ ~disposed
    <3>1. PICK kind \in Kinds : kind = "start"
      BY DEF Kinds
    <3>2. Begin(kind) /\ state' = BusyOf(kind)
      BY <2>4, <3>1 DEF BusyOf
    <3>3. state \notin Busy /\ state # "ready"
      BY <2>4 DEF Startable, Busy
    <3>4. QED
      BY <1>1, <2>1, <2>2, <2>4, <3>2, <3>3, BeginCore
  <2>5. QED
    BY <2>2, <2>3, <2>4, StartForCases
<1>5. QED
  BY <1>2, <1>3, <1>4 DEF Bookkeeping

-----------------------------------------------------------------------------
(* The health timer and the target controller: the client changes, and     *)
(* nothing the controller waits for.                                       *)

Calm(d) ==
  /\ Sound(d, StartsOut, StopsOut, LiveNow)
  /\ d.running = client.running
  /\ Watched(client) => Watched(d)
  /\ d.attached => client.attached

LEMMA CalmCore ==
  ASSUME SysCore, TargetFrame, faults' \in 0 .. MaxFaults, Calm(client')
  PROVE  SysCore'
<1>1. UNCHANGED vars /\ returned' = returned /\ service' \in Services
  BY CoreParts DEF TargetFrame
<1>2. /\ Sound(client', StartsOut, StopsOut, LiveNow) /\ client'.running = client.running
      /\ (Watched(client) => Watched(client'))
  BY DEF Calm
<1>3. state = "ready" /\ ~disposed => client'.running /\ Watched(client')
  BY <1>2, ReadyRuns
<1>4. client'.running => client.running \/ LiveNow # 0
  BY <1>2
<1>5. QED
  BY <1>1, <1>2, <1>3, <1>4, StaysCore

LEMMA CalmClient == ASSUME SysCore PROVE Calm(client)
  BY CoreParts DEF Calm

LEMMA CalmFields ==
  ASSUME NEW c, Calm(c), NEW d, d = Gone(c) \/ d = LetGo(c)
  PROVE  Calm(d)
<1>1. Sound(c, StartsOut, StopsOut, LiveNow) /\ c \in ClientType
  BY DEF Calm, Sound
<1>2. /\ d \in ClientType /\ d.calls = c.calls /\ d.session = c.session
      /\ d.running = c.running /\ d.timer = c.timer /\ ~d.attached
  BY <1>1 DEF ClientType, Gone, LetGo
<1>3. Sound(d, StartsOut, StopsOut, LiveNow) /\ Meek(d, c)
  BY <1>1, <1>2, KeepsFields
<1>4. QED
  BY <1>2, <1>3 DEF Calm, Meek

LEMMA CalmSend ==
  ASSUME NEW c, Calm(c), NEW op, NEW why,
         \/ op = "health" /\ why \in {"check", "detect"}
         \/ op = "attach" /\ why = "inject"
         \/ op = "detach" /\ why \in {"repair", "nothing"}
         \/ op = "shutdown" /\ why = "release",
         NEW d, d = Send(c, op, why, 0)
  PROVE  Calm(d)
<1>1. Sound(c, StartsOut, StopsOut, LiveNow)
  BY DEF Calm
<1>2. Sound(d, StartsOut, StopsOut, LiveNow) /\ Meek(d, c) /\ Same(d, c)
  BY <1>1, KeepsSend
<1>3. QED
  BY <1>2 DEF Calm, Meek, Same

LEMMA CalmDetach == ASSUME NEW c, Calm(c), NEW d, d = SendDetach(c) PROVE Calm(d)
<1>1. PICK op : op = "detach"
  OBVIOUS
<1>2. PICK why : why = "nothing"
  OBVIOUS
<1>3. d = Send(c, op, why, 0)
  BY <1>1, <1>2 DEF SendDetach
<1>4. QED
  BY <1>1, <1>2, <1>3, CalmSend

LEMMA CalmLeave == ASSUME SysCore, NEW d, d = LeaveInject(client) PROVE Calm(d)
<1> DEFINE described == {i \in DOMAIN client.calls : Injects(client.calls[i])}
<1>1. CASE described = {}
  <2>1. d = client
    BY <1>1 DEF LeaveInject, Unawaited
  <2>2. QED
    BY <2>1, CalmClient
<1>2. CASE described # {}
  <2>1. PICK j : j = CHOOSE i \in described : TRUE
    OBVIOUS
  <2>2. j \in described
    BY <1>2, <2>1
  <2>3. d = GiveUp(client, j)
    BY <1>2, <2>1 DEF LeaveInject, Unawaited
  <2>4. j \in DOMAIN calls /\ ~IsWatching(calls[j])
    BY <2>2 DEF calls, Injects, IsWatching
  <2>5. Rest(d, calls[j])
    BY <2>3, <2>4, RestGivenUp
  <2>6. QED
    BY <2>4, <2>5 DEF Rest, Calm
<1>3. QED
  BY <1>1, <1>2

LEMMA CalmAsk ==
  ASSUME SysCore, NEW op, NEW why, AskTarget(op, why),
         (op = "health" /\ why = "detect") \/ (op = "attach" /\ why = "inject")
  PROVE  Calm(client')
<1>1. PICK d : d = client'
  OBVIOUS
<1>2. d = Gone(client) \/ d = Send(client, op, why, 0)
  BY <1>1 DEF AskTarget
<1>3. QED
  BY <1>1, <1>2, CalmClient, CalmFields, CalmSend

LEMMA TargetCore == ASSUME SysCore, Target PROVE SysCore' /\ Calm(client')
<1>1. CASE Detect
  <2>1. TargetFrame /\ faults' = faults /\ AskTarget("health", "detect")
    BY <1>1 DEF Detect
  <2>2. PICK op, why : op = "health" /\ why = "detect"
    OBVIOUS
  <2>3. AskTarget(op, why)
    BY <2>1, <2>2
  <2>4. Calm(client')
    <3>1. (op = "health" /\ why = "detect") \/ (op = "attach" /\ why = "inject")
      BY <2>2
    <3>2. QED
      BY <2>3, <3>1, CalmAsk
  <2>5. faults' \in 0 .. MaxFaults /\ TargetFrame
    BY <2>1, CoreParts
  <2>6. QED
    BY <2>4, <2>5, CalmCore
<1>2. CASE Inject
  <2>1. TargetFrame /\ faults' = faults /\ AskTarget("attach", "inject")
    BY <1>2 DEF Inject
  <2>2. PICK op, why : op = "attach" /\ why = "inject"
    OBVIOUS
  <2>3. AskTarget(op, why)
    BY <2>1, <2>2
  <2>4. Calm(client')
    <3>1. (op = "health" /\ why = "detect") \/ (op = "attach" /\ why = "inject")
      BY <2>2
    <3>2. QED
      BY <2>3, <3>1, CalmAsk
  <2>5. faults' \in 0 .. MaxFaults /\ TargetFrame
    BY <2>1, CoreParts
  <2>6. QED
    BY <2>4, <2>5, CalmCore
<1>3. CASE CancelInject
  <2>1. TargetFrame /\ faults' = faults
    BY <1>3 DEF CancelInject
  <2>2. PICK e : e = LeaveInject(client)
    OBVIOUS
  <2>3. PICK d : d = SendDetach(e)
    OBVIOUS
  <2>4. client' = d
    BY <1>3, <2>2, <2>3 DEF CancelInject
  <2>5. Calm(d)
    BY <2>2, <2>3, CalmLeave, CalmDetach
  <2>6. QED
    BY <2>1, <2>4, <2>5, CalmCore, CoreParts
<1>4. CASE InjectTimesOut
  <2>1. TargetFrame /\ faults' \in 0 .. MaxFaults
    BY <1>4, CoreParts, FaultCounts DEF InjectTimesOut
  <2>2. PICK e : e = LeaveInject(client)
    OBVIOUS
  <2>3. PICK f : f = LetGo(e)
    OBVIOUS
  <2>4. PICK g : g = SendDetach(f)
    OBVIOUS
  <2>5. PICK d : d = SendDetach(g)
    OBVIOUS
  <2>6. client' = d
    BY <1>4, <2>2, <2>3, <2>4, <2>5 DEF InjectTimesOut
  <2>7. Calm(d)
    BY <2>2, <2>3, <2>4, <2>5, CalmLeave, CalmFields, CalmDetach
  <2>8. QED
    BY <2>1, <2>6, <2>7, CalmCore
<1>5. CASE Disconnect
  <2>1. TargetFrame /\ faults' = faults
    BY <1>5 DEF Disconnect
  <2>2. PICK f : f = LetGo(client)
    OBVIOUS
  <2>3. PICK d : d = SendDetach(f)
    OBVIOUS
  <2>4. client' = d
    BY <1>5, <2>2, <2>3 DEF Disconnect
  <2>5. Calm(d)
    BY <2>2, <2>3, CalmClient, CalmFields, CalmDetach
  <2>6. QED
    BY <2>1, <2>4, <2>5, CalmCore, CoreParts
<1>6. QED
  BY <1>1, <1>2, <1>3, <1>4, <1>5 DEF Target

LEMMA HealthTimerCore == ASSUME SysCore, HealthTimer PROVE SysCore' /\ client'.attached = client.attached
<1>1. UNCHANGED <<vars, service, returned, faults>>
  BY DEF HealthTimer
<1>2. PICK d : d = client' /\ d = HealthCheckCalled(client)
  BY DEF HealthTimer
<1>3. PICK due : due = [client EXCEPT !.timer = FALSE]
  OBVIOUS
<1>4. Sound(client, StartsOut, StopsOut, LiveNow) /\ client \in ClientType
  BY CoreParts
<1>5. /\ due \in ClientType /\ due.calls = client.calls /\ due.session = client.session
      /\ due.running = client.running /\ due.attached = client.attached
  BY <1>3, <1>4 DEF ClientType
<1>6. Sound(due, StartsOut, StopsOut, LiveNow)
  BY <1>4, <1>5 DEF Sound, ClientOk, Link
<1>7. /\ Sound(d, StartsOut, StopsOut, LiveNow) /\ d.running = client.running
      /\ d.attached = client.attached
      /\ client.running => Watched(d)
  <2>1. CASE ~client.running
    <3>1. d = due
      BY <1>2, <1>3, <2>1 DEF HealthCheckCalled
    <3>2. QED
      BY <1>5, <1>6, <2>1, <3>1
  <2>2. CASE client.running /\ client.session # 0
    <3>1. PICK op, why : op = "health" /\ why = "check"
      OBVIOUS
    <3>2. d = Send(due, op, why, 0)
      BY <1>2, <1>3, <2>2, <3>1 DEF HealthCheckCalled
    <3>3. Sound(d, StartsOut, StopsOut, LiveNow) /\ Same(d, due) /\ Watched(d)
      BY <1>5, <1>6, <2>2, <3>1, <3>2, KeepsSend
    <3>4. QED
      BY <1>5, <3>3 DEF Same
  <2>3. CASE client.running /\ client.session = 0
    <3>1. PICK k : k = NewCall("handshake", 0, "recover", 0, TRUE)
      OBVIOUS
    <3>2. d = Appended(due, k)
      BY <1>2, <1>3, <2>3, <3>1 DEF HealthCheckCalled, Open, Put, NewCall, Appended
    <3>3. /\ k \in Calls /\ k.op = "handshake" /\ k.why = "recover" /\ k.awaited /\ k.sid = 0
          /\ k.gen /\ k.answer = Unanswered /\ ~IsAnswered(k)
      <4>1. /\ "handshake" \in {"handshake", "health", "attach", "detach", "shutdown"}
            /\ "recover" \in Whys /\ 0 \in Nat
        BY DEF Whys
      <4>2. QED
        BY <3>1, <4>1 DEF NewCall, Calls, IsAnswered, Unanswered, Answer, Whys
    <3>4. Fits(k) /\ Names(k, due.session) /\ IsWatching(k)
      BY <3>3 DEF Fits, Names, IsWatching, Unanswered, Answer
    <3>5. k.why \notin {"start", "stop", "failed"}
      BY <3>3
    <3>6. Sound(d, StartsOut, StopsOut, LiveNow) /\ Same(d, due) /\ Watched(d)
      BY <1>6, <3>2, <3>3, <3>4, <3>5, KeepsAppend
    <3>7. QED
      BY <1>5, <3>6 DEF Same
  <2>4. QED
    BY <2>1, <2>2, <2>3
<1>8. /\ Sound(client', StartsOut, StopsOut, LiveNow) /\ client'.running = client.running
      /\ client'.attached = client.attached
      /\ client.running => Watched(client')
  BY <1>2, <1>7
<1>9. state = "ready" /\ ~disposed => client'.running /\ Watched(client')
  BY <1>8, ReadyRuns
<1>10. UNCHANGED vars /\ returned' = returned /\ service' \in Services /\ faults' \in 0 .. MaxFaults
  BY <1>1, CoreParts
<1>11. client'.running => client.running \/ LiveNow # 0
  BY <1>8
<1>12. QED
  BY <1>8, <1>9, <1>10, <1>11, StaysCore

-----------------------------------------------------------------------------
(* The invariant holds.                                                    *)

LEMMA InitCore == SysInit => SysCore
<1> SUFFICES ASSUME SysInit PROVE SysCore
  OBVIOUS
<1>1. /\ Init /\ service = NoSession /\ client = FreshClient /\ returned = {} /\ faults = 0
      /\ state = "created" /\ operationSeq = 0
  BY DEF SysInit, Init
<1>2. LifecycleInv
  BY <1>1, InitInv
<1>3. Begun = {}
  BY <1>1 DEF Begun
<1>4. /\ client \in ClientType /\ DOMAIN client.calls = {}
      /\ ~client.running
  <2>1. <<>> \in Seq(Calls) /\ DOMAIN <<>> = {}
    OBVIOUS
  <2>2. "unavailable" \in Rows
    BY DEF Rows
  <2>3. QED
    BY <1>1, <2>1, <2>2 DEF FreshClient, ClientType
<1>5. NoSession \in Services
  BY DEF NoSession, Services
<1>6. SysTypeOK
  BY <1>1, <1>2, <1>4, <1>5 DEF SysTypeOK, LifecycleInv
<1>7. ClientOk(client) /\ Link(client, StartsOut, StopsOut, LiveNow)
  BY <1>4 DEF ClientOk, InTurn, Link, OneWaits
<1>8. LinkInv
  BY <1>1, <1>3, <1>7 DEF LinkInv, AnnouncedIsLive
<1>9. RunInv
  BY <1>1, <1>4 DEF RunInv, RunOk
<1>10. QED
  BY <1>2, <1>6, <1>7, <1>8, <1>9 DEF SysCore

LEMMA SysStep == SysCore /\ [SysNext]_sysVars => SysCore'
<1> SUFFICES ASSUME SysCore, [SysNext]_sysVars PROVE SysCore'
  OBVIOUS
<1>1. CASE Controller
  <2>1. ASSUME NEW c \in Clients, Ask(c) \/ CloseDown(c) PROVE SysCore'
    BY <2>1, AskCore, CloseDownCore
  <2>2. ASSUME NEW n \in Begun, Invoke(n) \/ TimeOut(n) \/ ReturnAtOnce(n) PROVE SysCore'
    BY <2>2, InvokeCore, TimeOutCore, ReturnAtOnceCore
  <2>3. QED
    BY <1>1, <2>1, <2>2, BookkeepingCore DEF Controller
<1>2. CASE Bridge
  <2>1. PICK i \in DOMAIN calls :
          \/ ServiceHandles(i) \/ HandshakeRefused(i) \/ Deliver(i)
          \/ RequestTimesOut(i) \/ BridgeFails(i)
    BY <1>2 DEF Bridge
  <2>2. QED
    BY <2>1, HandlesCore, RefusedCore, DeliverCore, TimesOutCore, BridgeFailsCore
<1>3. CASE SessionEnds \/ HealthTimer \/ Target
  BY <1>3, SessionEndsCore, HealthTimerCore, TargetCore
<1>4. CASE UNCHANGED sysVars
  <2>1. UNCHANGED vars /\ UNCHANGED localVars
    BY <1>4 DEF sysVars
  <2>2. LifecycleInv' /\ UNCHANGED <<state, operation, operationSeq, ops, disposed>>
    BY <2>1, VarsKept, CoreParts DEF vars
  <2>3. QED
    BY <2>1, <2>2, QuietCore
<1>5. QED
  BY <1>1, <1>2, <1>3, <1>4 DEF SysNext

LEMMA CoreInvariant == SysSpec => []SysCore
<1>1. QED
  BY InitCore, SysStep, PTL DEF SysSpec

(* Controller and backend agree on what runs, and a ready backend keeps    *)
(* looking at its service, for every number of callers, operations and     *)
(* requests in flight, with whichever faults and in whichever order the    *)
(* answers arrive.                                                         *)
THEOREM ControllerAndBackendAgree == SysSpec => []SysInv
<1>1. SysCore => SysInv
  BY CoreIsEnough
<1>2. QED
  BY <1>1, CoreInvariant, PTL

-----------------------------------------------------------------------------
(* An attachment begins in one place.                                      *)

Has(c) == "attached" \in DOMAIN c

Tame(d, c) == Has(d) /\ (d.attached => c.attached)

LEMMA OtherField ==
  ASSUME NEW c, Has(c), NEW x, NEW d,
         \/ d = [c EXCEPT !.calls = x] \/ d = [c EXCEPT !.session = x]
         \/ d = [c EXCEPT !.running = x] \/ d = [c EXCEPT !.timer = x] \/ d = [c EXCEPT !.row = x]
  PROVE  Has(d) /\ d.attached = c.attached
<1>1. CASE d = [c EXCEPT !.calls = x]
  BY <1>1 DEF Has
<1>2. CASE d = [c EXCEPT !.session = x]
  BY <1>2 DEF Has
<1>3. CASE d = [c EXCEPT !.running = x]
  BY <1>3 DEF Has
<1>4. CASE d = [c EXCEPT !.timer = x]
  BY <1>4 DEF Has
<1>5. CASE d = [c EXCEPT !.row = x]
  BY <1>5 DEF Has
<1>6. QED
  BY <1>1, <1>2, <1>3, <1>4, <1>5

LEMMA NewGenerationTame == ASSUME NEW c, Has(c), NEW d, d = NewGeneration(c) PROVE Tame(d, c)
<1>1. PICK x : d = [c EXCEPT !.calls = x]
  BY DEF NewGeneration, OnCalls
<1>2. QED
  BY <1>1, OtherField DEF Tame

LEMMA PutTame ==
  ASSUME NEW c, Has(c), NEW op, NEW sid, NEW why, NEW n, NEW awaited, NEW d,
         d = Put(c, op, sid, why, n, awaited)
  PROVE  Tame(d, c)
<1>1. PICK x : d = [c EXCEPT !.calls = x]
  BY DEF Put
<1>2. QED
  BY <1>1, OtherField DEF Tame

LEMMA SendTame ==
  ASSUME NEW c, Has(c), NEW op, NEW why, NEW n, NEW d, d = Send(c, op, why, n)
  PROVE  Tame(d, c)
<1>1. CASE c.session = 0
  BY <1>1 DEF Send, Tame
<1>2. CASE c.session # 0
  <2>1. PICK x : d = [c EXCEPT !.calls = x]
    BY <1>2 DEF Send, Put
  <2>2. QED
    BY <2>1, OtherField DEF Tame
<1>3. QED
  BY <1>1, <1>2

LEMMA ForgetTame ==
  ASSUME NEW c, Has(c), NEW id, NEW d, d = NewGeneration([c EXCEPT !.session = id])
  PROVE  Tame(d, c)
<1>1. PICK e : e = [c EXCEPT !.session = id]
  OBVIOUS
<1>2. Has(e) /\ e.attached = c.attached
  BY <1>1, OtherField
<1>3. Tame(d, e)
  BY <1>1, <1>2, NewGenerationTame
<1>4. QED
  BY <1>2, <1>3 DEF Tame

LEMMA OpenedTame ==
  ASSUME NEW c, Has(c), NEW call, NEW id, NEW d, d = Opened(c, call, id)
  PROVE  Tame(d, c)
<1>1. CASE call.gen
  <2>1. d = NewGeneration([c EXCEPT !.session = id])
    BY <1>1 DEF Opened
  <2>2. QED
    BY <2>1, ForgetTame
<1>2. CASE ~call.gen
  <2>1. PICK x : d = [c EXCEPT !.calls = x]
    BY <1>2 DEF Opened, EndOrphan, Put
  <2>2. QED
    BY <2>1, OtherField DEF Tame
<1>3. QED
  BY <1>1, <1>2

LEMMA ScheduleTame == ASSUME NEW c, Has(c), NEW d, d = Schedule(c) PROVE Tame(d, c)
  BY OtherField DEF Schedule, Tame

LEMMA CloseTame ==
  ASSUME NEW c, Has(c), NEW why, NEW n, NEW d, d = Close(c, why, n)
  PROVE  Tame(d, c)
<1>1. CASE c.session = 0
  <2>1. d = NewGeneration(c)
    BY <1>1 DEF Close
  <2>2. QED
    BY <2>1, NewGenerationTame
<1>2. CASE c.session # 0
  <2>1. PICK op : op = "shutdown"
    OBVIOUS
  <2>2. d = Send(c, op, why, n)
    BY <1>2, <2>1 DEF Close
  <2>3. QED
    BY <2>2, SendTame
<1>3. QED
  BY <1>1, <1>2

LEMMA ClosedTame ==
  ASSUME NEW c, Has(c), NEW stale, NEW d, d = Closed(c, stale)
  PROVE  Tame(d, c)
<1>1. CASE stale
  BY <1>1 DEF Closed, Tame
<1>2. CASE ~stale
  <2>1. PICK id : id = 0
    OBVIOUS
  <2>2. d = NewGeneration([c EXCEPT !.session = id])
    BY <1>2, <2>1 DEF Closed, Forget
  <2>3. QED
    BY <2>2, ForgetTame
<1>3. QED
  BY <1>1, <1>2

LEMMA LostTame ==
  ASSUME NEW c, Has(c), NEW held \in BOOLEAN, NEW d, d = Absorb(c, held) \/ d = Gone(c)
  PROVE  Tame(d, c)
<1>1. CASE d = Gone(c)
  BY <1>1 DEF Gone, Tame, Has
<1>2. CASE d = Absorb(c, held)
  BY <1>2 DEF Absorb, Tame, Has
<1>3. QED
  BY <1>1, <1>2

LEMMA ReadTame ==
  ASSUME SysCore, NEW e, NEW call, NEW r, NEW ans, Resumes(e, call, r, ans),
         NEW d, d = ReadHealth(e, call, r, ans.attached)
  PROVE  Tame(d, e)
<1>1. Sound(e, StartsOut, StopsOut, LiveNow) /\ call \in Calls /\ ans.attached \in BOOLEAN
  BY DEF Resumes, Rest, AnswerType
<1>2. Sound(d, StartsOut, StopsOut, LiveNow) /\ (d.attached => e.attached)
  BY <1>1, KeepsReadHealth
<1>3. Has(d)
  BY <1>2 DEF Sound, ClientType, Has
<1>4. QED
  BY <1>2, <1>3 DEF Tame

LEMMA OpensTame ==
  ASSUME NEW e, Has(e), NEW call, NEW r, NEW ans, Opens(e, call, r, ans) PROVE Tame(client', e)
<1>1. CASE r = "ok"
  <2>1. PICK opened : opened = Opened(e, call, ans.id)
    OBVIOUS
  <2>2. Tame(opened, e)
    BY <2>1, OpenedTame
  <2>3. CASE call.gen /\ call.life
    <3>1. PICK f : f = [opened EXCEPT !.running = TRUE]
      OBVIOUS
    <3>2. PICK op, why : op = "health" /\ why = "start"
      OBVIOUS
    <3>3. Has(f) /\ f.attached = opened.attached
      BY <2>2, <3>1, OtherField DEF Tame
    <3>4. PICK d : d = client'
      OBVIOUS
    <3>5. d = Send(f, op, why, call.n)
      BY <1>1, <2>1, <2>3, <3>1, <3>2, <3>4 DEF Opens
    <3>6. Tame(d, f)
      BY <3>3, <3>5, SendTame
    <3>7. QED
      BY <2>2, <3>3, <3>4, <3>6 DEF Tame
  <2>4. CASE ~(call.gen /\ call.life)
    <3>1. client' = opened
      BY <1>1, <2>1, <2>4 DEF Opens
    <3>2. QED
      BY <2>2, <3>1
  <2>5. QED
    BY <2>3, <2>4
<1>2. CASE r # "ok"
  BY <1>2 DEF Opens, Tame
<1>3. QED
  BY <1>1, <1>2

LEMMA StartCheckedTame ==
  ASSUME SysCore, NEW e, Has(e), NEW call, NEW r, NEW ans, Resumes(e, call, r, ans),
         StartChecked(e, call, r, ans)
  PROVE  Tame(client', e)
<1>1. PICK read : read = ReadHealth(e, call, r, ans.attached)
  OBVIOUS
<1>2. PICK down : down = [read EXCEPT !.running = FALSE]
  OBVIOUS
<1>3. PICK why : why = "failed"
  OBVIOUS
<1>4. PICK d : d = client'
  OBVIOUS
<1>5. d = read \/ d = Schedule(read) \/ d = Close(down, why, call.n)
  BY <1>1, <1>2, <1>3, <1>4 DEF StartChecked
<1>6. Tame(read, e)
  BY <1>1, ReadTame
<1>7. Has(down) /\ down.attached = read.attached /\ Has(read)
  BY <1>2, <1>6, OtherField DEF Tame
<1>8. CASE d = read
  BY <1>4, <1>6, <1>8
<1>9. CASE d = Schedule(read)
  BY <1>4, <1>6, <1>7, <1>9, ScheduleTame DEF Tame
<1>10. CASE d = Close(down, why, call.n)
  BY <1>4, <1>6, <1>7, <1>10, CloseTame DEF Tame
<1>11. QED
  BY <1>5, <1>8, <1>9, <1>10

LEMMA RecoversTame ==
  ASSUME NEW e, Has(e), NEW call, NEW r, NEW ans, Recovers(e, call, r, ans) PROVE Tame(client', e)
<1>1. PICK opened : opened = IF r = "ok" THEN Opened(e, call, ans.id) ELSE e
  OBVIOUS
<1>2. Tame(opened, e)
  <2>1. CASE r = "ok"
    BY <1>1, <2>1, OpenedTame
  <2>2. CASE r # "ok"
    BY <1>1, <2>2 DEF Tame
  <2>3. QED
    BY <2>1, <2>2
<1>3. PICK f : f = Row(opened, "error")
  OBVIOUS
<1>4. PICK d : d = client'
  OBVIOUS
<1>5. PICK op, why, n : op = "health" /\ why = "check" /\ n = 0
  OBVIOUS
<1>6. d = Schedule(opened) \/ d = Schedule(f) \/ d = Send(opened, op, why, n)
  BY <1>1, <1>3, <1>4, <1>5 DEF Recovers
<1>7. Has(opened) /\ Has(f) /\ f.attached = opened.attached
  BY <1>2, <1>3, OtherField DEF Tame, Row
<1>8. CASE d = Schedule(opened)
  BY <1>2, <1>4, <1>7, <1>8, ScheduleTame DEF Tame
<1>9. CASE d = Schedule(f)
  BY <1>2, <1>4, <1>7, <1>9, ScheduleTame DEF Tame
<1>10. CASE d = Send(opened, op, why, n)
  BY <1>2, <1>4, <1>7, <1>10, SendTame DEF Tame
<1>11. QED
  BY <1>6, <1>8, <1>9, <1>10

LEMMA OthersTame ==
  ASSUME SysCore, NEW e, Has(e), NEW call, NEW r, NEW ans, Resumes(e, call, r, ans),
         OtherAnswers(e, call, r, ans), ~(call.why = "inject" /\ r = "ok")
  PROVE  Tame(client', e)
<1>1. PICK d : d = client'
  OBVIOUS
<1>2. ans.attached \in BOOLEAN
  BY DEF Resumes, AnswerType
<1>3. CASE call.why = "orphan"
  <2>1. d = Opened(e, call, ans.id) \/ d = e
    BY <1>1, <1>3 DEF OtherAnswers
  <2>2. QED
    BY <1>1, <2>1, OpenedTame DEF Tame
<1>4. CASE call.why = "check"
  <2>1. PICK read : read = ReadHealth(e, call, r, ans.attached)
    OBVIOUS
  <2>2. d = Schedule(read)
    BY <1>1, <1>4, <2>1 DEF OtherAnswers
  <2>3. Tame(read, e)
    BY <2>1, ReadTame
  <2>4. QED
    BY <1>1, <2>2, <2>3, ScheduleTame DEF Tame
<1>5. CASE call.why = "detect"
  <2>1. d = Absorb(e, ans.attached) \/ d = Gone(e) \/ d = e
    BY <1>1, <1>5 DEF OtherAnswers
  <2>2. QED
    BY <1>1, <1>2, <2>1, LostTame DEF Tame
<1>6. CASE call.why = "inject"
  <2>1. d = Gone(e) \/ d = SendDetach(e)
    BY <1>1, <1>6 DEF OtherAnswers
  <2>2. CASE d = Gone(e)
    BY <1>1, <1>2, <2>2, LostTame
  <2>3. CASE d = SendDetach(e)
    <3>1. PICK op, why, n : op = "detach" /\ why = "nothing" /\ n = 0
      OBVIOUS
    <3>2. d = Send(e, op, why, n)
      BY <2>3, <3>1 DEF SendDetach
    <3>3. QED
      BY <1>1, <3>2, SendTame
  <2>4. QED
    BY <2>1, <2>2, <2>3
<1>7. CASE call.why \in {"repair", "nothing"}
  BY <1>7 DEF OtherAnswers, Tame
<1>8. QED
  BY <1>3, <1>4, <1>5, <1>6, <1>7 DEF OtherAnswers

LEMMA ContinueTame ==
  ASSUME SysCore, NEW e, NEW call, NEW r, NEW ans, NEW lostNow, Resumes(e, call, r, ans),
         Continue(e, call, r, ans, lostNow), ~client.attached, client'.attached
  PROVE  call.why = "inject" /\ r = "ok"
<1>1. Has(e) /\ ~e.attached
  BY DEF Resumes, Rest, Sound, ClientType, Has
<1>2. ~Tame(client', e)
  BY <1>1 DEF Tame
<1>3. ~CloseAnswered(e, call, r, lostNow)
  <2> SUFFICES ASSUME CloseAnswered(e, call, r, lostNow) PROVE Tame(client', e)
    BY <1>2
  <2>1. PICK stale : client' = Closed(e, stale)
    BY DEF CloseAnswered
  <2>2. QED
    BY <1>1, <2>1, ClosedTame
<1>4. QED
  BY <1>1, <1>2, <1>3, OpensTame, StartCheckedTame, RecoversTame, OthersTame DEF Continue

LEMMA ReleasedTame ==
  ASSUME SysCore, NEW n, client' = Released(n)
  PROVE  client'.attached => client.attached
<1>1. PICK d : d = Aborted(client, n)
  OBVIOUS
<1>2. Sound(d, StartsOut, StopsOut, LiveNow)
  BY <1>1, AbortLeaves
<1>3. d.attached = client.attached
  <2>1. client \in ClientType /\ ClientOk(client) /\ Link(client, StartsOut, StopsOut, LiveNow)
    BY CoreParts DEF Sound
  <2>2. Same(d, client)
    BY <1>1, <2>1, AbortedKeeps
  <2>3. QED
    BY <2>2 DEF Same
<1>4. PICK e : e = client'
  OBVIOUS
<1>5. e = StopCalled(d, "release", 0)
  BY <1>1, <1>4 DEF Released
<1>6. 0 \notin StartsOut
  BY CoreParts
<1>7. e.attached => d.attached
  BY <1>2, <1>5, <1>6, ReleaseKeeps
<1>8. QED
  BY <1>3, <1>4, <1>7

LEMMA StopTame ==
  ASSUME SysCore, NEW why, NEW n, client' = StopCalled(client, why, n)
  PROVE  client'.attached => client.attached
<1>1. PICK f : f = Quieted(client)
  OBVIOUS
<1>2. client \in ClientType
  BY CoreParts
<1>3. f \in ClientType /\ (f.attached => client.attached)
  BY <1>1, <1>2, QuietedFacts
<1>4. PICK d : d = client'
  OBVIOUS
<1>5. d = Close(f, why, n)
  BY <1>1, <1>4 DEF StopCalled, Quieted
<1>6. Has(f)
  BY <1>3 DEF Has, ClientType
<1>7. Tame(d, f)
  BY <1>5, <1>6, CloseTame
<1>8. QED
  BY <1>3, <1>4, <1>7 DEF Tame

LEMMA ControllerTame == ASSUME SysCore, Controller PROVE client'.attached => client.attached
<1>1. ASSUME NEW c \in Clients, Ask(c) PROVE client'.attached => client.attached
  <2>1. client' = Released(operation) \/ client' = client
    BY <1>1 DEF Ask
  <2>2. QED
    BY <2>1, ReleasedTame
<1>2. ASSUME NEW c \in Clients, CloseDown(c) PROVE client'.attached => client.attached
  <2>1. PICK why, n : why = "release" /\ n = 0
    OBVIOUS
  <2>2. client' = Released(operation) \/ client' = StopCalled(client, why, n)
    BY <1>2, <2>1 DEF CloseDown
  <2>3. QED
    BY <2>2, ReleasedTame, StopTame
<1>3. ASSUME NEW n \in Begun, Invoke(n) PROVE client'.attached => client.attached
  <2>1. PICK why : why = "stop"
    OBVIOUS
  <2>2. client' = StartCalled(client, n) \/ client' = StopCalled(client, why, n)
    BY <1>3, <2>1 DEF Invoke
  <2>3. CASE client' = StartCalled(client, n)
    <3>1. PICK x : NewLife(client) = [client EXCEPT !.calls = x]
      BY DEF NewLife, OnCalls
    <3>2. PICK e : e = [client EXCEPT !.calls = x] /\ e = NewLife(client)
      BY <3>1
    <3>3. PICK d : d = client'
      OBVIOUS
    <3>4. PICK op, sid, why1, awaited : /\ op = "handshake" /\ sid = 0 /\ why1 = "start"
                                        /\ awaited = TRUE
      OBVIOUS
    <3>5. d = Put(e, op, sid, why1, n, awaited)
      BY <2>3, <3>2, <3>3, <3>4 DEF StartCalled, Open
    <3>6. Has(client)
      BY CoreParts DEF Has, ClientType
    <3>7. Has(e) /\ e.attached = client.attached
      BY <3>2, <3>6, OtherField
    <3>8. Tame(d, e)
      BY <3>5, <3>7, PutTame
    <3>9. QED
      BY <3>3, <3>7, <3>8 DEF Tame
  <2>4. QED
    BY <2>2, <2>3, StopTame
<1>4. ASSUME NEW n \in Begun, TimeOut(n) PROVE client'.attached => client.attached
  BY <1>4, ReleasedTame DEF TimeOut
<1>5. ASSUME NEW n \in Begun, ReturnAtOnce(n) PROVE client'.attached => client.attached
  BY <1>5 DEF ReturnAtOnce
<1>6. CASE Bookkeeping
  BY <1>6 DEF Bookkeeping, localVars
<1>7. QED
  BY <1>1, <1>2, <1>3, <1>4, <1>5, <1>6 DEF Controller

(* Injects(calls[i]) of the session the client holds.                      *)
LEMMA BridgeTame ==
  ASSUME SysCore, Bridge, ~client.attached, client'.attached
  PROVE  \E i \in DOMAIN calls : Injects(calls[i]) /\ calls[i].sid = client.session
<1>1. PICK i \in DOMAIN calls :
        \/ ServiceHandles(i) \/ HandshakeRefused(i) \/ Deliver(i)
        \/ RequestTimesOut(i) \/ BridgeFails(i)
  BY DEF Bridge
<1>2. client \in ClientType
  BY CoreParts
<1>3. Has(client)
  BY <1>2 DEF Has, ClientType
<1>4. ASSUME NEW a, client' = Reply(client, i, a) PROVE FALSE
  <2>1. PICK x : client' = [client EXCEPT !.calls = x]
    BY <1>4 DEF Reply, Without
  <2>2. PICK d : d = client' /\ d = [client EXCEPT !.calls = x]
    BY <2>1
  <2>3. d.attached = client.attached
    BY <1>3, <2>2, OtherField
  <2>4. QED
    BY <2>2, <2>3
<1>5. ~ServiceHandles(i)
  BY <1>4 DEF ServiceHandles
<1>6. ~HandshakeRefused(i)
  BY <1>4 DEF HandshakeRefused
<1>7. ~RequestTimesOut(i)
  <2> SUFFICES ASSUME RequestTimesOut(i) PROVE FALSE
    OBVIOUS
  <2>1. calls[i].awaited /\ Continue(GiveUp(client, i), calls[i], "failed", Unanswered, FALSE)
    BY DEF RequestTimesOut
  <2>2. PICK e : e = GiveUp(client, i)
    OBVIOUS
  <2>3. PICK r : r = "failed"
    OBVIOUS
  <2>4. PICK no : Continue(e, calls[i], r, Unanswered, no)
    BY <2>1, <2>2, <2>3
  <2>5. Rest(e, calls[i])
    BY <2>2, RestGivenUp
  <2>6. Resumes(e, calls[i], r, Unanswered)
    BY <2>1, <2>3, <2>5, CallFacts, UnansweredType DEF Resumes
  <2>7. r = "ok"
    BY <2>4, <2>6, ContinueTame
  <2>8. QED
    BY <2>3, <2>7
<1>8. ~BridgeFails(i)
  <2> SUFFICES ASSUME BridgeFails(i) PROVE FALSE
    OBVIOUS
  <2>1. PICK e : e = Without(client, i)
    OBVIOUS
  <2>2. Rest(e, calls[i])
    BY <2>1, RestWithout
  <2>3. CASE calls[i].awaited
    <3>1. PICK r : r = "failed"
      OBVIOUS
    <3>2. PICK no : Continue(e, calls[i], r, Unanswered, no)
      BY <2>1, <2>3, <3>1 DEF BridgeFails
    <3>3. Resumes(e, calls[i], r, Unanswered)
      BY <2>2, <2>3, <3>1, CallFacts, UnansweredType DEF Resumes
    <3>4. r = "ok"
      BY <3>2, <3>3, ContinueTame
    <3>5. QED
      BY <3>1, <3>4
  <2>4. CASE ~calls[i].awaited
    BY <2>1, <2>2, <2>4 DEF BridgeFails, Rest
  <2>5. QED
    BY <2>3, <2>4
<1>9. Deliver(i)
  BY <1>1, <1>5, <1>6, <1>7, <1>8
<1> DEFINE call == calls[i]
           stale == call.op # "handshake" /\ ~call.gen
           lostNow == call.answer.is = "lost" /\ ~stale
<1>10. calls[i].awaited
  BY <1>9 DEF Deliver
<1>11. PICK e : e = IF lostNow THEN Forget(Without(client, i)) ELSE Without(client, i)
  OBVIOUS
<1>12. PICK r : r = IF stale THEN "lost" ELSE call.answer.is
  OBVIOUS
<1>13. Continue(e, call, r, call.answer, lostNow)
  BY <1>9, <1>11, <1>12 DEF Deliver
<1>14. Rest(e, call)
  BY <1>11, RestWithout, RestForgot
<1>15. /\ call \in Calls /\ Fits(call) /\ call.answer \in AnswerType
       /\ CallLinked(call, client.running, StartsOut, StopsOut, LiveNow)
       /\ Names(call, client.session)
  BY CallFacts
<1>16. r = "ok" /\ call.op = "handshake" => call.answer.id # 0
  BY <1>12, <1>15 DEF Fits
<1>17. Resumes(e, call, r, call.answer)
  BY <1>10, <1>14, <1>15, <1>16 DEF Resumes
<1>18. PICK lost : Continue(e, call, r, call.answer, lost)
  BY <1>13
<1>19. call.why = "inject" /\ r = "ok"
  BY <1>17, <1>18, ContinueTame
<1>20. ~stale
  BY <1>12, <1>19
<1>21. call.op = "attach"
  BY <1>15, <1>19 DEF Fits
<1>22. Injects(call) /\ call.sid = client.session
  BY <1>10, <1>15, <1>19, <1>20, <1>21 DEF Injects, Names
<1>23. QED
  BY <1>22

(* Only the answer to an injection that is still awaited makes Nova        *)
(* believe in an attachment, and only one asked in the session it holds: a *)
(* late answer of an earlier session, of a cancelled or a timed-out        *)
(* injection attaches nothing.                                             *)
THEOREM LateAttachesAreDropped == SysSpec => LateAttachIsDropped
<1> DEFINE Asked == \E i \in DOMAIN calls : Injects(calls[i]) /\ calls[i].sid = client.session
<1>1. SysCore /\ [SysNext]_sysVars => (~client.attached /\ client'.attached => Asked)
  <2> SUFFICES ASSUME SysCore, [SysNext]_sysVars, ~client.attached, client'.attached PROVE Asked
    OBVIOUS
  <2>1. CASE Controller
    BY <2>1, ControllerTame
  <2>2. CASE Bridge
    BY <2>2, BridgeTame
  <2>3. CASE SessionEnds
    BY <2>3 DEF SessionEnds
  <2>4. CASE HealthTimer
    BY <2>4, HealthTimerCore
  <2>5. CASE Target
    BY <2>5, TargetCore DEF Calm
  <2>6. CASE UNCHANGED sysVars
    BY <2>6 DEF sysVars, localVars
  <2>7. QED
    BY <2>1, <2>2, <2>3, <2>4, <2>5, <2>6 DEF SysNext
<1>2. SysSpec => [][~client.attached /\ client'.attached => Asked]_sysVars
  BY <1>1, CoreInvariant, PTL DEF SysSpec
<1>3. QED
  BY <1>2 DEF LateAttachIsDropped

-----------------------------------------------------------------------------
(* Sessions without a fault: what the requests and answers on their way    *)
(* say of the session the service holds, of the one Nova holds, and of     *)
(* each other.  A shutdown that was answered has ended its session; a      *)
(* handshake that counts has opened the one the service holds, and is the  *)
(* newest.                                                                 *)
Agrees(k, held, mine) ==
  /\ k.op # "handshake" /\ ((k.op = "shutdown" /\ IsAnswered(k)) \/ k.answer.is = "lost") => k.sid # held
  /\ k.op = "shutdown" /\ k.awaited => k.why # "nothing"
  /\ ~k.awaited => ~IsAnswered(k)
  /\ k.op = "handshake" =>
       /\ k.awaited /\ k.why \in {"start", "orphan"}
       /\ IsAnswered(k) => k.answer.is = "ok" /\ k.answer.id # mine
       /\ k.gen => k.life /\ k.why = "start" /\ (IsAnswered(k) => k.answer.id = held)

Apart(k, l) ==
  k.op = "handshake" /\ IsAnswered(k) =>
    /\ l.sid # k.answer.id
    /\ l.op = "handshake" /\ IsAnswered(l) => l.answer.id # k.answer.id

Newest(k, l) == k.op = "handshake" /\ k.gen => l.op # "handshake"

AllAgree(held, c) ==
  /\ \A i \in DOMAIN c.calls : Agrees(c.calls[i], held, c.session)
  /\ \A i, j \in DOMAIN c.calls : i # j => Apart(c.calls[i], c.calls[j])
  /\ \A i, j \in DOMAIN c.calls : i < j => Newest(c.calls[i], c.calls[j])

Closes(k) == k.op = "shutdown" /\ k.awaited /\ k.gen

Closing(c) == \E i \in DOMAIN c.calls : Closes(c.calls[i])

Untouched(k, mine) ==
  /\ k.op = "shutdown" => k.sid # mine
  /\ k.op = "handshake" => IsAnswered(k)
  /\ k.sid = mine => k.gen

Owned(held, c) ==
  held = c.session /\ c.running /\ \A i \in DOMAIN c.calls : Untouched(c.calls[i], c.session)

Ends(k, held) ==
  \/ k.op = "handshake" /\ (IsAnswered(k) => k.answer.id = held)
  \/ k.op = "shutdown" /\ ~IsAnswered(k) /\ k.sid = held

Ending(held, c) == \E i \in DOMAIN c.calls : Ends(c.calls[i], held)

Sess(held, c) ==
  /\ AllAgree(held, c)
  /\ c.session # 0 => Closing(c) \/ Owned(held, c)
  /\ held # 0 /\ held # c.session => Ending(held, c)
  /\ c.running => c.session # 0 /\ ~Closing(c)

NoneOpens(c) == \A i \in DOMAIN c.calls : c.calls[i].op = "handshake" => ~c.calls[i].gen

Accounted(held, c) == AllAgree(held, c) /\ (held # 0 /\ held # c.session => Ending(held, c))

(* One call as it is once somebody stopped waiting, or a counter moved on. *)
Passed(k, l) ==
  /\ k.op = l.op /\ k.sid = l.sid /\ k.answer = l.answer
  /\ (k.awaited => l.awaited) /\ (k.gen => l.gen)
  /\ ~k.awaited => ~l.awaited \/ ~IsAnswered(l)
  /\ k.op = "shutdown" => k.why = l.why
  /\ k.op = "handshake" =>
       /\ k.awaited = l.awaited /\ k.why \in {l.why, "orphan"}
       /\ k.gen => k.life = l.life /\ k.why = l.why

LEMMA AgreePassed ==
  ASSUME NEW held, NEW c, NEW d, AllAgree(held, c), DOMAIN d.calls = DOMAIN c.calls,
         \A i \in DOMAIN c.calls : Passed(d.calls[i], c.calls[i]),
         \A i \in DOMAIN c.calls :
           c.calls[i].op = "handshake" /\ IsAnswered(c.calls[i]) => c.calls[i].answer.id # d.session
  PROVE  AllAgree(held, d) /\ (Ending(held, c) => Ending(held, d))
<1>1. \A i \in DOMAIN d.calls : Agrees(d.calls[i], held, d.session)
  BY DEF AllAgree, Agrees, Passed, IsAnswered
<1>2. \A i, j \in DOMAIN d.calls : i # j => Apart(d.calls[i], d.calls[j])
  BY DEF AllAgree, Apart, Passed, IsAnswered
<1>3. \A i, j \in DOMAIN d.calls : i < j => Newest(d.calls[i], d.calls[j])
  BY DEF AllAgree, Newest, Passed
<1>4. Ending(held, c) => Ending(held, d)
  BY DEF Ending, Ends, Passed, IsAnswered
<1>5. QED
  BY <1>1, <1>2, <1>3, <1>4 DEF AllAgree

LEMMA AccountedPassed ==
  ASSUME NEW held, NEW c, NEW d, Accounted(held, c), d.session = c.session,
         DOMAIN d.calls = DOMAIN c.calls,
         \A i \in DOMAIN c.calls : Passed(d.calls[i], c.calls[i])
  PROVE  Accounted(held, d)
<1>1. AllAgree(held, c)
  BY DEF Accounted
<1>2. \A i \in DOMAIN c.calls :
        c.calls[i].op = "handshake" /\ IsAnswered(c.calls[i]) => c.calls[i].answer.id # d.session
  BY <1>1 DEF AllAgree, Agrees
<1>3. AllAgree(held, d) /\ (Ending(held, c) => Ending(held, d))
  BY <1>1, <1>2, AgreePassed
<1>4. QED
  BY <1>3 DEF Accounted

LEMMA AccountedGeneration ==
  ASSUME NEW held, NEW c \in ClientType, Accounted(held, c), NEW d, d = NewGeneration(c)
  PROVE  Accounted(held, d) /\ ~Closing(d) /\ NoneOpens(d)
<1>1. /\ d.session = c.session /\ DOMAIN d.calls = DOMAIN c.calls
      /\ \A i \in DOMAIN c.calls :
           LET k == d.calls[i]
               l == c.calls[i] IN
           /\ SameRequest(k, l) /\ k.why = l.why /\ k.answer = l.answer
           /\ k.awaited = l.awaited /\ k.life = l.life /\ k.gen = FALSE
  BY NewGenerationFacts DEF Same
<1>2. \A i \in DOMAIN c.calls : Passed(d.calls[i], c.calls[i])
  BY <1>1 DEF Passed, SameRequest
<1>3. Accounted(held, d)
  BY <1>1, <1>2, AccountedPassed
<1>4. ~Closing(d) /\ NoneOpens(d)
  BY <1>1 DEF Closing, Closes, NoneOpens
<1>5. QED
  BY <1>3, <1>4

LEMMA AccountedOrphaned ==
  ASSUME NEW held, NEW c \in ClientType, Accounted(held, c), NEW n,
         \A i \in DOMAIN c.calls : Starts(c.calls[i], n) => c.calls[i].op = "handshake",
         NEW e, e = Orphaned(c, n), NEW d, d = NewGeneration(e)
  PROVE  Accounted(held, d) /\ d.session = c.session /\ NoneOpens(d)
<1>1. /\ e.session = c.session /\ DOMAIN e.calls = DOMAIN c.calls /\ e \in ClientType
      /\ \A i \in DOMAIN c.calls :
           LET k == e.calls[i]
               l == c.calls[i] IN
           /\ SameRequest(k, l) /\ k.answer = l.answer /\ k.awaited = l.awaited
           /\ k.life = l.life /\ k.gen = l.gen
           /\ k.why = IF Starts(l, n) THEN "orphan" ELSE l.why
  BY OrphanedFacts DEF Same
<1>1a. e \in ClientType /\ d = NewGeneration(e)
  BY <1>1
<1>1b. Same(d, e)
  BY <1>1a, NewGenerationFacts
<1>2. /\ DOMAIN d.calls = DOMAIN e.calls
      /\ \A i \in DOMAIN e.calls :
           LET k == d.calls[i]
               l == e.calls[i] IN
           /\ SameRequest(k, l) /\ k.why = l.why /\ k.answer = l.answer
           /\ k.awaited = l.awaited /\ k.life = l.life /\ k.gen = FALSE
  BY <1>1a, NewGenerationFacts
<1>2a. d.session = e.session
  BY <1>1b DEF Same
<1>3. \A i \in DOMAIN c.calls : Passed(d.calls[i], c.calls[i])
  BY <1>1, <1>2 DEF Passed, SameRequest
<1>4. Accounted(held, d)
  BY <1>1, <1>2, <1>2a, <1>3, AccountedPassed
<1>5. NoneOpens(d)
  BY <1>2 DEF NoneOpens
<1>6. QED
  BY <1>1, <1>2a, <1>4, <1>5

LEMMA AccountedLife ==
  ASSUME NEW held, NEW c \in ClientType, Accounted(held, c), NoneOpens(c), NEW d, d = NewLife(c)
  PROVE  Accounted(held, d) /\ NoneOpens(d) /\ d.session = c.session /\ (Closing(c) => Closing(d))
<1>1. /\ d.session = c.session /\ DOMAIN d.calls = DOMAIN c.calls
      /\ \A i \in DOMAIN c.calls :
           LET k == d.calls[i]
               l == c.calls[i] IN
           /\ SameRequest(k, l) /\ k.why = l.why /\ k.answer = l.answer
           /\ k.awaited = l.awaited /\ k.life = FALSE /\ k.gen = l.gen
  BY NewLifeFacts DEF Same
<1>2. \A i \in DOMAIN c.calls : Passed(d.calls[i], c.calls[i])
  BY <1>1 DEF Passed, SameRequest, NoneOpens
<1>3. Accounted(held, d)
  BY <1>1, <1>2, AccountedPassed
<1>4. NoneOpens(d) /\ (Closing(c) => Closing(d))
  BY <1>1 DEF Closing, Closes, NoneOpens, SameRequest
<1>5. QED
  BY <1>1, <1>3, <1>4

(* A call that is gone was the end of the session the service holds, or    *)
(* another one is.                                                         *)
LEMMA AccountedWithout ==
  ASSUME NEW held, NEW c \in ClientType, AllAgree(held, c), NEW i \in DOMAIN c.calls,
         NEW d, d = Without(c, i)
  PROVE  /\ AllAgree(held, d) /\ d.session = c.session /\ d.running = c.running
         /\ Ending(held, c) => Ends(c.calls[i], held) \/ Ending(held, d)
         /\ Closing(d) => Closing(c)
         /\ Closing(c) => Closes(c.calls[i]) \/ Closing(d)
         /\ Owned(held, c) => Owned(held, d)
         /\ NoneOpens(c) => NoneOpens(d)
<1>1. /\ d.session = c.session /\ d.running = c.running
      /\ \A k \in DOMAIN d.calls : /\ Place(i, k) \in DOMAIN c.calls
                                   /\ d.calls[k] = c.calls[Place(i, k)]
      /\ \A k, l \in DOMAIN d.calls : k < l => Place(i, k) < Place(i, l)
      /\ \A j \in DOMAIN c.calls : j # i => \E k \in DOMAIN d.calls : Place(i, k) = j
  BY WithoutFacts DEF Same
<1>2. DOMAIN c.calls \subseteq Nat /\ DOMAIN d.calls \subseteq Nat
  BY WithoutFacts DEF ClientType
<1>3. \A k \in DOMAIN d.calls : Agrees(d.calls[k], held, d.session)
  BY <1>1 DEF AllAgree
<1>4. \A k, l \in DOMAIN d.calls : k # l => Apart(d.calls[k], d.calls[l])
  <2>1. \A k, l \in DOMAIN d.calls : k # l => Place(i, k) # Place(i, l)
    BY <1>1, <1>2
  <2>2. QED
    BY <1>1, <2>1 DEF AllAgree
<1>5. \A k, l \in DOMAIN d.calls : k < l => Newest(d.calls[k], d.calls[l])
  BY <1>1 DEF AllAgree
<1>6. \A j \in DOMAIN c.calls : j # i => \E k \in DOMAIN d.calls : d.calls[k] = c.calls[j]
  BY <1>1
<1>7. Ending(held, c) => Ends(c.calls[i], held) \/ Ending(held, d)
  BY <1>6 DEF Ending
<1>8. Closing(d) => Closing(c)
  BY <1>1 DEF Closing
<1>9. Closing(c) => Closes(c.calls[i]) \/ Closing(d)
  BY <1>6 DEF Closing
<1>10. Owned(held, c) => Owned(held, d)
  BY <1>1 DEF Owned
<1>11. NoneOpens(c) => NoneOpens(d)
  BY <1>1 DEF NoneOpens
<1>12. QED
  BY <1>1, <1>3, <1>4, <1>5, <1>7, <1>8, <1>9, <1>10, <1>11 DEF AllAgree

(* A new request has no answer yet.                                        *)
LEMMA AccountedAppend ==
  ASSUME NEW held, NEW c \in ClientType, AllAgree(held, c), NEW k \in Calls,
         Agrees(k, held, c.session), ~IsAnswered(k), k.op = "handshake" => NoneOpens(c),
         \A i \in DOMAIN c.calls :
           c.calls[i].op = "handshake" /\ IsAnswered(c.calls[i]) => k.sid # c.calls[i].answer.id,
         NEW d, d = Appended(c, k)
  PROVE  /\ AllAgree(held, d) /\ d.session = c.session /\ d.running = c.running /\ d \in ClientType
         /\ Ending(held, c) \/ Ends(k, held) => Ending(held, d)
         /\ Closing(d) <=> Closing(c) \/ Closes(k)
         /\ Owned(held, c) /\ Untouched(k, c.session) => Owned(held, d)
<1>1. PICK m \in Nat :
         /\ d \in ClientType /\ Same(d, c)
         /\ DOMAIN d.calls = DOMAIN c.calls \cup {m}
         /\ \A i \in DOMAIN c.calls : i < m /\ d.calls[i] = c.calls[i]
         /\ d.calls[m] = k
  BY AppendFacts
<1>2. d.session = c.session /\ d.running = c.running
  BY <1>1 DEF Same
<1>3. DOMAIN c.calls \subseteq Nat /\ \A i \in DOMAIN c.calls : ~(m < i) /\ i # m
  BY <1>1 DEF ClientType
<1>4. \A i \in DOMAIN d.calls : Agrees(d.calls[i], held, d.session)
  BY <1>1, <1>2 DEF AllAgree
<1>5. \A i, j \in DOMAIN d.calls : i # j => Apart(d.calls[i], d.calls[j])
  <2>1. \A i \in DOMAIN c.calls : Apart(c.calls[i], k) /\ Apart(k, c.calls[i])
    BY DEF Apart
  <2>2. QED
    BY <1>1, <2>1 DEF AllAgree
<1>6. \A i, j \in DOMAIN d.calls : i < j => Newest(d.calls[i], d.calls[j])
  <2>1. \A i \in DOMAIN c.calls : Newest(c.calls[i], k)
    BY DEF Newest, NoneOpens
  <2>2. QED
    BY <1>1, <1>3, <2>1 DEF AllAgree
<1>7. Ending(held, c) \/ Ends(k, held) => Ending(held, d)
  BY <1>1 DEF Ending
<1>8. Closing(d) <=> Closing(c) \/ Closes(k)
  BY <1>1 DEF Closing
<1>9. Owned(held, c) /\ Untouched(k, c.session) => Owned(held, d)
  BY <1>1, <1>2 DEF Owned
<1>10. QED
  BY <1>1, <1>2, <1>4, <1>5, <1>6, <1>7, <1>8, <1>9 DEF AllAgree

LEMMA SessFields ==
  ASSUME NEW held, NEW c, Sess(held, c), NEW d,
         d.calls = c.calls, d.session = c.session, d.running = c.running
  PROVE  Sess(held, d)
<1>1. AllAgree(held, d)
  BY DEF Sess, AllAgree
<1>2. (Closing(d) <=> Closing(c)) /\ (Ending(held, d) <=> Ending(held, c)) /\ (Owned(held, c) => Owned(held, d))
  BY DEF Closing, Ending, Owned
<1>3. QED
  BY <1>1, <1>2 DEF Sess

LEMMA AccountedFields ==
  ASSUME NEW held, NEW c, Accounted(held, c), NEW d, d.calls = c.calls, d.session = c.session
  PROVE  Accounted(held, d)
  BY DEF Accounted, AllAgree, Ending

LEMMA SessAccounted == ASSUME NEW held, NEW c, Sess(held, c) PROVE Accounted(held, c) /\ AllAgree(held, c)
  BY DEF Sess, Accounted

(* close(): what it asks to end is on its way to its end.                  *)
LEMMA SessClose ==
  ASSUME NEW held, NEW c \in ClientType, Accounted(held, c), ~c.running,
         NEW why \in {"stop", "release", "failed"}, NEW n \in Nat, NEW d, d = Close(c, why, n)
  PROVE  Sess(held, d)
<1>1. CASE c.session = 0
  <2>1. d = NewGeneration(c)
    BY <1>1 DEF Close
  <2>2. Accounted(held, d)
    BY <2>1, AccountedGeneration
  <2>3. d.session = 0 /\ ~d.running
    BY <1>1, <2>1, NewGenerationFacts DEF Same
  <2>4. QED
    BY <2>2, <2>3 DEF Sess, Accounted
<1>2. CASE c.session # 0
  <2>1. PICK sid \in Nat : sid = c.session
    BY DEF ClientType
  <2>2. PICK k : k = NewCall("shutdown", sid, why, n, TRUE)
    OBVIOUS
  <2>3. /\ k \in Calls /\ k.op = "shutdown" /\ k.sid = sid /\ k.why = why
        /\ k.gen /\ k.answer = Unanswered /\ ~IsAnswered(k) /\ k.awaited
    <3>1. /\ "shutdown" \in {"handshake", "health", "attach", "detach", "shutdown"} /\ why \in Whys
      BY DEF Whys
    <3>2. QED
      BY <2>2, <3>1 DEF NewCall, Calls, IsAnswered, Unanswered, Answer, Whys
  <2>4. d = Appended(c, k)
    BY <1>2, <2>1, <2>2 DEF Close, Send, Put, NewCall, Appended
  <2>5. AllAgree(held, c)
    BY DEF Accounted
  <2>6. Agrees(k, held, c.session)
    BY <2>3 DEF Agrees, Unanswered, Answer
  <2>7. \A i \in DOMAIN c.calls :
          c.calls[i].op = "handshake" /\ IsAnswered(c.calls[i]) => k.sid # c.calls[i].answer.id
    BY <2>1, <2>3, <2>5 DEF AllAgree, Agrees
  <2>8. /\ AllAgree(held, d) /\ d.session = c.session /\ d.running = c.running
        /\ Ending(held, c) \/ Ends(k, held) => Ending(held, d)
        /\ Closing(d) <=> Closing(c) \/ Closes(k)
    BY <2>3, <2>4, <2>5, <2>6, <2>7, AccountedAppend
  <2>9. Closing(d)
    BY <2>3, <2>8 DEF Closes
  <2>10. QED
    BY <2>8, <2>9 DEF Sess, Accounted
<1>3. QED
  BY <1>1, <1>2

LEMMA SessStop ==
  ASSUME NEW held, NEW c \in ClientType, Accounted(held, c), NoneOpens(c),
         NEW why \in {"stop", "release"}, NEW n \in Nat, NEW d, d = StopCalled(c, why, n)
  PROVE  Sess(held, d)
<1>1. PICK f : f = Quieted(c)
  OBVIOUS
<1>2. f \in ClientType /\ f.calls = NewLife(c).calls /\ f.session = c.session /\ ~f.running
  BY <1>1, QuietedFacts
<1>3. PICK e : e = NewLife(c)
  OBVIOUS
<1>4. Accounted(held, e) /\ e.session = c.session
  BY <1>3, AccountedLife
<1>5. Accounted(held, f)
  BY <1>2, <1>3, <1>4, AccountedFields
<1>6. d = Close(f, why, n)
  BY <1>1 DEF StopCalled, Quieted
<1>7. why \in {"stop", "release", "failed"}
  OBVIOUS
<1>8. QED
  BY <1>2, <1>5, <1>6, <1>7, SessClose

(* Nobody waits for a health check or an attachment any more.              *)
LEMMA SessGiveUp ==
  ASSUME NEW held, NEW c \in ClientType, Accounted(held, c), NEW i \in DOMAIN c.calls,
         c.calls[i].op \in {"health", "attach"}, NEW d, d = GiveUp(c, i)
  PROVE  /\ Accounted(held, d) /\ (NoneOpens(c) => NoneOpens(d))
         /\ Sess(held, c) => Sess(held, d)
<1>1. AllAgree(held, c)
  BY DEF Accounted
<1>2. CASE IsAnswered(c.calls[i])
  <2>1. d = Without(c, i)
    BY <1>2 DEF GiveUp, IsAnswered
  <2>2. /\ AllAgree(held, d) /\ d.session = c.session /\ d.running = c.running
        /\ Ending(held, c) => Ends(c.calls[i], held) \/ Ending(held, d)
        /\ Closing(d) => Closing(c)
        /\ Closing(c) => Closes(c.calls[i]) \/ Closing(d)
        /\ Owned(held, c) => Owned(held, d)
        /\ NoneOpens(c) => NoneOpens(d)
    BY <1>1, <2>1, AccountedWithout
  <2>3. ~Ends(c.calls[i], held) /\ ~Closes(c.calls[i])
    BY DEF Ends, Closes
  <2>4. QED
    BY <2>2, <2>3 DEF Accounted, Sess
<1>3. CASE ~IsAnswered(c.calls[i])
  <2>1. d = Dropped(c, i)
    BY <1>3 DEF GiveUp, IsAnswered, Dropped
  <2>2. /\ Same(d, c)
        /\ DOMAIN d.calls = DOMAIN c.calls
        /\ \A j \in DOMAIN c.calls :
             LET k == d.calls[j]
                 l == c.calls[j] IN
             /\ SameRequest(k, l) /\ k.why = l.why /\ k.answer = l.answer
             /\ k.life = l.life /\ k.gen = l.gen
             /\ (k.awaited <=> l.awaited /\ j # i)
    BY <2>1, DroppedFacts
  <2>3. d.session = c.session /\ d.running = c.running
    BY <2>2 DEF Same
  <2>4. \A j \in DOMAIN c.calls : c.calls[j].awaited \in BOOLEAN /\ d.calls[j].awaited \in BOOLEAN
    <3>1. c \in ClientType /\ d \in ClientType
      BY <2>1, DroppedFacts
    <3>2. \A j \in DOMAIN c.calls : c.calls[j] \in Calls
      BY <3>1 DEF ClientType
    <3>3. \A j \in DOMAIN d.calls : d.calls[j] \in Calls
      BY <3>1 DEF ClientType
    <3>4. QED
      BY <2>2, <3>2, <3>3 DEF Calls
  <2>5. \A j \in DOMAIN c.calls : Passed(d.calls[j], c.calls[j])
    BY <1>3, <2>2, <2>4 DEF Passed, SameRequest
  <2>6. Accounted(held, d)
    BY <2>2, <2>3, <2>5, AccountedPassed
  <2>7. NoneOpens(c) => NoneOpens(d)
    BY <2>2 DEF NoneOpens, SameRequest
  <2>8. Closing(d) <=> Closing(c)
    BY <2>2 DEF Closing, Closes, SameRequest
  <2>9. Owned(held, c) => Owned(held, d)
    BY <2>2, <2>3 DEF Owned, Untouched, SameRequest, IsAnswered
  <2>10. QED
    BY <2>3, <2>6, <2>7, <2>8, <2>9 DEF Accounted, Sess
<1>4. QED
  BY <1>2, <1>3

(* abort(): afterwards no handshake will be taken for the live one.        *)
LEMMA SessAborted ==
  ASSUME NEW held, NEW c \in ClientType, ClientOk(c), Accounted(held, c), NEW n,
         NEW starts, NEW stops, NEW live, Link(c, starts, stops, live),
         \A i \in DOMAIN c.calls : c.calls[i].op = "handshake" /\ c.calls[i].gen => Starts(c.calls[i], n),
         NEW d, d = Aborted(c, n)
  PROVE  d \in ClientType /\ Accounted(held, d) /\ NoneOpens(d)
<1>1. d \in ClientType
  BY AbortedKeeps
<1>2. CASE /\ \A i \in DOMAIN c.calls : Starts(c.calls[i], n) => c.calls[i].op = "handshake"
           /\ d = NewGeneration(Orphaned(c, n))
  <2>1. PICK e : e = Orphaned(c, n)
    OBVIOUS
  <2>2. Accounted(held, d) /\ NoneOpens(d)
    BY <1>2, <2>1, AccountedOrphaned
  <2>3. QED
    BY <1>1, <2>2
<1>3. ASSUME NEW j \in DOMAIN c.calls, Starts(c.calls[j], n), c.calls[j].op = "health", d = GiveUp(c, j)
      PROVE  Accounted(held, d) /\ NoneOpens(d)
  <2>1. NoneOpens(c)
    <3>1. \A i \in DOMAIN c.calls : Starts(c.calls[i], n) => i = j
      BY <1>3, OneStarts DEF Starts, Waits
    <3>2. QED
      BY <1>3, <3>1 DEF NoneOpens
  <2>2. QED
    BY <1>3, <2>1, SessGiveUp
<1>4. CASE (\A i \in DOMAIN c.calls : ~Starts(c.calls[i], n)) /\ d = c
  BY <1>4 DEF NoneOpens
<1>5. QED
  BY <1>1, <1>2, <1>3, <1>4, AbortedCases

LEMMA NewCallFacts ==
  ASSUME NEW op \in {"handshake", "health", "attach", "detach", "shutdown"}, NEW sid \in Nat,
         NEW why \in Whys, NEW n \in Nat, NEW awaited \in BOOLEAN,
         NEW k, k = NewCall(op, sid, why, n, awaited)
  PROVE  /\ k \in Calls /\ k.op = op /\ k.sid = sid /\ k.why = why /\ k.n = n
         /\ k.awaited = awaited /\ k.gen /\ k.life /\ k.answer = Unanswered /\ k.answer.is = "none"
         /\ ~IsAnswered(k)
  BY DEF NewCall, Calls, IsAnswered, Unanswered, Answer

LEMMA SessSend ==
  ASSUME NEW held, NEW c \in ClientType, Sess(held, c), NEW op \in {"health", "attach", "detach"},
         NEW why \in Whys, NEW n \in Nat, NEW d, d = Send(c, op, why, n)
  PROVE  d \in ClientType /\ Sess(held, d)
<1>1. CASE c.session = 0
  BY <1>1 DEF Send
<1>2. CASE c.session # 0
  <2>1. PICK sid \in Nat : sid = c.session
    BY DEF ClientType
  <2>2. PICK yes \in BOOLEAN : yes = TRUE
    OBVIOUS
  <2>3. PICK k : k = NewCall(op, sid, why, n, yes)
    OBVIOUS
  <2>4. /\ k \in Calls /\ k.op = op /\ k.sid = sid /\ k.awaited = yes
        /\ k.gen /\ k.answer.is = "none" /\ ~IsAnswered(k)
    BY <2>3, NewCallFacts
  <2>5. d = Appended(c, k)
    BY <1>2, <2>1, <2>2, <2>3 DEF Send, Put, NewCall, Appended
  <2>6. AllAgree(held, c)
    BY DEF Sess
  <2>7. Agrees(k, held, c.session)
    BY <2>2, <2>4 DEF Agrees
  <2>8. \A i \in DOMAIN c.calls :
          c.calls[i].op = "handshake" /\ IsAnswered(c.calls[i]) => k.sid # c.calls[i].answer.id
    BY <2>1, <2>4, <2>6 DEF AllAgree, Agrees
  <2>9. /\ AllAgree(held, d) /\ d.session = c.session /\ d.running = c.running /\ d \in ClientType
        /\ Ending(held, c) \/ Ends(k, held) => Ending(held, d)
        /\ Closing(d) <=> Closing(c) \/ Closes(k)
        /\ Owned(held, c) /\ Untouched(k, c.session) => Owned(held, d)
    BY <2>4, <2>5, <2>6, <2>7, <2>8, AccountedAppend
  <2>10. ~Closes(k) /\ Untouched(k, c.session)
    BY <2>4 DEF Closes, Untouched
  <2>11. QED
    BY <2>9, <2>10 DEF Sess
<1>3. QED
  BY <1>1, <1>2

(* start(): the session it opens will be the service's one.                *)
LEMMA SessStart ==
  ASSUME NEW held, NEW c \in ClientType, ClientOk(c), Sess(held, c), NoneOpens(c), ~c.running,
         NEW n \in Nat, NEW d, d = StartCalled(c, n)
  PROVE  Sess(held, d)
<1>1. PICK e : e = NewLife(c)
  OBVIOUS
<1>2. Accounted(held, e) /\ NoneOpens(e) /\ e.session = c.session /\ (Closing(c) => Closing(e))
  BY <1>1, AccountedLife, SessAccounted
<1>3. e \in ClientType /\ e.running = c.running
  BY <1>1, NewLifeFacts DEF Same
<1>4. ClientOk(e)
  BY <1>1, OkNewLife
<1>5. PICK k : k = NewCall("handshake", 0, "start", n, TRUE)
  OBVIOUS
<1>6. /\ k \in Calls /\ k.op = "handshake" /\ k.sid = 0 /\ k.awaited /\ k.why = "start"
      /\ k.gen /\ k.life /\ k.answer.is = "none" /\ ~IsAnswered(k)
  <2>1. /\ "handshake" \in {"handshake", "health", "attach", "detach", "shutdown"}
        /\ "start" \in Whys /\ 0 \in Nat
    BY DEF Whys
  <2>2. QED
    BY <1>5, <2>1 DEF NewCall, Calls, IsAnswered, Unanswered, Answer, Whys
<1>7. d = Appended(e, k)
  BY <1>1, <1>5 DEF StartCalled, Open, Put, NewCall, Appended
<1>8. AllAgree(held, e)
  BY <1>2 DEF Accounted
<1>9. Agrees(k, held, e.session)
  BY <1>6 DEF Agrees
<1>10. \A i \in DOMAIN e.calls :
         e.calls[i].op = "handshake" /\ IsAnswered(e.calls[i]) => k.sid # e.calls[i].answer.id
  BY <1>4, <1>6, <1>8 DEF AllAgree, Agrees, ClientOk, Fits
<1>11. /\ AllAgree(held, d) /\ d.session = e.session /\ d.running = e.running
       /\ Ending(held, e) \/ Ends(k, held) => Ending(held, d)
       /\ Closing(d) <=> Closing(e) \/ Closes(k)
  BY <1>2, <1>3, <1>6, <1>7, <1>8, <1>9, <1>10, AccountedAppend
<1>12. Ends(k, held)
  BY <1>6 DEF Ends
<1>13. c.session # 0 => Closing(c)
  BY DEF Sess, Owned
<1>14. QED
  BY <1>2, <1>3, <1>11, <1>12, <1>13 DEF Sess

-----------------------------------------------------------------------------
(* An answer has arrived, and its request is gone.                         *)

LEMMA SessAnswered ==
  ASSUME NEW held, NEW c \in ClientType, Sess(held, c), NEW i \in DOMAIN c.calls,
         c.calls[i].op # "handshake", IsAnswered(c.calls[i]), ~Closes(c.calls[i]),
         NEW d, d = Without(c, i)
  PROVE  Sess(held, d)
<1>1. AllAgree(held, c)
  BY DEF Sess
<1>2. /\ AllAgree(held, d) /\ d.session = c.session /\ d.running = c.running
      /\ Ending(held, c) => Ends(c.calls[i], held) \/ Ending(held, d)
      /\ Closing(d) => Closing(c)
      /\ Closing(c) => Closes(c.calls[i]) \/ Closing(d)
      /\ Owned(held, c) => Owned(held, d)
  BY <1>1, AccountedWithout
<1>3. ~Ends(c.calls[i], held)
  BY DEF Ends
<1>4. QED
  BY <1>2, <1>3 DEF Sess

(* forget(): the session it forgets is no longer the service's.            *)
LEMMA SessForgot ==
  ASSUME NEW held, NEW c \in ClientType, ClientOk(c), Sess(held, c), NEW i \in DOMAIN c.calls,
         c.calls[i].op # "handshake", IsAnswered(c.calls[i]), c.calls[i].awaited, c.calls[i].gen,
         c.calls[i].sid # held, NEW d, d = Forget(Without(c, i))
  PROVE  Sess(held, d) /\ ~d.running /\ d.session = 0
<1>1. c.session = c.calls[i].sid /\ c.session # 0
  BY DEF ClientOk, Names, Fits
<1>2. ~c.running /\ (held # 0 => Ending(held, c)) /\ AllAgree(held, c)
  BY <1>1 DEF Sess, Owned
<1>3. PICK e : e = Without(c, i)
  OBVIOUS
<1>4. /\ AllAgree(held, e) /\ e.running = c.running
      /\ Ending(held, c) => Ends(c.calls[i], held) \/ Ending(held, e)
  BY <1>2, <1>3, AccountedWithout
<1>5. ~Ends(c.calls[i], held)
  BY DEF Ends
<1>6. ClientOk(e) /\ e \in ClientType
  BY <1>3, OkWithout, WithoutFacts
<1>7. PICK f : f = [e EXCEPT !.session = 0]
  OBVIOUS
<1>8. f \in ClientType /\ f.calls = e.calls /\ f.session = 0 /\ f.running = e.running
  BY <1>6, <1>7 DEF ClientType
<1>9. d = NewGeneration(f)
  BY <1>3, <1>7 DEF Forget
<1>10. \A j \in DOMAIN e.calls : e.calls[j].op = "handshake" /\ IsAnswered(e.calls[j]) => e.calls[j].answer.id # 0
  BY <1>4, <1>6 DEF AllAgree, Agrees, ClientOk, Fits
<1>11. Accounted(held, f)
  <2>1. AllAgree(held, f)
    BY <1>4, <1>8, <1>10 DEF AllAgree, Agrees
  <2>2. held # 0 => Ending(held, f)
    BY <1>2, <1>4, <1>5, <1>8 DEF Ending
  <2>3. QED
    BY <2>1, <2>2 DEF Accounted
<1>12. Accounted(held, d)
  BY <1>8, <1>9, <1>11, AccountedGeneration
<1>13. d.session = 0 /\ ~d.running
  BY <1>2, <1>4, <1>8, <1>9, NewGenerationFacts DEF Same
<1>14. QED
  BY <1>12, <1>13 DEF Sess, Accounted

(* The handshake of a live start: its session is the one the service holds.*)
GenerationPassed(q, r) ==
  /\ DOMAIN q = DOMAIN r
  /\ \A j \in DOMAIN r : Passed(q[j], r[j]) /\ ~q[j].gen

LEMMA PassedGeneration ==
  ASSUME NEW g \in ClientType, NEW d, d = NewGeneration(g)
  PROVE  GenerationPassed(d.calls, g.calls) /\ d.session = g.session /\ d.running = g.running
<1>1. Same(d, g)
  BY NewGenerationFacts
<1>2. /\ DOMAIN d.calls = DOMAIN g.calls
      /\ \A j \in DOMAIN g.calls :
           LET k == d.calls[j]
               l == g.calls[j] IN
           /\ SameRequest(k, l) /\ k.why = l.why /\ k.answer = l.answer
           /\ k.awaited = l.awaited /\ k.life = l.life /\ k.gen = FALSE
  BY NewGenerationFacts
<1>3. GenerationPassed(d.calls, g.calls)
  BY <1>2 DEF GenerationPassed, Passed, SameRequest
<1>4. QED
  BY <1>1, <1>3 DEF Same

(* No other request knows the session that has just been opened.           *)
Foreign(q, id) ==
  \A j \in DOMAIN q : /\ q[j].sid # id
                      /\ q[j].op = "handshake" => IsAnswered(q[j]) /\ q[j].answer.id # id

LEMMA OpenedOwns ==
  ASSUME NEW held, held # 0, NEW e, AllAgree(held, e), Foreign(e.calls, held),
         NEW f, GenerationPassed(f.calls, e.calls), f.session = held, f.running
  PROVE  Sess(held, f)
<1>1. AllAgree(held, f)
  BY AgreePassed DEF GenerationPassed, Foreign
<1>2. ~Closing(f)
  BY DEF Closing, Closes, GenerationPassed
<1>3. \A j \in DOMAIN f.calls : Untouched(f.calls[j], held)
  BY DEF GenerationPassed, Foreign, Untouched, Passed, IsAnswered, Closes
<1>4. Owned(held, f)
  BY <1>3 DEF Owned
<1>5. QED
  BY <1>1, <1>2, <1>4 DEF Sess

LEMMA SessOpened ==
  ASSUME NEW held, NEW c \in ClientType, ClientOk(c), Sess(held, c), NEW i \in DOMAIN c.calls,
         c.calls[i].op = "handshake", IsAnswered(c.calls[i]), c.calls[i].gen,
         NEW d, d = Opened(Without(c, i), c.calls[i], c.calls[i].answer.id),
         NEW f, f.calls = d.calls, f.session = d.session, f.running
  PROVE  Sess(held, f)
<1>1. c.calls[i].answer.id = held /\ AllAgree(held, c) /\ c.calls[i] \in Calls /\ held # 0 /\ held \in Nat
  <2>1. c.calls[i] \in Calls
    BY DEF ClientType
  <2>2. c.calls[i].answer \in AnswerType
    BY <2>1 DEF Calls, AnswerType
  <2>3. c.calls[i].answer.id = held /\ AllAgree(held, c) /\ c.calls[i].answer.id # 0
    BY DEF Sess, AllAgree, Agrees, ClientOk, Fits
  <2>4. QED
    BY <2>1, <2>2, <2>3 DEF AnswerType
<1>2. PICK e : e = Without(c, i)
  OBVIOUS
<1>3. /\ e \in ClientType
      /\ \A k \in DOMAIN e.calls : /\ Place(i, k) \in DOMAIN c.calls /\ Place(i, k) # i
                                   /\ e.calls[k] = c.calls[Place(i, k)]
  BY <1>2, WithoutFacts
<1>4. AllAgree(held, e)
  BY <1>1, <1>2, AccountedWithout
<1>5. \A j \in DOMAIN c.calls : j # i =>
        /\ c.calls[j].sid # held
        /\ c.calls[j].op = "handshake" => IsAnswered(c.calls[j]) /\ c.calls[j].answer.id # held
  <2>1. \A j \in DOMAIN c.calls : j # i => Apart(c.calls[i], c.calls[j])
    BY <1>1 DEF AllAgree
  <2>2. \A j \in DOMAIN c.calls : i < j => c.calls[j].op # "handshake"
    BY <1>1 DEF AllAgree, Newest
  <2>3. \A j \in DOMAIN c.calls : j < i => IsAnswered(c.calls[j])
    BY DEF ClientOk, InTurn
  <2>4. \A j \in DOMAIN c.calls : j # i => j < i \/ i < j
    BY DEF ClientType
  <2>5. \A j \in DOMAIN c.calls : j # i /\ c.calls[j].op = "handshake" => IsAnswered(c.calls[j])
    BY <2>2, <2>3, <2>4
  <2>6. QED
    BY <1>1, <2>1, <2>5 DEF Apart
<1>6. PICK g : g = [e EXCEPT !.session = held]
  OBVIOUS
<1>7. g \in ClientType /\ g.calls = e.calls /\ g.session = held
  BY <1>1, <1>3, <1>6 DEF ClientType
<1>8. d = NewGeneration(g)
  BY <1>1, <1>2, <1>6 DEF Opened
<1>9. GenerationPassed(d.calls, g.calls) /\ d.session = g.session
  BY <1>7, <1>8, PassedGeneration
<1>10. GenerationPassed(f.calls, e.calls) /\ f.session = held
  BY <1>7, <1>9
<1>11. Foreign(e.calls, held)
  BY <1>3, <1>5 DEF Foreign
<1>12. QED
  BY <1>1, <1>4, <1>10, <1>11, OpenedOwns

(* A handshake nobody wants any more: its session is ended.                *)
LEMMA SessOrphaned ==
  ASSUME NEW held, NEW c \in ClientType, ClientOk(c), Sess(held, c), NEW i \in DOMAIN c.calls,
         c.calls[i].op = "handshake", IsAnswered(c.calls[i]), ~c.calls[i].gen,
         NEW d, d = Opened(Without(c, i), c.calls[i], c.calls[i].answer.id)
  PROVE  Sess(held, d)
<1>1. AllAgree(held, c)
  BY DEF Sess
<1>2. PICK id \in Nat : id = c.calls[i].answer.id
  <2>1. c.calls[i] \in Calls
    BY DEF ClientType
  <2>2. c.calls[i].answer \in AnswerType
    BY <2>1 DEF Calls, AnswerType
  <2>3. QED
    BY <2>2 DEF AnswerType
<1>3. id # 0 /\ id # c.session
  BY <1>1, <1>2 DEF AllAgree, Agrees, ClientOk, Fits
<1>4. PICK e : e = Without(c, i)
  OBVIOUS
<1>5. /\ e \in ClientType
      /\ \A k \in DOMAIN e.calls : /\ Place(i, k) \in DOMAIN c.calls /\ Place(i, k) # i
                                   /\ e.calls[k] = c.calls[Place(i, k)]
  BY <1>4, WithoutFacts
<1>6. /\ AllAgree(held, e) /\ e.session = c.session /\ e.running = c.running
      /\ Ending(held, c) => Ends(c.calls[i], held) \/ Ending(held, e)
      /\ Closing(e) => Closing(c)
      /\ Closing(c) => Closes(c.calls[i]) \/ Closing(e)
      /\ Owned(held, c) => Owned(held, e)
  BY <1>1, <1>4, AccountedWithout
<1>7. PICK k : k = NewCall("shutdown", id, "nothing", 0, FALSE)
  OBVIOUS
<1>8. /\ k \in Calls /\ k.op = "shutdown" /\ k.sid = id /\ k.why = "nothing"
      /\ k.gen /\ k.answer.is = "none" /\ ~IsAnswered(k) /\ ~k.awaited
  <2>1. /\ "shutdown" \in {"handshake", "health", "attach", "detach", "shutdown"}
        /\ "nothing" \in Whys /\ 0 \in Nat
    BY DEF Whys
  <2>2. QED
    BY <1>7, <2>1 DEF NewCall, Calls, IsAnswered, Unanswered, Answer, Whys
<1>9. d = Appended(e, k)
  BY <1>2, <1>4, <1>7 DEF Put, NewCall, Appended, Opened, EndOrphan
<1>10. Agrees(k, held, e.session)
  BY <1>8 DEF Agrees
<1>11. \A j \in DOMAIN e.calls :
         e.calls[j].op = "handshake" /\ IsAnswered(e.calls[j]) => k.sid # e.calls[j].answer.id
  <2>1. \A j \in DOMAIN c.calls : j # i => Apart(c.calls[i], c.calls[j])
    BY <1>1 DEF AllAgree
  <2>2. QED
    BY <1>2, <1>5, <1>8, <2>1 DEF Apart
<1>12. /\ AllAgree(held, d) /\ d.session = e.session /\ d.running = e.running
       /\ Ending(held, e) \/ Ends(k, held) => Ending(held, d)
       /\ Closing(d) <=> Closing(e) \/ Closes(k)
       /\ Owned(held, e) /\ Untouched(k, e.session) => Owned(held, d)
  BY <1>5, <1>6, <1>8, <1>9, <1>10, <1>11, AccountedAppend
<1>13. Ends(c.calls[i], held) => Ends(k, held)
  BY <1>2, <1>8 DEF Ends
<1>14. ~Closes(k) /\ ~Closes(c.calls[i])
  BY <1>8 DEF Closes
<1>15. Untouched(k, e.session)
  BY <1>3, <1>6, <1>8 DEF Untouched
<1>16. QED
  BY <1>6, <1>12, <1>13, <1>14, <1>15 DEF Sess

-----------------------------------------------------------------------------
(* The service handles a request.                                          *)

HandedOne(q, r, i, a) ==
  /\ DOMAIN q = DOMAIN r
  /\ \A j \in DOMAIN r :
       /\ q[j].op = r[j].op /\ q[j].sid = r[j].sid /\ q[j].why = r[j].why
       /\ q[j].awaited = r[j].awaited /\ q[j].life = r[j].life /\ q[j].gen = r[j].gen
       /\ q[j].answer = IF j = i THEN a ELSE r[j].answer

LEMMA HandedIsOne ==
  ASSUME NEW c \in ClientType, NEW i \in DOMAIN c.calls, NEW a \in AnswerType,
         c.calls[i].awaited, NEW d, d = Reply(c, i, a)
  PROVE  /\ HandedOne(d.calls, c.calls, i, a) /\ d.session = c.session /\ d.running = c.running
         /\ d.attached = c.attached
<1>1. d = Handed(c, i, a)
  BY DEF Reply, Handed
<1>2. /\ Same(d, c)
      /\ DOMAIN d.calls = DOMAIN c.calls
      /\ \A j \in DOMAIN c.calls :
           LET k == d.calls[j]
               l == c.calls[j] IN
           /\ SameRequest(k, l) /\ k.why = l.why /\ k.awaited = l.awaited
           /\ k.life = l.life /\ k.gen = l.gen
           /\ k.answer = IF j = i THEN a ELSE l.answer
  BY <1>1, HandedFacts
<1>3. HandedOne(d.calls, c.calls, i, a)
  BY <1>2 DEF HandedOne, SameRequest
<1>4. QED
  BY <1>2, <1>3 DEF Same

LEMMA HandedCloses ==
  ASSUME NEW c, NEW d, NEW i, NEW a, HandedOne(d.calls, c.calls, i, a)
  PROVE  Closing(d) <=> Closing(c)
  BY DEF Closing, Closes, HandedOne

(* A session no request knows is opened.                                   *)
LEMMA SessHandshook ==
  ASSUME NEW held, NEW c \in ClientType, ClientOk(c), Sess(held, c), NEW i \in DOMAIN c.calls,
         ~IsAnswered(c.calls[i]), c.calls[i].op = "handshake",
         NEW fresh, fresh # c.session,
         \A j \in DOMAIN c.calls : c.calls[j].sid # fresh /\ c.calls[j].answer.id # fresh,
         NEW a, a.is = "ok", a.id = fresh, NEW d, HandedOne(d.calls, c.calls, i, a),
         d.session = c.session, d.running = c.running
  PROVE  Sess(fresh, d)
<1>1. AllAgree(held, c)
  BY DEF Sess
<1>2. DOMAIN c.calls \subseteq Nat
  BY DEF ClientType
<1>3. a # Unanswered
  BY DEF Unanswered, Answer
<1>4. \A j \in DOMAIN c.calls : c.calls[j].op = "handshake" /\ IsAnswered(c.calls[j]) => ~c.calls[j].gen
  <2>1. \A j \in DOMAIN c.calls : IsAnswered(c.calls[j]) => j < i
    <3>1. \A j \in DOMAIN c.calls : j = i \/ j < i \/ i < j
      BY <1>2
    <3>2. QED
      BY <3>1 DEF ClientOk, InTurn
  <2>2. QED
    BY <1>1, <2>1 DEF AllAgree, Newest
<1>5. \A j \in DOMAIN d.calls : Agrees(d.calls[j], fresh, d.session)
  <2>1. ASSUME NEW j \in DOMAIN c.calls, j # i PROVE Agrees(d.calls[j], fresh, d.session)
    <3>1. Agrees(c.calls[j], held, c.session)
      BY <1>1 DEF AllAgree
    <3>2. QED
      BY <1>4, <2>1, <3>1 DEF Agrees, HandedOne, IsAnswered
  <2>2. Agrees(d.calls[i], fresh, d.session)
    <3>1. Agrees(c.calls[i], held, c.session)
      BY <1>1 DEF AllAgree
    <3>2. QED
      BY <1>3, <3>1 DEF Agrees, HandedOne, IsAnswered
  <2>3. QED
    BY <2>1, <2>2 DEF HandedOne
<1>6. \A j, k \in DOMAIN d.calls : j # k => Apart(d.calls[j], d.calls[k])
  <2>1. \A j \in DOMAIN c.calls : d.calls[j].sid # fresh /\ (j # i => d.calls[j].answer.id # fresh)
    BY DEF HandedOne
  <2>2. \A j \in DOMAIN c.calls : j # i => Apart(d.calls[i], d.calls[j])
    BY <2>1 DEF Apart, HandedOne
  <2>3. \A j \in DOMAIN c.calls : j # i => Apart(d.calls[j], d.calls[i])
    <3>1. \A j \in DOMAIN c.calls : j # i => Apart(c.calls[j], c.calls[i])
      BY <1>1 DEF AllAgree
    <3>2. QED
      BY <2>1, <3>1 DEF Apart, HandedOne, IsAnswered
  <2>4. \A j, k \in DOMAIN c.calls : j # k /\ j # i /\ k # i => Apart(d.calls[j], d.calls[k])
    <3>1. \A j, k \in DOMAIN c.calls : j # k => Apart(c.calls[j], c.calls[k])
      BY <1>1 DEF AllAgree
    <3>2. QED
      BY <3>1 DEF Apart, HandedOne, IsAnswered
  <2>5. QED
    BY <2>2, <2>3, <2>4 DEF HandedOne
<1>7. \A j, k \in DOMAIN d.calls : j < k => Newest(d.calls[j], d.calls[k])
  BY <1>1 DEF AllAgree, Newest, HandedOne
<1>8. ~Owned(held, c)
  BY DEF Owned, Untouched
<1>9. Closing(d) <=> Closing(c)
  BY HandedCloses
<1>10. Ends(d.calls[i], fresh)
  BY DEF Ends, HandedOne
<1>11. Ending(fresh, d)
  BY <1>10 DEF Ending, HandedOne
<1>12. QED
  BY <1>5, <1>6, <1>7, <1>8, <1>9, <1>11 DEF Sess, AllAgree

(* The session the service held ends.                                      *)
LEMMA EndedAgrees ==
  ASSUME NEW held, NEW c, ClientOk(c), AllAgree(held, c), NEW i \in DOMAIN c.calls,
         c.calls[i].op # "handshake", c.calls[i].sid = held
  PROVE  AllAgree(0, c)
<1>1. \A j \in DOMAIN c.calls : c.calls[j].op = "handshake" /\ IsAnswered(c.calls[j]) => c.calls[j].answer.id # held
  <2>1. \A j \in DOMAIN c.calls : j # i => Apart(c.calls[j], c.calls[i])
    BY DEF AllAgree
  <2>2. QED
    BY <2>1 DEF Apart
<1>2. \A j \in DOMAIN c.calls : Agrees(c.calls[j], 0, c.session)
  <2>1. \A j \in DOMAIN c.calls : c.calls[j].op # "handshake" => c.calls[j].sid # 0
    BY DEF ClientOk, Fits
  <2>2. \A j \in DOMAIN c.calls : Agrees(c.calls[j], held, c.session)
    BY DEF AllAgree
  <2>3. QED
    BY <1>1, <2>1, <2>2 DEF Agrees
<1>3. QED
  BY <1>2 DEF AllAgree

(* An answer of another request leaves the sessions as they are.           *)
LEMMA HandedAgrees ==
  ASSUME NEW held, NEW c, AllAgree(held, c), NEW i \in DOMAIN c.calls,
         c.calls[i].op # "handshake", c.calls[i].awaited, NEW a,
         c.calls[i].op = "shutdown" \/ a.is = "lost" => c.calls[i].sid # held,
         NEW d, HandedOne(d.calls, c.calls, i, a), d.session = c.session
  PROVE  AllAgree(held, d)
<1>1. \A j \in DOMAIN d.calls : Agrees(d.calls[j], held, d.session)
  <2>1. \A j \in DOMAIN c.calls : Agrees(c.calls[j], held, c.session)
    BY DEF AllAgree
  <2>2. \A j \in DOMAIN c.calls : j # i => Agrees(d.calls[j], held, d.session)
    BY <2>1 DEF Agrees, HandedOne, IsAnswered
  <2>3. Agrees(d.calls[i], held, d.session)
    BY <2>1 DEF Agrees, HandedOne, IsAnswered
  <2>4. QED
    BY <2>2, <2>3 DEF HandedOne
<1>2. \A j, k \in DOMAIN d.calls : j # k => Apart(d.calls[j], d.calls[k])
  <2>1. \A j, k \in DOMAIN c.calls : j # k => Apart(c.calls[j], c.calls[k])
    BY DEF AllAgree
  <2>2. QED
    BY <2>1 DEF Apart, HandedOne, IsAnswered
<1>3. \A j, k \in DOMAIN d.calls : j < k => Newest(d.calls[j], d.calls[k])
  BY DEF AllAgree, Newest, HandedOne
<1>4. QED
  BY <1>1, <1>2, <1>3 DEF AllAgree

LEMMA SessShut ==
  ASSUME NEW held, NEW c \in ClientType, ClientOk(c), Sess(held, c), NEW i \in DOMAIN c.calls,
         c.calls[i].op = "shutdown", c.calls[i].sid = held, held # 0,
         NEW a \in AnswerType, a.is = "ok", NEW d, d = Reply(c, i, a)
  PROVE  Sess(0, d)
<1>1. AllAgree(held, c)
  BY DEF Sess
<1>2. AllAgree(0, c)
  BY <1>1, EndedAgrees
<1>3. ~Owned(held, c)
  BY DEF Owned, Untouched
<1>4. ~c.running /\ (c.session # 0 => Closing(c))
  BY <1>3 DEF Sess
<1>5. CASE c.calls[i].awaited
  <2>1. HandedOne(d.calls, c.calls, i, a) /\ d.session = c.session /\ d.running = c.running
    BY <1>5, HandedIsOne
  <2>2. AllAgree(0, d)
    BY <1>2, <1>5, <2>1, HandedAgrees
  <2>3. Closing(d) <=> Closing(c)
    BY <2>1, HandedCloses
  <2>4. QED
    BY <1>4, <2>1, <2>2, <2>3 DEF Sess
<1>6. CASE ~c.calls[i].awaited
  <2>1. d = Without(c, i)
    BY <1>6 DEF Reply
  <2>2. /\ AllAgree(0, d) /\ d.session = c.session /\ d.running = c.running
        /\ Closing(c) => Closes(c.calls[i]) \/ Closing(d)
    BY <1>2, <2>1, AccountedWithout
  <2>3. ~Closes(c.calls[i])
    BY <1>6 DEF Closes
  <2>4. QED
    BY <1>4, <2>2, <2>3 DEF Sess
<1>7. QED
  BY <1>5, <1>6

LEMMA SessServed ==
  ASSUME NEW held, NEW c \in ClientType, ClientOk(c), Sess(held, c), NEW i \in DOMAIN c.calls,
         c.calls[i].op # "handshake", ~IsAnswered(c.calls[i]), NEW a \in AnswerType,
         c.calls[i].op = "shutdown" \/ a.is = "lost" => c.calls[i].sid # held,
         NEW d, d = Reply(c, i, a)
  PROVE  Sess(held, d)
<1>1. AllAgree(held, c)
  BY DEF Sess
<1>2. ~Ends(c.calls[i], held)
  BY DEF Ends
<1>3. CASE c.calls[i].awaited
  <2>1. HandedOne(d.calls, c.calls, i, a) /\ d.session = c.session /\ d.running = c.running
    BY <1>3, HandedIsOne
  <2>2. AllAgree(held, d)
    BY <1>1, <1>3, <2>1, HandedAgrees
  <2>3. Closing(d) <=> Closing(c)
    BY <2>1, HandedCloses
  <2>4. Owned(held, c) => Owned(held, d)
    BY <2>1 DEF Owned, Untouched, HandedOne, IsAnswered
  <2>5. Ending(held, c) => Ending(held, d)
    <3>1. \A j \in DOMAIN c.calls : j # i /\ Ends(c.calls[j], held) => Ends(d.calls[j], held)
      BY <2>1 DEF Ends, HandedOne, IsAnswered
    <3>2. QED
      BY <1>2, <2>1, <3>1 DEF Ending, HandedOne
  <2>6. QED
    BY <2>1, <2>2, <2>3, <2>4, <2>5 DEF Sess
<1>4. CASE ~c.calls[i].awaited
  <2>1. d = Without(c, i)
    BY <1>4 DEF Reply
  <2>2. /\ AllAgree(held, d) /\ d.session = c.session /\ d.running = c.running
        /\ Ending(held, c) => Ends(c.calls[i], held) \/ Ending(held, d)
        /\ Closing(d) => Closing(c)
        /\ Closing(c) => Closes(c.calls[i]) \/ Closing(d)
        /\ Owned(held, c) => Owned(held, d)
    BY <1>1, <2>1, AccountedWithout
  <2>3. ~Closes(c.calls[i])
    BY <1>4 DEF Closes
  <2>4. QED
    BY <1>2, <2>2, <2>3 DEF Sess
<1>5. QED
  BY <1>3, <1>4

(* What handle() answers, and whose session the service holds then.        *)
LEMMA HandleCases ==
  ASSUME NEW s \in Services, NEW op \in {"handshake", "health", "attach", "detach", "shutdown"},
         NEW sid, NEW fresh, NEW done, done = Handle(s, op, sid, fresh), op # "handshake" => sid # 0
  PROVE  \/ /\ op = "handshake" /\ done.service.id = fresh /\ ~done.service.attached
            /\ done.answer.is = "ok" /\ done.answer.id = fresh
         \/ /\ op = "shutdown" /\ sid = s.id /\ done.service.id = 0 /\ ~done.service.attached
            /\ done.answer.is = "ok"
         \/ /\ op \in {"health", "attach", "detach"} /\ sid = s.id /\ s.id # 0
            /\ done.service.id = s.id /\ done.answer.is # "lost"
         \/ op # "handshake" /\ sid # s.id /\ done.service = s /\ done.answer = Lost
<1>1. CASE op = "handshake"
  BY <1>1 DEF Handle, Handshake, Good, Answer
<1>2. CASE op # "handshake" /\ ~Authenticated(s, sid)
  BY <1>2 DEF Handle, Authenticated
<1>3. CASE op = "shutdown" /\ Authenticated(s, sid)
  BY <1>3 DEF Handle, Authenticated, Good, Answer, NoSession
<1>4. CASE op = "health" /\ Authenticated(s, sid)
  BY <1>4 DEF Handle, Authenticated, Good, Answer
<1>5. CASE op = "attach" /\ Authenticated(s, sid)
  BY <1>5 DEF Handle, Authenticated, Good, Answer, Attach, Refused, Services
<1>6. CASE op = "detach" /\ Authenticated(s, sid)
  BY <1>6 DEF Handle, Authenticated, Good, Answer, Detach, Services
<1>7. QED
  BY <1>1, <1>2, <1>3, <1>4, <1>5, <1>6

LEMMA SessReply ==
  ASSUME NEW s \in Services, NEW c \in ClientType, ClientOk(c), Sess(s.id, c), NEW i \in DOMAIN c.calls,
         ~IsAnswered(c.calls[i]), NEW fresh \in Nat, fresh # 0, fresh # c.session,
         \A j \in DOMAIN c.calls : c.calls[j].sid # fresh /\ c.calls[j].answer.id # fresh,
         NEW done, done = Handle(s, c.calls[i].op, c.calls[i].sid, fresh),
         NEW d, d = Reply(c, i, done.answer)
  PROVE  Sess(done.service.id, d)
<1>1. PICK k \in Calls : k = c.calls[i]
  BY DEF ClientType
<1>2. PICK op \in {"handshake", "health", "attach", "detach", "shutdown"} : op = k.op
  BY DEF Calls
<1>3. PICK sid \in Nat : sid = k.sid
  BY DEF Calls
<1>4. done = Handle(s, op, sid, fresh) /\ (op # "handshake" => sid # 0)
  BY <1>1, <1>2, <1>3 DEF ClientOk, Fits
<1>5. done.answer \in AnswerType /\ done.answer.is # "none"
  BY <1>4, HandleFacts
<1>6. PICK a \in AnswerType : a = done.answer
  BY <1>5
<1>7. CASE op = "handshake" /\ done.service.id = fresh /\ a.is = "ok" /\ a.id = fresh
  <2>1. c.calls[i].awaited
    BY <1>1, <1>2, <1>7 DEF Sess, AllAgree, Agrees
  <2>2. HandedOne(d.calls, c.calls, i, a) /\ d.session = c.session /\ d.running = c.running
    BY <1>6, <2>1, HandedIsOne
  <2>3. QED
    BY <1>1, <1>2, <1>7, <2>2, SessHandshook
<1>8. CASE op = "shutdown" /\ sid = s.id /\ done.service.id = 0 /\ a.is = "ok"
  BY <1>1, <1>2, <1>3, <1>4, <1>6, <1>8, SessShut
<1>9. CASE op \in {"health", "attach", "detach"} /\ sid = s.id /\ done.service.id = s.id /\ a.is # "lost"
  BY <1>1, <1>2, <1>3, <1>6, <1>9, SessServed
<1>10. CASE op # "handshake" /\ sid # s.id /\ done.service = s
  BY <1>1, <1>2, <1>3, <1>6, <1>10, SessServed
<1>11. QED
  BY <1>4, <1>6, <1>7, <1>8, <1>9, <1>10, HandleCases

-----------------------------------------------------------------------------
(* The continuations.                                                      *)

LEMMA SessRead ==
  ASSUME NEW held, NEW c \in ClientType, Sess(held, c), NEW call, NEW r, NEW attached \in BOOLEAN,
         NEW d, d = ReadHealth(c, call, r, attached)
  PROVE  d \in ClientType /\ Sess(held, d)
<1>1. ASSUME NEW e \in ClientType, Sess(held, e), NEW row \in Rows, d = Row(e, row)
      PROVE  d \in ClientType /\ Sess(held, d)
  <2>1. d \in ClientType /\ d.calls = e.calls /\ d.session = e.session /\ d.running = e.running
    BY <1>1 DEF Row, ClientType
  <2>2. QED
    BY <1>1, <2>1, SessFields
<1>2. CASE ~call.life
  BY <1>2 DEF ReadHealth
<1>3. CASE call.life /\ r = "lost"
  <2>1. PICK e : e = Gone(c)
    OBVIOUS
  <2>2. e \in ClientType /\ e.calls = c.calls /\ e.session = c.session /\ e.running = c.running
    BY <2>1 DEF Gone, ClientType
  <2>3. Sess(held, e)
    BY <2>2, SessFields
  <2>4. d = Row(e, "error") /\ "error" \in Rows
    BY <1>3, <2>1 DEF ReadHealth, Rows
  <2>5. QED
    BY <1>1, <2>2, <2>3, <2>4
<1>4. CASE call.life /\ r \in {"refused", "failed"}
  <2>1. d = Row(c, "degraded") /\ "degraded" \in Rows
    BY <1>4 DEF ReadHealth, Rows
  <2>2. QED
    BY <1>1, <2>1
<1>5. CASE call.life /\ r \notin {"lost", "refused", "failed"}
  <2>1. PICK e : e = Absorb(c, attached)
    OBVIOUS
  <2>2. e \in ClientType /\ e.calls = c.calls /\ e.session = c.session /\ e.running = c.running
    BY <2>1 DEF Absorb, ClientType
  <2>3. Sess(held, e)
    BY <2>2, SessFields
  <2>4. PICK f : f = IF attached /\ ~e.attached THEN Repair(e) ELSE e
    OBVIOUS
  <2>5. f \in ClientType /\ Sess(held, f)
    <3>1. CASE attached /\ ~e.attached
      <4>1. f = Send(e, "detach", "repair", 0) /\ "repair" \in Whys /\ 0 \in Nat
        BY <2>4, <3>1 DEF Repair, Whys
      <4>2. QED
        BY <2>2, <2>3, <4>1, SessSend
    <3>2. CASE ~(attached /\ ~e.attached)
      BY <2>2, <2>3, <2>4, <3>2
    <3>3. QED
      BY <3>1, <3>2
  <2>6. PICK row \in Rows : d = Row(f, row)
    <3>1. d = Row(f, IF e.available THEN "healthy" ELSE "unavailable")
      BY <1>5, <2>1, <2>4 DEF ReadHealth
    <3>2. QED
      BY <3>1 DEF Rows
  <2>7. QED
    BY <1>1, <2>5, <2>6
<1>6. QED
  BY <1>2, <1>3, <1>4, <1>5

LEMMA SessSchedule ==
  ASSUME NEW held, NEW c \in ClientType, Sess(held, c), NEW d, d = Schedule(c)
  PROVE  Sess(held, d)
<1>1. d.calls = c.calls /\ d.session = c.session /\ d.running = c.running
  BY DEF Schedule, ClientType
<1>2. QED
  BY <1>1, SessFields

LEMMA SessDetach ==
  ASSUME NEW held, NEW c \in ClientType, Sess(held, c), NEW d, d = SendDetach(c)
  PROVE  d \in ClientType /\ Sess(held, d)
<1>1. "nothing" \in Whys /\ 0 \in Nat /\ d = Send(c, "detach", "nothing", 0)
  BY DEF Whys, SendDetach
<1>2. QED
  BY <1>1, SessSend

LEMMA SessBelief ==
  ASSUME NEW held, NEW c \in ClientType, Sess(held, c),
         NEW d, \/ d = Gone(c) \/ d = Attached(c) \/ d = LetGo(c) \/ \E a \in BOOLEAN : d = Absorb(c, a)
  PROVE  d \in ClientType /\ Sess(held, d)
<1>1. d \in ClientType /\ d.calls = c.calls /\ d.session = c.session /\ d.running = c.running
  BY DEF Gone, Attached, LetGo, Absorb, ClientType
<1>2. QED
  BY <1>1, SessFields

(* Everything but a handshake, and but the answer to a shutdown that still *)
(* counts.                                                                 *)
LEMMA SessContinues ==
  ASSUME SysCore, NEW held, NEW e \in ClientType, Sess(held, e),
         NEW call, NEW r, NEW ans, Resumes(e, call, r, ans), call.op # "handshake", NEW lostNow,
         call.why \in {"stop", "failed", "release"} => ~call.gen \/ lostNow,
         Continue(e, call, r, ans, lostNow)
  PROVE  Sess(held, client')
<1>1. call \in Calls /\ Fits(call) /\ ans.attached \in BOOLEAN
  BY DEF Resumes, AnswerType
<1>2. ~Opens(e, call, r, ans) /\ ~Recovers(e, call, r, ans) /\ call.why # "orphan"
  BY <1>1 DEF Opens, Recovers, Fits
<1>3. PICK d : d = client'
  OBVIOUS
<1>4. PICK read : read = ReadHealth(e, call, r, ans.attached)
  OBVIOUS
<1>5. read \in ClientType /\ Sess(held, read)
  BY <1>1, <1>4, SessRead
<1>6. CASE StartChecked(e, call, r, ans)
  <2>1. PICK down : down = [read EXCEPT !.running = FALSE]
    OBVIOUS
  <2>2. \/ d = read \/ d = Schedule(read) \/ d = Close(down, "failed", call.n)
    BY <1>3, <1>4, <1>6, <2>1 DEF StartChecked
  <2>3. CASE d = Close(down, "failed", call.n)
    <3>1. down \in ClientType /\ down.calls = read.calls /\ down.session = read.session /\ ~down.running
      BY <1>5, <2>1 DEF ClientType
    <3>2. Accounted(held, down)
      BY <1>5, <3>1, SessAccounted, AccountedFields
    <3>3. call.n \in Nat
      BY <1>1 DEF Calls
    <3>4. Sess(held, d)
      BY <2>3, <3>1, <3>2, <3>3, SessClose
    <3>5. QED
      BY <1>3, <3>4
  <2>4. CASE d = Schedule(read) \/ d = read
    <3>1. Sess(held, d)
      BY <1>5, <2>4, SessSchedule
    <3>2. QED
      BY <1>3, <3>1
  <2>5. QED
    BY <2>2, <2>3, <2>4
<1>7. CASE CloseAnswered(e, call, r, lostNow)
  BY <1>7 DEF CloseAnswered, Closed
<1>8. CASE OtherAnswers(e, call, r, ans)
  <2>1. \/ d = Schedule(read) \/ d = Absorb(e, ans.attached) \/ d = Gone(e) \/ d = e
        \/ d = Attached(e) \/ d = SendDetach(e)
    BY <1>2, <1>3, <1>4, <1>8 DEF OtherAnswers
  <2>2. Sess(held, d)
    BY <1>1, <1>5, <2>1, SessSchedule, SessBelief, SessDetach
  <2>3. QED
    BY <1>3, <2>2
<1>9. QED
  BY <1>2, <1>6, <1>7, <1>8 DEF Continue

(* The answer to a handshake.                                              *)
LEMMA SessOpens ==
  ASSUME SysCore, NEW held, Sess(held, client), NEW i \in DOMAIN client.calls,
         client.calls[i].op = "handshake", IsAnswered(client.calls[i]),
         NEW call, call = client.calls[i], NEW e, e = Without(client, i), NEW lostNow,
         Continue(e, call, "ok", call.answer, lostNow)
  PROVE  Sess(held, client')
<1>1. client \in ClientType /\ ClientOk(client)
  BY CoreParts DEF Sound
<1>2. call.why \in {"start", "orphan"} /\ (call.gen => call.life /\ call.why = "start")
  BY DEF Sess, AllAgree, Agrees
<1>3. PICK opened : opened = Opened(e, call, call.answer.id)
  OBVIOUS
<1>4. call \in Calls /\ call.answer.id \in Nat
  <2>1. call \in Calls
    BY <1>1 DEF ClientType
  <2>2. call.answer \in AnswerType
    BY <2>1 DEF Calls, AnswerType
  <2>3. QED
    BY <2>1, <2>2 DEF AnswerType
<1>5. CASE call.gen
  <2>1. PICK up : up = [opened EXCEPT !.running = TRUE]
    OBVIOUS
  <2>2. client' = Send(up, "health", "start", call.n)
    BY <1>2, <1>3, <1>5, <2>1
       DEF Continue, Opens, StartChecked, CloseAnswered, Recovers, OtherAnswers
  <2>3. opened \in ClientType
    <3>1. e \in ClientType
      BY <1>1, WithoutFacts
    <3>2. PICK id \in Nat : id = call.answer.id
      BY <1>4
    <3>3. PICK g : g = [e EXCEPT !.session = id]
      OBVIOUS
    <3>4. g \in ClientType
      BY <3>1, <3>3 DEF ClientType
    <3>5. opened = NewGeneration(g)
      BY <1>3, <1>5, <3>2, <3>3 DEF Opened
    <3>6. QED
      BY <3>4, <3>5, NewGenerationFacts
  <2>4. up \in ClientType /\ up.calls = opened.calls /\ up.session = opened.session /\ up.running
    BY <2>1, <2>3 DEF ClientType
  <2>5. Sess(held, up)
    BY <1>1, <1>3, <1>5, <2>4, SessOpened
  <2>6. PICK d : d = client'
    OBVIOUS
  <2>7. d = Send(up, "health", "start", call.n) /\ "start" \in Whys /\ call.n \in Nat
    BY <1>4, <2>2, <2>6 DEF Calls, Whys
  <2>8. Sess(held, d)
    BY <2>4, <2>5, <2>7, SessSend
  <2>9. QED
    BY <2>6, <2>8
<1>6. CASE ~call.gen
  <2>1. client' = opened
    BY <1>2, <1>3, <1>6
       DEF Continue, Opens, StartChecked, CloseAnswered, Recovers, OtherAnswers
  <2>2. Sess(held, opened)
    BY <1>1, <1>3, <1>6, SessOrphaned
  <2>3. QED
    BY <2>1, <2>2
<1>7. QED
  BY <1>5, <1>6

LEMMA DeliverSess ==
  ASSUME SysCore, NEW held, Sess(held, client), NEW i, Deliver(i)
  PROVE  Sess(held, client')
<1> DEFINE call == calls[i]
           stale == call.op # "handshake" /\ ~call.gen
           lostNow == call.answer.is = "lost" /\ ~stale
<1>1. /\ i \in DOMAIN calls /\ calls[i].awaited /\ calls[i].answer # Unanswered
      /\ i \in DOMAIN client.calls /\ call = client.calls[i] /\ IsAnswered(client.calls[i])
  BY DEF Deliver, calls, IsAnswered
<1>2. PICK e : e = IF lostNow THEN Forget(Without(client, i)) ELSE Without(client, i)
  OBVIOUS
<1>3. PICK r : r = IF stale THEN "lost" ELSE call.answer.is
  OBVIOUS
<1>4. Continue(e, call, r, call.answer, lostNow)
  BY <1>2, <1>3 DEF Deliver
<1>5. Rest(e, call)
  BY <1>1, <1>2, RestWithout, RestForgot
<1>6. /\ call \in Calls /\ Fits(call) /\ call.answer \in AnswerType
      /\ CallLinked(call, client.running, StartsOut, StopsOut, LiveNow)
  BY <1>1, CallFacts
<1>7. r = "ok" /\ call.op = "handshake" => call.answer.id # 0
  BY <1>3, <1>6 DEF Fits
<1>8. Resumes(e, call, r, call.answer)
  BY <1>1, <1>5, <1>6, <1>7 DEF Resumes
<1>9. client \in ClientType /\ ClientOk(client) /\ e \in ClientType
  BY <1>5, CoreParts DEF Sound, Rest
<1>10. Agrees(call, held, client.session)
  BY <1>1 DEF Sess, AllAgree
<1>11. CASE call.op = "handshake"
  <2>1. call.answer.is = "ok"
    BY <1>1, <1>10, <1>11 DEF Agrees
  <2>2. e = Without(client, i) /\ r = "ok"
    BY <1>2, <1>3, <1>11, <2>1
  <2>3. PICK k : k = call
    OBVIOUS
  <2>4. PICK lost : Continue(e, k, "ok", k.answer, lost)
    BY <1>4, <2>2, <2>3
  <2>5. QED
    BY <1>1, <1>11, <2>2, <2>3, <2>4, SessOpens
<1>12. CASE call.op # "handshake" /\ ~call.gen
  <2>1. e = Without(client, i)
    BY <1>2, <1>12
  <2>2. ~Closes(client.calls[i])
    BY <1>1, <1>12 DEF Closes
  <2>3. Sess(held, e)
    BY <1>1, <1>9, <1>12, <2>1, <2>2, SessAnswered
  <2>4. QED
    BY <1>4, <1>8, <1>9, <1>12, <2>3, SessContinues
<1>13. CASE call.op # "handshake" /\ call.gen /\ call.answer.is = "lost"
  <2>1. e = Forget(Without(client, i)) /\ lostNow
    BY <1>2, <1>13
  <2>2. client.calls[i].sid # held
    BY <1>1, <1>10, <1>13 DEF Agrees
  <2>3. Sess(held, e)
    BY <1>1, <1>9, <1>13, <2>1, <2>2, SessForgot
  <2>4. QED
    BY <1>4, <1>8, <1>9, <1>13, <2>1, <2>3, SessContinues
<1>14. CASE call.op \notin {"handshake", "shutdown"} /\ call.gen /\ call.answer.is # "lost"
  <2>1. e = Without(client, i)
    BY <1>2, <1>14
  <2>2. ~Closes(client.calls[i])
    BY <1>1, <1>14 DEF Closes
  <2>3. Sess(held, e)
    BY <1>1, <1>9, <1>14, <2>1, <2>2, SessAnswered
  <2>4. call.why \notin {"stop", "failed", "release"}
    BY <1>6, <1>14 DEF Fits
  <2>5. QED
    BY <1>4, <1>8, <1>9, <1>14, <2>3, <2>4, SessContinues
<1>15. CASE call.op = "shutdown" /\ call.gen /\ call.answer.is # "lost"
  <2>1. e = Without(client, i) /\ ~lostNow
    BY <1>2, <1>15
  <2>2. call.why \in {"stop", "release", "failed"}
    BY <1>1, <1>6, <1>10, <1>15 DEF Fits, Agrees, Calls, Whys
  <2>3. client' = Forget(e)
    BY <1>4, <1>15, <2>1, <2>2
       DEF Continue, Opens, StartChecked, CloseAnswered, Recovers, OtherAnswers, Closed
  <2>4. client.calls[i].sid # held
    BY <1>1, <1>10, <1>15 DEF Agrees
  <2>5. Sess(held, Forget(e))
    BY <1>1, <1>9, <1>15, <2>1, <2>4, SessForgot
  <2>6. QED
    BY <2>3, <2>5
<1>16. QED
  BY <1>11, <1>12, <1>13, <1>14, <1>15

-----------------------------------------------------------------------------
(* Every step, as long as no fault happened.                               *)

FreshFacts == /\ FreshId \in Nat /\ FreshId # 0 /\ FreshId # client.session /\ FreshId # service.id
              /\ \A j \in DOMAIN client.calls : /\ client.calls[j].sid # FreshId
                                                /\ client.calls[j].answer.id # FreshId

LEMMA FreshIsNew == ASSUME SysCore PROVE FreshFacts
<1>1. FreshId \in Nat /\ FreshId # 0 /\ FreshId \notin IdsInUse
  BY FreshIdIsFresh DEF SysCore
<1>2. QED
  BY <1>1 DEF IdsInUse, calls, FreshFacts

LEMMA HandlesSess ==
  ASSUME SysCore, Sess(service.id, client), NEW i, ServiceHandles(i)
  PROVE  Sess(service.id, client)'
<1>1. i \in DOMAIN client.calls /\ ~IsAnswered(client.calls[i])
  BY DEF ServiceHandles, calls, IsAnswered
<1>2. PICK fresh : fresh = FreshId
  OBVIOUS
<1>3. PICK done : done = Handle(service, client.calls[i].op, client.calls[i].sid, fresh)
  OBVIOUS
<1>4. PICK d : d = Reply(client, i, done.answer)
  OBVIOUS
<1>5. service' = done.service /\ client' = d
  BY <1>2, <1>3, <1>4 DEF ServiceHandles, calls
<1>6. service \in Services /\ client \in ClientType /\ ClientOk(client)
  BY CoreParts DEF Sound
<1>7. /\ fresh \in Nat /\ fresh # 0 /\ fresh # client.session
      /\ \A j \in DOMAIN client.calls : client.calls[j].sid # fresh /\ client.calls[j].answer.id # fresh
  BY <1>2, FreshIsNew DEF FreshFacts
<1>8. Sess(done.service.id, d)
  BY <1>1, <1>3, <1>4, <1>6, <1>7, SessReply
<1>9. QED
  BY <1>5, <1>8

(* Only the start the controller waits for has a handshake that counts.    *)
LEMMA LiveOpens ==
  ASSUME SysCore, NEW held, Sess(held, client)
  PROVE  /\ \A i \in DOMAIN client.calls :
              client.calls[i].op = "handshake" /\ client.calls[i].gen => Starts(client.calls[i], LiveNow)
         /\ LiveNow = 0 => NoneOpens(client)
<1>1. ASSUME NEW i \in DOMAIN client.calls, client.calls[i].op = "handshake", client.calls[i].gen
      PROVE  Starts(client.calls[i], LiveNow) /\ LiveNow # 0
  <2>1. client.calls[i].awaited /\ client.calls[i].why = "start" /\ client.calls[i].life
    BY <1>1 DEF Sess, AllAgree, Agrees
  <2>2. CallLinked(client.calls[i], client.running, StartsOut, StopsOut, LiveNow)
    BY CallFacts DEF calls
  <2>3. client.calls[i].n = LiveNow /\ client.calls[i].n \in StartsOut
    BY <2>1, <2>2 DEF CallLinked
  <2>4. QED
    BY <2>1, <2>3, CoreParts DEF Starts
<1>2. QED
  BY <1>1 DEF NoneOpens

LEMMA ReleasedSess ==
  ASSUME SysCore, NEW held, Sess(held, client), NEW n, LiveNow \in {0, n}, NEW e, e = Released(n)
  PROVE  Sess(held, e)
<1>1. client \in ClientType /\ ClientOk(client) /\ Link(client, StartsOut, StopsOut, LiveNow)
  BY CoreParts DEF Sound
<1>2. \A i \in DOMAIN client.calls :
        client.calls[i].op = "handshake" /\ client.calls[i].gen => Starts(client.calls[i], n)
  BY LiveOpens DEF NoneOpens
<1>3. PICK d : d = Aborted(client, n)
  OBVIOUS
<1>4. Accounted(held, client)
  BY SessAccounted
<1>5. d \in ClientType /\ Accounted(held, d) /\ NoneOpens(d)
  BY <1>1, <1>2, <1>3, <1>4, SessAborted
<1>6. e = StopCalled(d, "release", 0) /\ "release" \in {"stop", "release"} /\ 0 \in Nat
  BY <1>3 DEF Released
<1>7. QED
  BY <1>5, <1>6, SessStop

LEMMA ControllerSess ==
  ASSUME SysCore, NEW held, Sess(held, client), Controller, faults' = 0
  PROVE  Sess(held, client') /\ service' = service
<1>1. LiveNow \in {0, operation}
  BY DEF LiveNow
<1>2. client \in ClientType /\ Accounted(held, client) /\ operation \in Nat
  BY CoreParts, SessAccounted DEF Sound, TypeOK
<1>3. PICK d : d = client'
  OBVIOUS
<1>4. ASSUME NEW c \in Clients, Ask(c) PROVE Sess(held, client') /\ service' = service
  <2>1. (d = client \/ d = Released(operation)) /\ service' = service
    BY <1>3, <1>4 DEF Ask, LocalUnchanged
  <2>2. Sess(held, d)
    BY <1>1, <2>1, ReleasedSess
  <2>3. QED
    BY <1>3, <2>1, <2>2
<1>5. ASSUME NEW c \in Clients, CloseDown(c) PROVE Sess(held, client') /\ service' = service
  <2>1. /\ service' = service
        /\ d = IF operation = 0 THEN StopCalled(client, "release", 0) ELSE Released(operation)
    BY <1>3, <1>5 DEF CloseDown, LocalUnchanged
  <2>2. CASE operation = 0
    <3>1. NoneOpens(client) /\ d = StopCalled(client, "release", 0)
      BY <1>1, <2>1, <2>2, LiveOpens
    <3>2. "release" \in {"stop", "release"} /\ 0 \in Nat
      OBVIOUS
    <3>3. Sess(held, d)
      BY <1>2, <3>1, <3>2, SessStop
    <3>4. QED
      BY <1>3, <2>1, <3>3
  <2>3. CASE operation # 0
    <3>1. Sess(held, d)
      BY <1>1, <2>1, <2>3, ReleasedSess
    <3>2. QED
      BY <1>3, <2>1, <3>1
  <2>4. QED
    BY <2>2, <2>3
<1>6. ASSUME NEW n \in Begun, Invoke(n) PROVE Sess(held, client') /\ service' = service
  <2>1. InvokeBackend(n) /\ service' = service
    BY <1>6 DEF Invoke, LocalUnchanged
  <2>2. LiveNow = 0 /\ ~disposed /\ (ops[n].kind = "start" => ~MayRun)
    BY <2>1, CoreParts, InvokeOut
  <2>3. NoneOpens(client) /\ n \in Nat
    BY <2>2, CoreParts, LiveOpens
  <2>4. CASE ops[n].kind = "start"
    <3>1. d = StartCalled(client, n)
      BY <1>3, <1>6, <2>4 DEF Invoke
    <3>2. RunOk(client, state, MayRun)
      BY <2>2, CoreParts DEF RunInv
    <3>3. ~client.running
      BY <2>2, <2>4, <3>2 DEF RunOk
    <3>4. ClientOk(client)
      BY CoreParts DEF Sound
    <3>5. Sess(held, d)
      BY <1>2, <2>3, <3>1, <3>3, <3>4, SessStart
    <3>6. QED
      BY <1>3, <2>1, <3>5
  <2>5. CASE ops[n].kind # "start"
    <3>1. d = StopCalled(client, "stop", n) /\ "stop" \in {"stop", "release"}
      BY <1>3, <1>6, <2>5 DEF Invoke
    <3>2. Sess(held, d)
      BY <1>2, <2>3, <3>1, SessStop
    <3>3. QED
      BY <1>3, <2>1, <3>2
  <2>6. QED
    BY <2>4, <2>5
<1>7. ASSUME NEW n \in Begun, TimeOut(n) PROVE FALSE
  BY <1>7, CoreParts DEF TimeOut, Fault
<1>8. ASSUME NEW n \in Begun, ReturnAtOnce(n) PROVE Sess(held, client') /\ service' = service
  BY <1>8 DEF ReturnAtOnce, LocalUnchanged
<1>9. CASE Bookkeeping
  BY <1>9 DEF Bookkeeping, localVars
<1>10. QED
  BY <1>4, <1>5, <1>6, <1>7, <1>8, <1>9 DEF Controller

LEMMA SessAsk ==
  ASSUME NEW held, NEW c \in ClientType, Sess(held, c), NEW op \in {"health", "attach", "detach"},
         NEW why \in Whys, NEW d, d = IF c.session = 0 THEN Gone(c) ELSE Send(c, op, why, 0)
  PROVE  Sess(held, d)
<1>1. CASE c.session = 0
  BY <1>1, SessBelief
<1>2. CASE c.session # 0
  <2>1. 0 \in Nat /\ d = Send(c, op, why, 0)
    BY <1>2
  <2>2. QED
    BY <2>1, SessSend
<1>3. QED
  BY <1>1, <1>2

LEMMA SessLeave ==
  ASSUME SysCore, NEW held, Sess(held, client), NEW d, d = LeaveInject(client)
  PROVE  d \in ClientType /\ Sess(held, d)
<1> DEFINE described == {i \in DOMAIN client.calls : Injects(client.calls[i])}
<1>1. d \in ClientType
  BY CalmLeave DEF Calm, Sound
<1>2. CASE described = {}
  <2>1. d = client
    BY <1>2 DEF LeaveInject, Unawaited
  <2>2. QED
    BY <1>1, <2>1
<1>3. CASE described # {}
  <2>1. PICK j : j = CHOOSE i \in described : TRUE
    OBVIOUS
  <2>2. j \in described
    BY <1>3, <2>1
  <2>3. d = GiveUp(client, j)
    BY <1>3, <2>1 DEF LeaveInject, Unawaited
  <2>4. j \in DOMAIN client.calls /\ Fits(client.calls[j]) /\ client.calls[j].why = "inject"
    BY <2>2, CallFacts DEF calls, Injects
  <2>5. client.calls[j].op \in {"health", "attach"}
    BY <2>4 DEF Fits
  <2>6. client \in ClientType /\ Accounted(held, client)
    BY CoreParts, SessAccounted DEF Sound
  <2>7. QED
    BY <1>1, <2>3, <2>4, <2>5, <2>6, SessGiveUp
<1>4. QED
  BY <1>2, <1>3

LEMMA TargetSess ==
  ASSUME SysCore, NEW held, Sess(held, client), Target
  PROVE  Sess(held, client') /\ service' = service
<1>1. client \in ClientType
  BY CoreParts
<1>2. PICK d : d = client'
  OBVIOUS
<1>3. service' = service
  BY DEF Target, Detect, Inject, CancelInject, InjectTimesOut, Disconnect, TargetFrame
<1>4. PICK left : left = LeaveInject(client)
  OBVIOUS
<1>5. left \in ClientType /\ Sess(held, left)
  BY <1>4, SessLeave
<1>6. CASE Detect \/ Inject
  <2>1. PICK op \in {"health", "attach", "detach"}, why \in Whys :
          d = IF client.session = 0 THEN Gone(client) ELSE Send(client, op, why, 0)
    BY <1>2, <1>6 DEF Detect, Inject, AskTarget, Whys
  <2>2. Sess(held, d)
    BY <1>1, <2>1, SessAsk
  <2>3. QED
    BY <1>2, <1>3, <2>2
<1>7. CASE CancelInject
  <2>1. d = SendDetach(left)
    BY <1>2, <1>4, <1>7 DEF CancelInject
  <2>2. Sess(held, d)
    BY <1>5, <2>1, SessDetach
  <2>3. QED
    BY <1>2, <1>3, <2>2
<1>8. CASE InjectTimesOut
  <2>1. PICK f : f = LetGo(left)
    OBVIOUS
  <2>2. PICK g : g = SendDetach(f)
    OBVIOUS
  <2>3. d = SendDetach(g)
    BY <1>2, <1>4, <1>8, <2>1, <2>2 DEF InjectTimesOut
  <2>4. f \in ClientType /\ Sess(held, f)
    BY <1>5, <2>1, SessBelief
  <2>5. g \in ClientType /\ Sess(held, g)
    BY <2>2, <2>4, SessDetach
  <2>6. Sess(held, d)
    BY <2>3, <2>5, SessDetach
  <2>7. QED
    BY <1>2, <1>3, <2>6
<1>9. CASE Disconnect
  <2>1. PICK f : f = LetGo(client)
    OBVIOUS
  <2>2. d = SendDetach(f)
    BY <1>2, <1>9, <2>1 DEF Disconnect
  <2>3. f \in ClientType /\ Sess(held, f)
    BY <1>1, <2>1, SessBelief
  <2>4. Sess(held, d)
    BY <2>2, <2>3, SessDetach
  <2>5. QED
    BY <1>2, <1>3, <2>4
<1>10. QED
  BY <1>6, <1>7, <1>8, <1>9 DEF Target

LEMMA TimerSess ==
  ASSUME SysCore, NEW held, Sess(held, client), HealthTimer
  PROVE  Sess(held, client') /\ service' = service
<1>1. service' = service /\ client \in ClientType
  BY CoreParts DEF HealthTimer
<1>2. PICK d : d = client' /\ d = HealthCheckCalled(client)
  BY DEF HealthTimer
<1>3. PICK due : due = [client EXCEPT !.timer = FALSE]
  OBVIOUS
<1>4. /\ due \in ClientType /\ due.calls = client.calls /\ due.session = client.session
      /\ due.running = client.running
  BY <1>1, <1>3 DEF ClientType
<1>5. Sess(held, due)
  BY <1>4, SessFields
<1>6. ~(client.running /\ client.session = 0)
  BY DEF Sess
<1>7. d = due \/ d = Send(due, "health", "check", 0)
  BY <1>2, <1>3, <1>6 DEF HealthCheckCalled
<1>8. "check" \in Whys /\ 0 \in Nat
  BY DEF Whys
<1>9. Sess(held, d)
  BY <1>4, <1>5, <1>7, <1>8, SessSend
<1>10. QED
  BY <1>1, <1>2, <1>9

SessInv == NoFault => Sess(service.id, client)

LEMMA InitSess == SysInit => SessInv
<1> SUFFICES ASSUME SysInit PROVE Sess(service.id, client)
  BY DEF SessInv
<1>1. service.id = 0 /\ client.session = 0 /\ ~client.running /\ DOMAIN client.calls = {}
  BY DEF SysInit, NoSession, FreshClient
<1>2. QED
  BY <1>1 DEF Sess, AllAgree

(* Faults are counted, and the count never falls.                          *)
LEMMA FaultsStay == ASSUME SysCore, [SysNext]_sysVars, NoFault' PROVE NoFault
<1>1. faults \in Nat
  BY CoreParts
<1>2. faults' = faults \/ faults' = faults + 1
  BY DEF SysNext, sysVars, localVars, Controller, Bridge, SessionEnds, HealthTimer, Target, Ask, CloseDown,
         Invoke, TimeOut, ReturnAtOnce, Bookkeeping, LocalUnchanged, ServiceHandles, HandshakeRefused,
         Deliver, RequestTimesOut, BridgeFails, Fault, Detect, Inject, CancelInject, InjectTimesOut,
         Disconnect, TargetFrame
<1>3. QED
  BY <1>1, <1>2 DEF NoFault

LEMMA SessStep == ASSUME SysCore, SessInv, [SysNext]_sysVars PROVE SessInv'
<1> SUFFICES ASSUME NoFault' PROVE Sess(service.id, client)'
  BY DEF SessInv
<1>1. NoFault /\ Sess(service.id, client) /\ faults' = 0 /\ faults = 0
  BY FaultsStay DEF SessInv, NoFault
<1>2. ~Fault
  BY <1>1 DEF Fault
<1>3. PICK held : held = service.id
  OBVIOUS
<1>4. CASE Controller
  <2>1. Sess(held, client') /\ service' = service
    BY <1>1, <1>3, <1>4, ControllerSess
  <2>2. QED
    BY <1>3, <2>1
<1>5. CASE Bridge
  <2>1. PICK i \in DOMAIN calls : ServiceHandles(i) \/ Deliver(i)
    BY <1>2, <1>5 DEF Bridge, HandshakeRefused, RequestTimesOut, BridgeFails
  <2>2. CASE ServiceHandles(i)
    BY <1>1, <2>2, HandlesSess
  <2>3. CASE Deliver(i)
    <3>1. Sess(held, client') /\ service' = service
      BY <1>1, <1>3, <2>3, DeliverSess DEF Deliver
    <3>2. QED
      BY <1>3, <3>1
  <2>4. QED
    BY <2>1, <2>2, <2>3
<1>6. CASE HealthTimer
  <2>1. Sess(held, client') /\ service' = service
    BY <1>1, <1>3, <1>6, TimerSess
  <2>2. QED
    BY <1>3, <2>1
<1>7. CASE Target
  <2>1. Sess(held, client') /\ service' = service
    BY <1>1, <1>3, <1>7, TargetSess
  <2>2. QED
    BY <1>3, <2>1
<1>8. CASE UNCHANGED sysVars
  BY <1>1, <1>8 DEF sysVars, localVars
<1>9. ~SessionEnds
  BY <1>2 DEF SessionEnds
<1>10. QED
  BY <1>4, <1>5, <1>6, <1>7, <1>8, <1>9 DEF SysNext

LEMMA SessInvariant == SysSpec => [](SysCore /\ SessInv)
<1>1. SysInit => SysCore /\ SessInv
  BY InitCore, InitSess
<1>2. (SysCore /\ SessInv) /\ [SysNext]_sysVars => (SysCore /\ SessInv)'
  BY SysStep, SessStep
<1>3. QED
  BY <1>1, <1>2, PTL DEF SysSpec

LEMMA SessIsEnough == SysCore /\ SessInv => SessionsAgree
<1> SUFFICES ASSUME SessInv, Quiet, NoFault
             PROVE  service.id = client.session /\ (client.session # 0 => client.running)
  BY DEF SessionsAgree
<1>1. Sess(service.id, client) /\ DOMAIN client.calls = {}
  BY DEF SessInv, Quiet, calls
<1>2. ~Closing(client) /\ ~Ending(service.id, client)
  BY <1>1 DEF Closing, Ending
<1>3. QED
  BY <1>1, <1>2 DEF Sess, Owned

(* Without a fault, Nova and the service end up with the same session, or  *)
(* with none: no order of starts, stops, aborts, disposals and answers     *)
(* leaves a session of the service that nobody will end, or Nova believing *)
(* in one that is over.                                                    *)
THEOREM SessionsComeToAgree == SysSpec => []SessionsAgree
<1>1. QED
  BY SessInvariant, SessIsEnough, PTL

-----------------------------------------------------------------------------
(* An attachment of the service's is Nova's, as long as no fault happened  *)
(* and answers come in the order of their requests.                        *)

Attaching(k) == k.op = "attach" /\ k.awaited

Detaching(k, mine) == k.op = "detach" /\ ~IsAnswered(k) /\ k.sid = mine

LeftBehind(k, mine) == k.op = "attach" /\ ~k.awaited /\ k.sid = mine

Arrives(k) == Attaching(k) /\ k.gen /\ k.answer.is = "ok"

Asks(k) == k.op = "health" /\ k.awaited

Says(k) == k.gen /\ (IsAnswered(k) => k.answer.is = "ok" /\ k.answer.attached)

(* No health answer behind place i makes Nova give its attachment up.      *)
After(c, i) == \A j \in DOMAIN c.calls : i < j /\ Asks(c.calls[j]) => Says(c.calls[j])

Undone(c) == \E j \in DOMAIN c.calls : Detaching(c.calls[j], c.session)

Arriving(c) == \E i \in DOMAIN c.calls : Arrives(c.calls[i]) /\ After(c, i)

Undoing(c) ==
  \A i \in DOMAIN c.calls : LeftBehind(c.calls[i], c.session) =>
    \E j \in DOMAIN c.calls : i < j /\ Detaching(c.calls[j], c.session)

(* In the session both sides hold: an attach that nobody awaits has a      *)
(* detach behind it, and an attachment is on its way to its end, on its    *)
(* way to Nova, or Nova's.                                                 *)
Traced(s, c) ==
  /\ Undoing(c)
  /\ s.attached => Undone(c) \/ Arriving(c) \/ (c.attached /\ After(c, 0))

(* Nova asks for one attachment at a time, and only without one; a session *)
(* that Nova has yet to hear of has none.                                  *)
Single(s, c) ==
  /\ s.attached => s.id # 0
  /\ \A i \in DOMAIN c.calls : Attaching(c.calls[i]) => ~c.attached
  /\ \A i, j \in DOMAIN c.calls : Attaching(c.calls[i]) /\ Attaching(c.calls[j]) => i = j
  /\ \A i \in DOMAIN c.calls :
       c.calls[i].op = "handshake" /\ c.calls[i].answer.id = s.id => ~s.attached

Att(s, c) ==
  /\ Single(s, c)
  /\ c.session = s.id /\ s.id # 0 /\ c.running => Traced(s, c)

AttInv == NoFault /\ InOrder => Att(service, client)

NoneAttaches(c) == \A i \in DOMAIN c.calls : ~Attaching(c.calls[i])

(* The calls and the session are the same.                                 *)
Alike(d, c) == d.calls = c.calls /\ d.session = c.session

LEMMA SingleFields ==
  ASSUME NEW s, NEW c, Single(s, c), NEW d, d.calls = c.calls,
         d.attached => c.attached \/ NoneAttaches(c)
  PROVE  Single(s, d)
<1>1. \A i \in DOMAIN d.calls : Attaching(d.calls[i]) => ~d.attached
  BY DEF Single, NoneAttaches
<1>2. QED
  BY <1>1 DEF Single

LEMMA SinglePassed ==
  ASSUME NEW s, NEW c, Single(s, c), NEW d, DOMAIN d.calls = DOMAIN c.calls,
         \A i \in DOMAIN c.calls : /\ d.calls[i].op = c.calls[i].op
                                   /\ d.calls[i].answer = c.calls[i].answer
                                   /\ d.calls[i].awaited => c.calls[i].awaited,
         d.attached => c.attached
  PROVE  Single(s, d)
<1>1. \A i \in DOMAIN c.calls : Attaching(d.calls[i]) => Attaching(c.calls[i])
  BY DEF Attaching
<1>2. \A i \in DOMAIN d.calls : Attaching(d.calls[i]) => ~d.attached
  BY <1>1 DEF Single
<1>3. \A i, j \in DOMAIN d.calls : Attaching(d.calls[i]) /\ Attaching(d.calls[j]) => i = j
  BY <1>1 DEF Single
<1>4. QED
  BY <1>2, <1>3 DEF Single

LEMMA SingleWithout ==
  ASSUME NEW s, NEW c \in ClientType, Single(s, c), NEW i \in DOMAIN c.calls, NEW d, d = Without(c, i)
  PROVE  Single(s, d) /\ (Attaching(c.calls[i]) => NoneAttaches(d))
<1>1. /\ Same(d, c)
      /\ \A k \in DOMAIN d.calls : /\ Place(i, k) \in DOMAIN c.calls /\ Place(i, k) # i
                                   /\ d.calls[k] = c.calls[Place(i, k)]
      /\ \A k, l \in DOMAIN d.calls : k < l => Place(i, k) < Place(i, l)
  BY WithoutFacts
<1>2. d.attached = c.attached
  BY <1>1 DEF Same
<1>3. d \in ClientType
  BY WithoutFacts
<1>4. \A k, l \in DOMAIN d.calls : Place(i, k) = Place(i, l) => k = l
  <2>1. DOMAIN d.calls \subseteq Nat /\ DOMAIN c.calls \subseteq Nat
    BY <1>3 DEF ClientType
  <2>2. QED
    BY <2>1 DEF Place
<1>5. \A k \in DOMAIN d.calls : Attaching(d.calls[k]) => ~d.attached
  BY <1>1, <1>2 DEF Single
<1>6. \A k, l \in DOMAIN d.calls : Attaching(d.calls[k]) /\ Attaching(d.calls[l]) => k = l
  BY <1>1, <1>4 DEF Single
<1>7. \A k \in DOMAIN d.calls :
        d.calls[k].op = "handshake" /\ d.calls[k].answer.id = s.id => ~s.attached
  BY <1>1 DEF Single
<1>8. Attaching(c.calls[i]) => NoneAttaches(d)
  BY <1>1 DEF Single, NoneAttaches
<1>9. QED
  BY <1>5, <1>6, <1>7, <1>8 DEF Single

LEMMA SingleAppend ==
  ASSUME NEW s, NEW c \in ClientType, Single(s, c), NEW k \in Calls, k.answer.id = 0,
         Attaching(k) => NoneAttaches(c) /\ ~c.attached, NEW d, d = Appended(c, k)
  PROVE  Single(s, d)
<1>1. PICK m \in Nat :
         /\ Same(d, c)
         /\ DOMAIN d.calls = DOMAIN c.calls \cup {m}
         /\ \A i \in DOMAIN c.calls : i < m /\ d.calls[i] = c.calls[i]
         /\ d.calls[m] = k
  BY AppendFacts
<1>2. d.attached = c.attached
  BY <1>1 DEF Same
<1>3. \A i \in DOMAIN d.calls : Attaching(d.calls[i]) => ~d.attached
  BY <1>1, <1>2 DEF Single
<1>4. \A i, j \in DOMAIN d.calls : Attaching(d.calls[i]) /\ Attaching(d.calls[j]) => i = j
  BY <1>1 DEF Single, NoneAttaches
<1>5. \A i \in DOMAIN d.calls :
        d.calls[i].op = "handshake" /\ d.calls[i].answer.id = s.id => ~s.attached
  BY <1>1 DEF Single
<1>6. QED
  BY <1>3, <1>4, <1>5 DEF Single

(* What the delivery of call leaves to be said of the calls behind it.     *)
Keeps(c, call) ==
  \/ c.attached /\ (Asks(call) => Says(call))
  \/ Arrives(call)

Pending(s, c, call) ==
  /\ Undoing(c)
  /\ s.attached => Undone(c) \/ Arriving(c) \/ (Keeps(c, call) /\ After(c, 0))

LEMMA PendingAfter ==
  ASSUME NEW s, NEW c \in ClientType, Single(s, c), Traced(s, c), 1 \in DOMAIN c.calls,
         NEW call, call = c.calls[1], IsAnswered(call), call.awaited, NEW e, e = Without(c, 1)
  PROVE  Pending(s, e, call)
<1>1. /\ Same(e, c) /\ e \in ClientType
      /\ \A k \in DOMAIN e.calls : /\ Place(1, k) \in DOMAIN c.calls /\ Place(1, k) # 1
                                   /\ e.calls[k] = c.calls[Place(1, k)]
      /\ \A k, l \in DOMAIN e.calls : k < l => Place(1, k) < Place(1, l)
      /\ \A j \in DOMAIN c.calls : j # 1 => \E k \in DOMAIN e.calls : Place(1, k) = j
  BY WithoutFacts
<1>2. e.attached = c.attached /\ e.session = c.session
  BY <1>1 DEF Same
<1>3. /\ DOMAIN e.calls \subseteq Nat \ {0} /\ DOMAIN c.calls \subseteq Nat \ {0}
      /\ \A k \in DOMAIN e.calls : Place(1, k) = k + 1
  BY <1>1 DEF ClientType, Place
<1>4. ~Detaching(c.calls[1], c.session)
  BY DEF Detaching
<1>5. Undoing(e)
  <2> SUFFICES ASSUME NEW k \in DOMAIN e.calls, LeftBehind(e.calls[k], e.session)
               PROVE  \E l \in DOMAIN e.calls : k < l /\ Detaching(e.calls[l], e.session)
    BY DEF Undoing
  <2>1. PICK j \in DOMAIN c.calls : Place(1, k) < j /\ Detaching(c.calls[j], c.session)
    BY <1>1, <1>2 DEF Traced, Undoing
  <2>2. PICK l \in DOMAIN e.calls : Place(1, l) = j
    BY <1>1, <1>4, <2>1
  <2>3. k < l
    BY <1>3, <2>1, <2>2
  <2>4. QED
    BY <1>1, <1>2, <2>1, <2>2, <2>3
<1>6. Undone(c) => Undone(e)
  BY <1>1, <1>2, <1>4 DEF Undone
<1>7. \A k \in DOMAIN e.calls : After(c, Place(1, k)) => After(e, k)
  BY <1>1 DEF After
<1>8. After(c, 1) => After(e, 0)
  <2>1. \A k \in DOMAIN e.calls : 1 < Place(1, k)
    BY <1>3
  <2>2. QED
    BY <1>1, <2>1 DEF After
<1>9. After(c, 0) => After(c, 1)
  BY <1>3 DEF After
<1>10. Arriving(c) => Arriving(e) \/ (Arrives(call) /\ After(e, 0))
  <2> SUFFICES ASSUME NEW i \in DOMAIN c.calls, Arrives(c.calls[i]), After(c, i)
               PROVE  Arriving(e) \/ (Arrives(call) /\ After(e, 0))
    BY DEF Arriving
  <2>1. CASE i = 1
    BY <1>8, <2>1
  <2>2. CASE i # 1
    <3>1. PICK k \in DOMAIN e.calls : Place(1, k) = i
      BY <1>1, <2>2
    <3>2. QED
      BY <1>1, <1>7, <3>1 DEF Arriving
  <2>3. QED
    BY <2>1, <2>2
<1>11. After(c, 0) => (Asks(call) => Says(call))
  <2>1. 0 < 1
    OBVIOUS
  <2>2. QED
    BY <2>1 DEF After
<1>12. QED
  BY <1>2, <1>5, <1>6, <1>8, <1>9, <1>10, <1>11 DEF Pending, Keeps, Traced

LEMMA PendingTraced ==
  ASSUME NEW s, NEW e, NEW call, Pending(s, e, call), NEW d, Alike(d, e),
         Keeps(e, call) => d.attached
  PROVE  Traced(s, d)
<1>1. Undoing(d) /\ (Undone(e) => Undone(d))
  BY DEF Alike, Pending, Undoing, Undone
<1>2. \A i : After(e, i) => After(d, i)
  BY DEF Alike, After
<1>3. Arriving(e) => Arriving(d)
  BY <1>2 DEF Alike, Arriving
<1>4. QED
  BY <1>1, <1>2, <1>3 DEF Pending, Traced

LEMMA TracedFields ==
  ASSUME NEW s, NEW c, Traced(s, c), NEW d, Alike(d, c), d.attached = c.attached
  PROVE  Traced(s, d)
<1>1. Undoing(d) /\ (Undone(c) => Undone(d))
  BY DEF Alike, Traced, Undoing, Undone
<1>2. \A i : After(c, i) => After(d, i)
  BY DEF Alike, After
<1>3. Arriving(c) => Arriving(d)
  BY <1>2 DEF Alike, Arriving
<1>4. QED
  BY <1>1, <1>2, <1>3 DEF Traced

LEMMA TracedAppend ==
  ASSUME NEW s, NEW c \in ClientType, Traced(s, c), NEW k \in Calls, k.gen, ~IsAnswered(k),
         ~LeftBehind(k, c.session), NEW d, d = Appended(c, k)
  PROVE  Traced(s, d)
<1>1. PICK m \in Nat :
         /\ Same(d, c)
         /\ DOMAIN d.calls = DOMAIN c.calls \cup {m}
         /\ \A i \in DOMAIN c.calls : i < m /\ d.calls[i] = c.calls[i]
         /\ d.calls[m] = k
  BY AppendFacts
<1>2. d.attached = c.attached /\ d.session = c.session
  BY <1>1 DEF Same
<1>3. Undoing(d)
  BY <1>1, <1>2 DEF Undoing, Traced
<1>4. Undone(c) => Undone(d)
  BY <1>1, <1>2 DEF Undone
<1>5. \A i : After(c, i) => After(d, i)
  BY <1>1 DEF After, Says
<1>6. Arriving(c) => Arriving(d)
  BY <1>1, <1>5 DEF Arriving
<1>7. QED
  BY <1>2, <1>3, <1>4, <1>5, <1>6 DEF Traced

(* Behind a detach everything is undone.                                   *)
LEMMA TracedDetach ==
  ASSUME NEW s, NEW c \in ClientType, NEW k \in Calls, Detaching(k, c.session), NEW e, e = Appended(c, k),
         NEW d, Alike(d, e)
  PROVE  Traced(s, d)
<1>1. PICK m \in Nat :
         /\ Same(e, c)
         /\ DOMAIN e.calls = DOMAIN c.calls \cup {m}
         /\ \A i \in DOMAIN c.calls : i < m /\ e.calls[i] = c.calls[i]
         /\ e.calls[m] = k
  BY AppendFacts
<1>2. m \in DOMAIN d.calls /\ Detaching(d.calls[m], d.session)
  BY <1>1 DEF Alike, Same
<1>3. \A i \in DOMAIN d.calls : i < m \/ i = m
  BY <1>1 DEF Alike
<1>4. ~LeftBehind(d.calls[m], d.session)
  BY <1>2 DEF LeftBehind, Detaching
<1>5. QED
  BY <1>2, <1>3, <1>4 DEF Traced, Undoing, Undone

(* A detach sent in a session undoes all that is before it.                *)
LEMMA DetachSent ==
  ASSUME NEW s, NEW c \in ClientType, Single(s, c), NEW why \in {"nothing", "repair"},
         NEW d, d = Send(c, "detach", why, 0)
  PROVE  /\ d \in ClientType /\ Same(d, c) /\ Single(s, d)
         /\ c.session # 0 => \A f : Alike(f, d) => Traced(s, f)
<1>1. CASE c.session = 0
  BY <1>1 DEF Send, Same
<1>2. CASE c.session # 0
  <2>1. PICK sid \in Nat : sid = c.session
    BY DEF ClientType
  <2>2. PICK yes \in BOOLEAN : yes = TRUE
    OBVIOUS
  <2>3. PICK k : k = NewCall("detach", sid, why, 0, yes)
    OBVIOUS
  <2>4. /\ "detach" \in {"handshake", "health", "attach", "detach", "shutdown"}
        /\ why \in Whys /\ 0 \in Nat
    BY DEF Whys
  <2>5. k \in Calls /\ k.op = "detach" /\ k.sid = sid /\ k.answer = Unanswered /\ ~IsAnswered(k)
    BY <2>3, <2>4, NewCallFacts
  <2>6. d = Appended(c, k)
    BY <1>2, <2>1, <2>2, <2>3 DEF Send, Put, NewCall, Appended
  <2>7. d \in ClientType /\ Same(d, c)
    BY <2>5, <2>6, AppendFacts
  <2>8. k.answer.id = 0 /\ ~Attaching(k)
    BY <2>5 DEF Attaching, Unanswered, Answer
  <2>9. Single(s, d)
    BY <2>5, <2>6, <2>8, SingleAppend
  <2>10. Detaching(k, c.session)
    BY <2>1, <2>5 DEF Detaching
  <2>11. \A f : Alike(f, d) => Traced(s, f)
    BY <2>5, <2>6, <2>10, TracedDetach
  <2>12. QED
    BY <2>7, <2>9, <2>11
<1>3. QED
  BY <1>1, <1>2

(* What the code makes of an answer is what the answer says.               *)
Faithful(call, r, ans) ==
  /\ Asks(call) /\ Says(call) => r = "ok" /\ ans.attached
  /\ Arrives(call) => r = "ok"

LEMMA ReadAtt ==
  ASSUME NEW s, NEW e \in ClientType, Single(s, e), NEW call, NEW r, NEW ans, Faithful(call, r, ans),
         Asks(call), ans.attached \in BOOLEAN, NEW d, d = ReadHealth(e, call, r, ans.attached)
  PROVE  /\ d \in ClientType /\ Single(s, d) /\ d.session = e.session /\ d.running = e.running
         /\ Pending(s, e, call) /\ e.session # 0 => Traced(s, d)
<1>1. Keeps(e, call) => e.attached /\ r = "ok" /\ ans.attached
  BY DEF Keeps, Arrives, Attaching, Asks, Faithful
<1>2. ASSUME NEW f \in ClientType, Alike(f, e), f.running = e.running, f.attached => e.attached,
             Keeps(e, call) => f.attached, NEW row \in Rows, d = Row(f, row)
      PROVE  /\ d \in ClientType /\ Single(s, d) /\ d.session = e.session /\ d.running = e.running
             /\ Pending(s, e, call) => Traced(s, d)
  <2>1. /\ d \in ClientType /\ d.calls = f.calls /\ d.session = f.session
        /\ d.running = f.running /\ d.attached = f.attached
    BY <1>2 DEF Row, ClientType
  <2>2. Alike(d, e)
    BY <1>2, <2>1 DEF Alike
  <2>3. Single(s, d)
    BY <1>2, <2>1, <2>2, SingleFields DEF Alike
  <2>4. Pending(s, e, call) => Traced(s, d)
    BY <1>2, <2>1, <2>2, PendingTraced
  <2>5. QED
    BY <1>2, <2>1, <2>2, <2>3, <2>4 DEF Alike
<1>3. CASE ~call.life
  <2>1. d = e
    BY <1>3 DEF ReadHealth
  <2>2. Alike(d, e)
    BY <2>1 DEF Alike
  <2>3. Pending(s, e, call) => Traced(s, d)
    BY <1>1, <2>1, <2>2, PendingTraced
  <2>4. QED
    BY <2>1, <2>3
<1>4. CASE call.life /\ r = "lost"
  <2>1. PICK f : f = Gone(e)
    OBVIOUS
  <2>2. f \in ClientType /\ Alike(f, e) /\ f.running = e.running /\ (f.attached => e.attached)
    BY <2>1 DEF Gone, ClientType, Alike
  <2>3. d = Row(f, "error") /\ "error" \in Rows
    BY <1>4, <2>1 DEF ReadHealth, Rows
  <2>4. QED
    BY <1>1, <1>2, <1>4, <2>2, <2>3
<1>5. CASE call.life /\ r \in {"refused", "failed"}
  <2>1. d = Row(e, "degraded") /\ "degraded" \in Rows
    BY <1>5 DEF ReadHealth, Rows
  <2>2. Alike(e, e)
    BY DEF Alike
  <2>3. QED
    BY <1>1, <1>2, <2>1, <2>2
<1>6. CASE call.life /\ r \notin {"lost", "refused", "failed"}
  <2>1. PICK held \in BOOLEAN : held = ans.attached
    OBVIOUS
  <2>2. PICK seen : seen = Absorb(e, held)
    OBVIOUS
  <2>3. /\ seen \in ClientType /\ Alike(seen, e) /\ seen.running = e.running
        /\ seen.attached <=> e.attached /\ held
    BY <2>2 DEF Absorb, ClientType, Alike
  <2>4. CASE ~(held /\ ~seen.attached)
    <3>1. PICK row \in Rows : d = Row(seen, row)
      <4>1. d = Row(seen, IF seen.available THEN "healthy" ELSE "unavailable")
        BY <1>6, <2>1, <2>2, <2>4 DEF ReadHealth
      <4>2. QED
        BY <4>1 DEF Rows
    <3>2. Keeps(e, call) => seen.attached
      BY <1>1, <2>1, <2>3
    <3>3. QED
      BY <1>2, <2>3, <3>1, <3>2
  <2>5. CASE held /\ ~seen.attached
    <3>1. PICK f : f = Send(seen, "detach", "repair", 0)
      OBVIOUS
    <3>2. PICK row \in Rows : d = Row(f, row)
      <4>1. d = Row(f, IF seen.available THEN "healthy" ELSE "unavailable")
        BY <1>6, <2>1, <2>2, <2>5, <3>1 DEF ReadHealth, Repair
      <4>2. QED
        BY <4>1 DEF Rows
    <3>3. Single(s, seen)
      BY <2>3, SingleFields DEF Alike
    <3>4. "repair" \in {"nothing", "repair"}
      OBVIOUS
    <3>5. /\ f \in ClientType /\ Same(f, seen) /\ Single(s, f)
          /\ seen.session # 0 => \A g : Alike(g, f) => Traced(s, g)
      BY <2>3, <3>1, <3>3, <3>4, DetachSent
    <3>6. /\ d \in ClientType /\ Alike(d, f) /\ d.running = f.running /\ d.attached = f.attached
      BY <3>2, <3>5 DEF Row, ClientType, Alike
    <3>7. Single(s, d)
      BY <3>5, <3>6, SingleFields DEF Alike
    <3>8. d.session = e.session /\ d.running = e.running /\ seen.session = e.session
      BY <2>3, <3>5, <3>6 DEF Same, Alike
    <3>9. QED
      BY <3>5, <3>6, <3>7, <3>8
  <2>6. QED
    BY <2>4, <2>5
<1>7. QED
  BY <1>3, <1>4, <1>5, <1>6

(* The generation moves on and the session with it.                        *)
LEMMA SingleGeneration ==
  ASSUME NEW s, NEW c \in ClientType, Single(s, c), NEW id \in Nat,
         NEW d, d = NewGeneration([c EXCEPT !.session = id])
  PROVE  /\ d \in ClientType /\ Single(s, d) /\ d.session = id /\ d.running = c.running
         /\ d.attached = c.attached
         /\ DOMAIN d.calls = DOMAIN c.calls
         /\ \A i \in DOMAIN c.calls : SameRequest(d.calls[i], c.calls[i]) /\ d.calls[i].awaited = c.calls[i].awaited
<1>1. PICK g : g = [c EXCEPT !.session = id]
  OBVIOUS
<1>2. /\ g \in ClientType /\ g.calls = c.calls /\ g.session = id
      /\ g.running = c.running /\ g.attached = c.attached
  BY <1>1 DEF ClientType
<1>3. /\ d \in ClientType /\ Same(d, g) /\ DOMAIN d.calls = DOMAIN g.calls
      /\ \A i \in DOMAIN g.calls :
           LET k == d.calls[i]
               l == g.calls[i] IN
           /\ SameRequest(k, l) /\ k.why = l.why /\ k.answer = l.answer
           /\ k.awaited = l.awaited /\ k.life = l.life /\ k.gen = FALSE
  <2>1. d = NewGeneration(g)
    BY <1>1
  <2>2. QED
    BY <1>2, <2>1, NewGenerationFacts
<1>4. d.session = id /\ d.running = c.running /\ d.attached = c.attached
  BY <1>2, <1>3 DEF Same
<1>5. DOMAIN d.calls = DOMAIN c.calls
  BY <1>2, <1>3
<1>6. \A i \in DOMAIN c.calls : /\ d.calls[i].op = c.calls[i].op
                                /\ d.calls[i].answer = c.calls[i].answer
                                /\ d.calls[i].awaited = c.calls[i].awaited
                                /\ SameRequest(d.calls[i], c.calls[i])
  BY <1>2, <1>3 DEF SameRequest
<1>7. Single(s, d)
  BY <1>4, <1>5, <1>6, SinglePassed
<1>8. QED
  BY <1>3, <1>4, <1>5, <1>6, <1>7

(* A call that attaches nothing.                                           *)
LEMMA SingleSend ==
  ASSUME NEW s, NEW c \in ClientType, Single(s, c),
         NEW op \in {"handshake", "health", "detach", "shutdown"}, NEW sid \in Nat,
         NEW why \in Whys, NEW n \in Nat, NEW awaited \in BOOLEAN,
         NEW d, d = Put(c, op, sid, why, n, awaited)
  PROVE  /\ d \in ClientType /\ Same(d, c) /\ Single(s, d)
         /\ Traced(s, c) => Traced(s, d)
<1>1. PICK k : k = NewCall(op, sid, why, n, awaited)
  OBVIOUS
<1>2. op \in {"handshake", "health", "attach", "detach", "shutdown"}
  OBVIOUS
<1>3. k \in Calls /\ k.op = op /\ k.gen /\ k.answer = Unanswered /\ ~IsAnswered(k)
  BY <1>1, <1>2, NewCallFacts
<1>4. d = Appended(c, k)
  BY <1>1 DEF Put, NewCall, Appended
<1>5. d \in ClientType /\ Same(d, c)
  BY <1>3, <1>4, AppendFacts
<1>6. k.answer.id = 0 /\ ~Attaching(k) /\ ~LeftBehind(k, c.session)
  BY <1>3 DEF Attaching, LeftBehind, Unanswered, Answer
<1>7. Single(s, d)
  BY <1>3, <1>4, <1>6, SingleAppend
<1>8. Traced(s, c) => Traced(s, d)
  BY <1>3, <1>4, <1>6, TracedAppend
<1>9. QED
  BY <1>5, <1>7, <1>8

(* close(), of a backend that no longer runs.                              *)
LEMMA SingleClose ==
  ASSUME NEW s, NEW c \in ClientType, Single(s, c), NEW why \in Whys, NEW n \in Nat,
         NEW d, d = Close(c, why, n)
  PROVE  d \in ClientType /\ Single(s, d) /\ d.session = c.session /\ d.running = c.running
<1>1. CASE c.session = 0
  <2>1. PICK g : g = [c EXCEPT !.session = 0]
    OBVIOUS
  <2>2. g = c
    BY <1>1, <2>1 DEF ClientType
  <2>3. d = NewGeneration([c EXCEPT !.session = 0]) /\ 0 \in Nat
    BY <1>1, <2>1, <2>2 DEF Close
  <2>4. QED
    BY <1>1, <2>3, SingleGeneration
<1>2. CASE c.session # 0
  <2>1. PICK sid \in Nat : sid = c.session
    BY DEF ClientType
  <2>2. PICK yes \in BOOLEAN : yes = TRUE
    OBVIOUS
  <2>3. /\ d = Put(c, "shutdown", sid, why, n, yes)
        /\ "shutdown" \in {"handshake", "health", "detach", "shutdown"}
    BY <1>2, <2>1, <2>2 DEF Close, Send
  <2>4. d \in ClientType /\ Same(d, c) /\ Single(s, d)
    BY <2>3, SingleSend
  <2>5. QED
    BY <2>4 DEF Same
<1>3. QED
  BY <1>1, <1>2

(* The continuation of anything but a handshake.                           *)
ContinuedWell(s, e, call, d) ==
  /\ Single(s, d)
  /\ d.session \in {e.session, 0}
  /\ d.running => e.running
  /\ d.running /\ d.session # 0 /\ Pending(s, e, call) => Traced(s, d)

LEMMA SameContinues ==
  ASSUME NEW s, NEW e, Single(s, e), NEW call, NEW d, Alike(d, e), d.running => e.running,
         d.attached => e.attached \/ NoneAttaches(e), Keeps(e, call) => d.attached
  PROVE  ContinuedWell(s, e, call, d)
<1>1. Single(s, d)
  BY SingleFields DEF Alike
<1>2. Pending(s, e, call) => Traced(s, d)
  BY PendingTraced
<1>3. QED
  BY <1>1, <1>2 DEF ContinuedWell, Alike

LEMMA ScheduleAtt ==
  ASSUME NEW s, NEW c \in ClientType, Single(s, c), NEW d, d = Schedule(c)
  PROVE  /\ Single(s, d) /\ d.session = c.session /\ d.running = c.running
         /\ Traced(s, c) => Traced(s, d)
<1>1. Alike(d, c) /\ d.running = c.running /\ d.attached = c.attached
  BY DEF Schedule, ClientType, Alike
<1>2. Single(s, d)
  BY <1>1, SingleFields DEF Alike
<1>3. Traced(s, c) => Traced(s, d)
  BY <1>1, TracedFields
<1>4. QED
  BY <1>1, <1>2, <1>3 DEF Alike

LEMMA CheckContinues ==
  ASSUME NEW s, NEW e \in ClientType, Single(s, e), NEW call \in Calls, NEW r, NEW ans, Faithful(call, r, ans),
         ans.attached \in BOOLEAN, call.awaited, StartChecked(e, call, r, ans), NEW d, d = client'
  PROVE  ContinuedWell(s, e, call, d)
<1>1. PICK read : read = ReadHealth(e, call, r, ans.attached)
  OBVIOUS
<1>2. Asks(call)
  BY DEF Asks, StartChecked
<1>3. /\ read \in ClientType /\ Single(s, read) /\ read.session = e.session /\ read.running = e.running
      /\ Pending(s, e, call) /\ e.session # 0 => Traced(s, read)
  BY <1>1, <1>2, ReadAtt
<1>4. PICK down : down = [read EXCEPT !.running = FALSE]
  OBVIOUS
<1>5. \/ d = read \/ d = Schedule(read) \/ d = Close(down, "failed", call.n)
  BY <1>1, <1>4 DEF StartChecked
<1>6. CASE d = Close(down, "failed", call.n)
  <2>1. /\ down \in ClientType /\ down.calls = read.calls /\ down.session = read.session
        /\ down.running = FALSE /\ down.attached = read.attached
    BY <1>3, <1>4 DEF ClientType
  <2>2. Single(s, down)
    BY <1>3, <2>1, SingleFields
  <2>3. "failed" \in Whys /\ call.n \in Nat
    BY DEF Calls, Whys
  <2>4. Single(s, d) /\ d.session = down.session /\ d.running = down.running
    BY <1>6, <2>1, <2>2, <2>3, SingleClose
  <2>5. QED
    BY <1>3, <2>1, <2>4 DEF ContinuedWell
<1>7. CASE d = read
  BY <1>3, <1>7 DEF ContinuedWell
<1>8. CASE d = Schedule(read)
  BY <1>3, <1>8, ScheduleAtt DEF ContinuedWell
<1>9. QED
  BY <1>5, <1>6, <1>7, <1>8

LEMMA CloseContinues ==
  ASSUME NEW s, NEW e \in ClientType, Single(s, e), NEW call \in Calls, NEW r, NEW ans, NEW lostNow,
         CloseAnswered(e, call, r, lostNow), Fits(call), NEW d, d = client'
  PROVE  ContinuedWell(s, e, call, d)
<1>1. d = e \/ d = Forget(e)
  BY DEF CloseAnswered, Closed
<1>2. CASE d = e
  <2>1. call.op = "shutdown"
    BY DEF CloseAnswered, Fits
  <2>2. Keeps(e, call) => e.attached
    BY <2>1 DEF Keeps, Arrives, Attaching
  <2>3. Alike(d, e)
    BY <1>2 DEF Alike
  <2>4. QED
    BY <1>2, <2>2, <2>3, SameContinues
<1>3. CASE d = Forget(e)
  <2>1. d = NewGeneration([e EXCEPT !.session = 0]) /\ 0 \in Nat
    BY <1>3 DEF Forget
  <2>2. Single(s, d) /\ d.session = 0 /\ d.running = e.running
    BY <2>1, SingleGeneration
  <2>3. QED
    BY <2>2 DEF ContinuedWell
<1>4. QED
  BY <1>1, <1>2, <1>3

LEMMA OtherContinues ==
  ASSUME NEW s, NEW e \in ClientType, Single(s, e), NEW call \in Calls, NEW r, NEW ans, Faithful(call, r, ans),
         ans.attached \in BOOLEAN, call.awaited, Fits(call), call.op # "handshake",
         Attaching(call) => NoneAttaches(e) /\ ~e.attached, OtherAnswers(e, call, r, ans), NEW d, d = client'
  PROVE  ContinuedWell(s, e, call, d)
<1>1. call.why \notin {"orphan", "recover"}
  BY DEF Fits
<1>2. Keeps(e, call) /\ call.op # "attach" => e.attached
  BY DEF Keeps, Arrives, Attaching
<1>3. CASE call.why = "check"
  <2>1. PICK read : read = ReadHealth(e, call, r, ans.attached)
    OBVIOUS
  <2>2. Asks(call)
    BY <1>3 DEF Asks, Fits
  <2>3. /\ read \in ClientType /\ Single(s, read) /\ read.session = e.session /\ read.running = e.running
        /\ Pending(s, e, call) /\ e.session # 0 => Traced(s, read)
    BY <2>1, <2>2, ReadAtt
  <2>4. d = Schedule(read)
    BY <1>3, <2>1 DEF OtherAnswers
  <2>5. QED
    BY <2>3, <2>4, ScheduleAtt DEF ContinuedWell
<1>4. CASE call.why = "detect"
  <2>1. Asks(call)
    BY <1>4 DEF Asks, Fits
  <2>2. Keeps(e, call) => e.attached /\ r = "ok" /\ ans.attached
    BY <2>1 DEF Keeps, Arrives, Attaching, Asks, Faithful
  <2>3. d = CASE r = "ok" -> Absorb(e, ans.attached) [] r = "lost" -> Gone(e) [] OTHER -> e
    BY <1>4 DEF OtherAnswers
  <2>4. PICK held \in BOOLEAN : held = ans.attached
    OBVIOUS
  <2>5. CASE r = "ok"
    <3>1. d = Absorb(e, held)
      BY <2>3, <2>4, <2>5
    <3>2. Alike(d, e) /\ d.running = e.running /\ (d.attached <=> e.attached /\ held)
      BY <3>1 DEF Absorb, ClientType, Alike
    <3>3. QED
      BY <2>2, <2>4, <3>2, SameContinues
  <2>6. CASE r # "ok"
    <3>1. d = Gone(e) \/ d = e
      BY <2>3, <2>6
    <3>2. Alike(d, e) /\ d.running = e.running /\ (d.attached => e.attached)
      BY <3>1 DEF Gone, ClientType, Alike
    <3>3. QED
      BY <2>2, <2>6, <3>2, SameContinues
  <2>7. QED
    BY <2>5, <2>6
<1>5. CASE call.why = "inject"
  <2>1. Attaching(call)
    BY <1>5 DEF Attaching, Fits
  <2>2. d = CASE r = "ok" -> Attached(e) [] r = "lost" -> Gone(e) [] OTHER -> SendDetach(e)
    BY <1>5 DEF OtherAnswers
  <2>3. CASE r = "ok"
    <3>1. d = Attached(e)
      BY <2>2, <2>3
    <3>2. Alike(d, e) /\ d.running = e.running /\ d.attached
      BY <3>1 DEF Attached, ClientType, Alike
    <3>3. QED
      BY <2>1, <3>2, SameContinues
  <2>4. CASE r = "lost"
    <3>1. d = Gone(e)
      BY <2>2, <2>4
    <3>2. Alike(d, e) /\ d.running = e.running /\ ~d.attached
      BY <3>1 DEF Gone, ClientType, Alike
    <3>3. ~Keeps(e, call)
      BY <2>1, <2>4 DEF Faithful, Keeps
    <3>4. QED
      BY <3>2, <3>3, SameContinues
  <2>5. CASE r \notin {"ok", "lost"}
    <3>1. d = Send(e, "detach", "nothing", 0) /\ "nothing" \in {"nothing", "repair"}
      BY <2>2, <2>5 DEF SendDetach
    <3>2. /\ Same(d, e) /\ Single(s, d)
          /\ e.session # 0 => \A f : Alike(f, d) => Traced(s, f)
      BY <3>1, DetachSent
    <3>3. d.session = e.session /\ d.running = e.running /\ Alike(d, d)
      BY <3>2 DEF Same, Alike
    <3>4. QED
      BY <3>2, <3>3 DEF ContinuedWell
  <2>6. QED
    BY <2>3, <2>4, <2>5
<1>6. CASE call.why \in {"repair", "nothing"}
  <2>1. d = e /\ call.op # "attach"
    BY <1>6 DEF OtherAnswers, Fits
  <2>2. Alike(d, e)
    BY <2>1 DEF Alike
  <2>3. QED
    BY <1>2, <2>1, <2>2, SameContinues
<1>7. QED
  BY <1>1, <1>3, <1>4, <1>5, <1>6 DEF OtherAnswers

LEMMA ContinueAtt ==
  ASSUME NEW s, NEW e \in ClientType, Single(s, e), NEW call \in Calls, NEW r, NEW ans, Faithful(call, r, ans),
         ans.attached \in BOOLEAN, call.awaited, Fits(call), call.op # "handshake",
         Attaching(call) => NoneAttaches(e) /\ ~e.attached,
         NEW lostNow, Continue(e, call, r, ans, lostNow), NEW d, d = client'
  PROVE  ContinuedWell(s, e, call, d)
<1>1. ~Opens(e, call, r, ans) /\ ~Recovers(e, call, r, ans)
  BY DEF Opens, Recovers, Fits
<1>2. CASE StartChecked(e, call, r, ans)
  BY <1>2, CheckContinues
<1>3. CASE CloseAnswered(e, call, r, lostNow)
  BY <1>3, CloseContinues
<1>4. CASE OtherAnswers(e, call, r, ans)
  BY <1>4, OtherContinues
<1>5. QED
  BY <1>1, <1>2, <1>3, <1>4 DEF Continue

(* A session that Nova has just heard of: nothing was asked in it yet.     *)
LEMMA OpenedTraced ==
  ASSUME NEW s, NEW c \in ClientType, Single(s, c), NEW i \in DOMAIN c.calls,
         NEW id \in Nat, id = c.calls[i].answer.id, c.calls[i].op = "handshake",
         \A j \in DOMAIN c.calls : j # i => c.calls[j].sid # id,
         NEW e, e = Without(c, i), NEW d, d = NewGeneration([e EXCEPT !.session = id])
  PROVE  /\ d \in ClientType /\ Single(s, d) /\ d.session = id
         /\ id = s.id => \A f : Alike(f, d) => Traced(s, f)
<1>1. e \in ClientType /\ Single(s, e)
  BY WithoutFacts, SingleWithout
<1>2. /\ d \in ClientType /\ Single(s, d) /\ d.session = id
      /\ DOMAIN d.calls = DOMAIN e.calls
      /\ \A k \in DOMAIN e.calls : SameRequest(d.calls[k], e.calls[k])
  BY <1>1, SingleGeneration
<1>3. \A k \in DOMAIN e.calls : e.calls[k].sid # id
  BY WithoutFacts
<1>4. \A k \in DOMAIN d.calls : ~LeftBehind(d.calls[k], id)
  BY <1>2, <1>3 DEF LeftBehind, SameRequest
<1>5. id = s.id => ~s.attached
  BY DEF Single
<1>6. ASSUME id = s.id, NEW f, Alike(f, d) PROVE Traced(s, f)
  BY <1>2, <1>4, <1>5, <1>6 DEF Traced, Undoing, Alike
<1>7. QED
  BY <1>2, <1>6

LEMMA OpensAtt ==
  ASSUME SysCore, NEW s, Sess(s.id, client), Att(s, client), 1 \in DOMAIN client.calls,
         client.calls[1].op = "handshake", IsAnswered(client.calls[1]), client.calls[1].awaited,
         NEW call, call = client.calls[1], NEW e, e = Without(client, 1), NEW lostNow,
         Continue(e, call, "ok", call.answer, lostNow), NEW d, d = client'
  PROVE  Att(s, d)
<1>1. client \in ClientType /\ ClientOk(client) /\ Single(s, client)
  BY CoreParts DEF Sound, Att
<1>2. call.why \in {"start", "orphan"} /\ (call.gen => call.life /\ call.why = "start")
  BY DEF Sess, AllAgree, Agrees
<1>3. call \in Calls /\ call.answer.id \in Nat /\ call.answer.id # 0 /\ call.n \in Nat
  <2>1. call \in Calls
    BY <1>1 DEF ClientType
  <2>2. call.answer \in AnswerType /\ call.n \in Nat
    BY <2>1 DEF Calls, AnswerType
  <2>3. call.answer.is = "ok" /\ Fits(call)
    BY <1>1 DEF Sess, AllAgree, Agrees, ClientOk
  <2>4. QED
    BY <2>1, <2>2, <2>3 DEF AnswerType, Fits
<1>4. PICK id \in Nat : id = call.answer.id
  BY <1>3
<1>5. e \in ClientType /\ Single(s, e) /\ Same(e, client)
  BY <1>1, WithoutFacts, SingleWithout
<1>6. CASE call.gen
  <2>1. PICK opened : opened = NewGeneration([e EXCEPT !.session = id])
    OBVIOUS
  <2>2. PICK up : up = [opened EXCEPT !.running = TRUE]
    OBVIOUS
  <2>3. d = Send(up, "health", "start", call.n)
    BY <1>2, <1>4, <1>6, <2>1, <2>2
       DEF Continue, Opens, StartChecked, CloseAnswered, Recovers, OtherAnswers, Opened
  <2>4. \A j \in DOMAIN client.calls : j # 1 => client.calls[j].sid # id
    BY <1>4 DEF Sess, AllAgree, Apart
  <2>5. /\ opened \in ClientType /\ Single(s, opened) /\ opened.session = id
        /\ id = s.id => \A f : Alike(f, opened) => Traced(s, f)
    BY <1>1, <1>4, <2>1, <2>4, OpenedTraced
  <2>6. up \in ClientType /\ Alike(up, opened) /\ up.attached = opened.attached
    BY <2>2, <2>5 DEF ClientType, Alike
  <2>7. Single(s, up) /\ up.session = id
    BY <2>5, <2>6, SingleFields DEF Alike
  <2>8. PICK yes \in BOOLEAN : yes = TRUE
    OBVIOUS
  <2>9. /\ d = Put(up, "health", id, "start", call.n, yes)
        /\ "health" \in {"handshake", "health", "detach", "shutdown"} /\ "start" \in Whys
    BY <1>3, <1>4, <2>3, <2>7, <2>8 DEF Send, Whys
  <2>10. Single(s, d) /\ Same(d, up) /\ (Traced(s, up) => Traced(s, d))
    BY <1>3, <2>6, <2>7, <2>9, SingleSend
  <2>11. QED
    BY <2>5, <2>6, <2>7, <2>10 DEF Att, Same
<1>7. CASE ~call.gen
  <2>1. d = EndOrphan(e, id)
    BY <1>2, <1>4, <1>7
       DEF Continue, Opens, StartChecked, CloseAnswered, Recovers, OtherAnswers, Opened
  <2>2. PICK no \in BOOLEAN : no = FALSE
    OBVIOUS
  <2>3. /\ d = Put(e, "shutdown", id, "nothing", 0, no) /\ 0 \in Nat
        /\ "shutdown" \in {"handshake", "health", "detach", "shutdown"} /\ "nothing" \in Whys
    BY <2>1, <2>2 DEF EndOrphan, Whys
  <2>4. Single(s, d) /\ Same(d, e) /\ (Traced(s, e) => Traced(s, d))
    BY <1>5, <2>3, SingleSend
  <2>5. Traced(s, client) => Traced(s, e)
    <3>1. Traced(s, client) => Pending(s, e, call)
      BY <1>1, PendingAfter
    <3>2. Keeps(e, call) => e.attached
      BY DEF Keeps, Arrives, Attaching
    <3>3. Alike(e, e)
      BY DEF Alike
    <3>4. QED
      BY <3>1, <3>2, <3>3, PendingTraced
  <2>6. QED
    BY <1>5, <2>4, <2>5 DEF Att, Same
<1>8. QED
  BY <1>6, <1>7

LEMMA DeliverAtt ==
  ASSUME SysCore, InOrder, NEW s, Sess(s.id, client), Att(s, client), NEW i, Deliver(i), NEW d, d = client'
  PROVE  Att(s, d)
<1> DEFINE call == client.calls[1]
           stale == call.op # "handshake" /\ ~call.gen
           lostNow == call.answer.is = "lost" /\ ~stale
<1>1. /\ i = 1 /\ 1 \in DOMAIN calls /\ calls[1].awaited /\ calls[1].answer # Unanswered
      /\ 1 \in DOMAIN client.calls /\ call.awaited /\ IsAnswered(call)
  BY DEF Deliver, calls, IsAnswered
<1>2. PICK rest : rest = Without(client, 1)
  OBVIOUS
<1>3. PICK e : e = IF lostNow THEN Forget(rest) ELSE rest
  OBVIOUS
<1>4. PICK r : r = IF stale THEN "lost" ELSE call.answer.is
  OBVIOUS
<1>5. Continue(e, call, r, call.answer, lostNow)
  BY <1>1, <1>2, <1>3, <1>4 DEF Deliver, calls
<1>6. client \in ClientType /\ ClientOk(client) /\ Single(s, client)
  BY CoreParts DEF Sound, Att
<1>7. rest \in ClientType /\ Same(rest, client) /\ Single(s, rest) /\ (Attaching(call) => NoneAttaches(rest))
  BY <1>1, <1>2, <1>6, WithoutFacts, SingleWithout
<1>8. call \in Calls /\ Fits(call) /\ call.answer \in AnswerType
  BY <1>1, CallFacts DEF calls
<1>9. CASE call.op = "handshake"
  <2>1. call.answer.is = "ok"
    BY <1>1, <1>9 DEF Sess, AllAgree, Agrees
  <2>2. e = Without(client, 1) /\ r = "ok"
    BY <1>2, <1>3, <1>4, <1>9, <2>1
  <2>3. PICK k : k = call
    OBVIOUS
  <2>4. PICK lost : Continue(e, k, "ok", k.answer, lost)
    BY <1>5, <2>2, <2>3
  <2>5. QED
    BY <1>1, <1>9, <2>2, <2>3, <2>4, OpensAtt
<1>10. CASE call.op # "handshake"
  <2>1. Faithful(call, r, call.answer)
    BY <1>1, <1>4 DEF Faithful, Says, Arrives
  <2>2. Attaching(call) => ~client.attached
    BY <1>1, <1>6 DEF Single
  <2>3. /\ e \in ClientType /\ Single(s, e) /\ e.running = client.running
        /\ e.attached = client.attached /\ (Attaching(call) => NoneAttaches(e))
        /\ e.session = IF lostNow THEN 0 ELSE client.session
    <3>1. CASE ~lostNow
      BY <1>3, <1>7, <3>1 DEF Same
    <3>2. CASE lostNow
      <4>1. e = NewGeneration([rest EXCEPT !.session = 0]) /\ 0 \in Nat
        BY <1>3, <3>2 DEF Forget
      <4>2. /\ e \in ClientType /\ Single(s, e) /\ e.session = 0 /\ e.running = rest.running
            /\ e.attached = rest.attached /\ DOMAIN e.calls = DOMAIN rest.calls
            /\ \A k \in DOMAIN rest.calls : /\ SameRequest(e.calls[k], rest.calls[k])
                                            /\ e.calls[k].awaited = rest.calls[k].awaited
        BY <1>7, <4>1, SingleGeneration
      <4>3. NoneAttaches(rest) => NoneAttaches(e)
        BY <4>2 DEF NoneAttaches, Attaching, SameRequest
      <4>4. QED
        BY <1>7, <3>2, <4>2, <4>3 DEF Same
    <3>3. QED
      BY <3>1, <3>2
  <2>4. PICK k : k = call
    OBVIOUS
  <2>5. call.answer.attached \in BOOLEAN
    BY <1>8 DEF AnswerType
  <2>6. PICK lost : lost = lostNow
    OBVIOUS
  <2>7. /\ k \in Calls /\ Fits(k) /\ k.awaited /\ k.op # "handshake" /\ Faithful(k, r, k.answer)
        /\ k.answer.attached \in BOOLEAN /\ (Attaching(k) => NoneAttaches(e) /\ ~e.attached)
        /\ Continue(e, k, r, k.answer, lost)
    BY <1>1, <1>5, <1>8, <1>10, <2>1, <2>2, <2>3, <2>4, <2>5, <2>6
  <2>8. ContinuedWell(s, e, k, d)
    BY <2>3, <2>7, ContinueAtt
  <2>9. ASSUME d.session = s.id, s.id # 0, d.running PROVE Traced(s, d)
    <3>1. d.session # 0 /\ e.session = d.session /\ e.running /\ (Pending(s, e, k) => Traced(s, d))
      BY <2>8, <2>9 DEF ContinuedWell
    <3>2. ~lostNow /\ client.session = s.id /\ client.running
      BY <2>3, <2>9, <3>1
    <3>3. Traced(s, client)
      BY <2>9, <3>2 DEF Att
    <3>4. e = Without(client, 1)
      BY <1>2, <1>3, <3>2
    <3>5. Pending(s, e, k)
      BY <1>1, <1>6, <2>4, <3>3, <3>4, PendingAfter
    <3>6. QED
      BY <3>1, <3>5
  <2>10. QED
    BY <2>8, <2>9 DEF Att, ContinuedWell
<1>11. QED
  BY <1>9, <1>10

(* The service's answer to call i of Nova's.                               *)
LEMMA SingleReplied ==
  ASSUME NEW s, NEW c \in ClientType, Single(s, c), NEW i \in DOMAIN c.calls, NEW a \in AnswerType,
         NEW t, t.attached => t.id # 0, c.calls[i].op = "handshake" => ~t.attached,
         \A j \in DOMAIN c.calls : c.calls[j].op = "handshake" /\ c.calls[j].answer.id = t.id => ~t.attached,
         NEW d, d = Reply(c, i, a)
  PROVE  Single(t, d) /\ d.session = c.session /\ d.running = c.running
<1>1. CASE c.calls[i].awaited
  <2>1. /\ HandedOne(d.calls, c.calls, i, a) /\ d.session = c.session /\ d.running = c.running
        /\ d.attached = c.attached
    BY <1>1, HandedIsOne
  <2>2. DOMAIN d.calls = DOMAIN c.calls /\ \A j \in DOMAIN c.calls : Attaching(d.calls[j]) => Attaching(c.calls[j])
    BY <2>1 DEF HandedOne, Attaching
  <2>3. \A j \in DOMAIN d.calls : Attaching(d.calls[j]) => ~d.attached
    BY <2>1, <2>2 DEF Single
  <2>4. \A j, k \in DOMAIN d.calls : Attaching(d.calls[j]) /\ Attaching(d.calls[k]) => j = k
    BY <2>2 DEF Single
  <2>5. \A j \in DOMAIN d.calls :
          d.calls[j].op = "handshake" /\ d.calls[j].answer.id = t.id => ~t.attached
    BY <2>1 DEF HandedOne
  <2>6. QED
    BY <2>1, <2>3, <2>4, <2>5 DEF Single
<1>2. CASE ~c.calls[i].awaited
  <2>1. d = Without(c, i)
    BY <1>2 DEF Reply
  <2>2. Single(s, d) /\ Same(d, c)
    BY <2>1, SingleWithout, WithoutFacts
  <2>3. \A k \in DOMAIN d.calls : \E j \in DOMAIN c.calls : d.calls[k] = c.calls[j]
    BY <2>1, WithoutFacts
  <2>4. \A k \in DOMAIN d.calls :
          d.calls[k].op = "handshake" /\ d.calls[k].answer.id = t.id => ~t.attached
    BY <2>3
  <2>5. QED
    BY <2>2, <2>4 DEF Single, Same
<1>3. QED
  BY <1>1, <1>2

LEMMA PlacesInOrder ==
  ASSUME NEW i \in Nat, NEW k \in Nat, NEW l \in Nat, Place(i, k) < Place(i, l)
  PROVE  k < l
  BY DEF Place

(* Nobody's attach is behind what is being answered.                       *)
LEMMA ReplyUndoing ==
  ASSUME NEW c \in ClientType, Undoing(c), NEW i \in DOMAIN c.calls,
         \A j \in DOMAIN c.calls : j < i => IsAnswered(c.calls[j]),
         \A j \in DOMAIN c.calls : ~c.calls[j].awaited => ~IsAnswered(c.calls[j]),
         NEW a \in AnswerType, NEW d, d = Reply(c, i, a)
  PROVE  Undoing(d)
<1>1. DOMAIN c.calls \subseteq Nat
  BY DEF ClientType
<1>2. ASSUME NEW k \in DOMAIN c.calls, LeftBehind(c.calls[k], c.session)
      PROVE  \E j \in DOMAIN c.calls : k < j /\ j # i /\ Detaching(c.calls[j], c.session)
  <2>1. ~(k < i)
    BY <1>2 DEF LeftBehind
  <2>2. PICK j \in DOMAIN c.calls : k < j /\ Detaching(c.calls[j], c.session)
    BY <1>2 DEF Undoing
  <2>3. j # i
    BY <1>1, <2>1, <2>2
  <2>4. QED
    BY <2>2, <2>3
<1>3. CASE c.calls[i].awaited
  <2>1. HandedOne(d.calls, c.calls, i, a) /\ d.session = c.session
    BY <1>3, HandedIsOne
  <2>2. \A j \in DOMAIN c.calls : LeftBehind(d.calls[j], d.session) => LeftBehind(c.calls[j], c.session)
    BY <2>1 DEF HandedOne, LeftBehind
  <2>3. \A j \in DOMAIN c.calls :
          j # i /\ Detaching(c.calls[j], c.session) => Detaching(d.calls[j], d.session)
    BY <2>1 DEF HandedOne, Detaching, IsAnswered
  <2>4. DOMAIN d.calls = DOMAIN c.calls
    BY <2>1 DEF HandedOne
  <2>5. QED
    BY <1>2, <2>2, <2>3, <2>4 DEF Undoing
<1>4. CASE ~c.calls[i].awaited
  <2>1. d = Without(c, i)
    BY <1>4 DEF Reply
  <2>2. /\ Same(d, c) /\ d \in ClientType
        /\ \A k \in DOMAIN d.calls : /\ Place(i, k) \in DOMAIN c.calls /\ Place(i, k) # i
                                     /\ d.calls[k] = c.calls[Place(i, k)]
        /\ \A k, l \in DOMAIN d.calls : k < l => Place(i, k) < Place(i, l)
        /\ \A j \in DOMAIN c.calls : j # i => \E k \in DOMAIN d.calls : Place(i, k) = j
    BY <2>1, WithoutFacts
  <2>3. d.session = c.session
    BY <2>2 DEF Same
  <2>4. \A k, l \in DOMAIN d.calls : Place(i, k) < Place(i, l) => k < l
    BY <1>1, <2>2, PlacesInOrder DEF ClientType
  <2>5. ASSUME NEW k \in DOMAIN d.calls, LeftBehind(d.calls[k], d.session)
        PROVE  \E l \in DOMAIN d.calls : k < l /\ Detaching(d.calls[l], d.session)
    <3>1. PICK j \in DOMAIN c.calls : Place(i, k) < j /\ j # i /\ Detaching(c.calls[j], c.session)
      BY <1>2, <2>2, <2>3, <2>5
    <3>2. PICK l \in DOMAIN d.calls : Place(i, l) = j
      BY <2>2, <3>1
    <3>3. QED
      BY <2>2, <2>3, <2>4, <3>1, <3>2
  <2>6. QED
    BY <2>5 DEF Undoing
<1>5. QED
  BY <1>3, <1>4

(* An answer that leaves the service as it was.                            *)
LEMMA ReplyTraced ==
  ASSUME NEW s, NEW c \in ClientType, Traced(s, c), NEW i \in DOMAIN c.calls, ~IsAnswered(c.calls[i]),
         NEW a \in AnswerType, ~Detaching(c.calls[i], c.session),
         s.attached /\ Asks(c.calls[i]) /\ c.calls[i].gen => a.is = "ok" /\ a.attached,
         NEW d, d = Reply(c, i, a), Undoing(d)
  PROVE  Traced(s, d)
<1> SUFFICES ASSUME s.attached PROVE Undone(d) \/ Arriving(d) \/ (d.attached /\ After(d, 0))
  BY DEF Traced
<1>1. ~Arrives(c.calls[i])
  BY DEF Arrives, IsAnswered, Unanswered, Answer
<1>2. CASE c.calls[i].awaited
  <2>1. HandedOne(d.calls, c.calls, i, a) /\ d.session = c.session /\ d.attached = c.attached
    BY <1>2, HandedIsOne
  <2>2. DOMAIN d.calls = DOMAIN c.calls
    BY <2>1 DEF HandedOne
  <2>3. \A j \in DOMAIN c.calls : Detaching(c.calls[j], c.session) => Detaching(d.calls[j], d.session)
    BY <2>1 DEF HandedOne, Detaching, IsAnswered
  <2>4. \A j \in DOMAIN c.calls : Asks(d.calls[j]) => Asks(c.calls[j])
    BY <2>1 DEF HandedOne, Asks
  <2>5. \A j \in DOMAIN c.calls : Asks(c.calls[j]) /\ Says(c.calls[j]) => Says(d.calls[j])
    <3>1. ASSUME NEW j \in DOMAIN c.calls, Asks(c.calls[j]), Says(c.calls[j]) PROVE Says(d.calls[j])
      <4>1. CASE j = i
        BY <2>1, <3>1, <4>1 DEF HandedOne, Says
      <4>2. CASE j # i
        BY <2>1, <3>1, <4>2 DEF HandedOne, Says, IsAnswered
      <4>3. QED
        BY <4>1, <4>2
    <3>2. QED
      BY <3>1
  <2>6. \A k : After(c, k) => After(d, k)
    BY <2>2, <2>4, <2>5 DEF After
  <2>7. \A j \in DOMAIN c.calls : Arrives(c.calls[j]) => Arrives(d.calls[j])
    BY <1>1, <2>1 DEF HandedOne, Arrives, Attaching
  <2>8. QED
    BY <2>1, <2>2, <2>3, <2>6, <2>7 DEF Traced, Undone, Arriving
<1>3. CASE ~c.calls[i].awaited
  <2>1. d = Without(c, i)
    BY <1>3 DEF Reply
  <2>2. /\ Same(d, c) /\ d \in ClientType
        /\ \A k \in DOMAIN d.calls : /\ Place(i, k) \in DOMAIN c.calls /\ Place(i, k) # i
                                     /\ d.calls[k] = c.calls[Place(i, k)]
        /\ \A k, l \in DOMAIN d.calls : k < l => Place(i, k) < Place(i, l)
        /\ \A j \in DOMAIN c.calls : j # i => \E k \in DOMAIN d.calls : Place(i, k) = j
    BY <2>1, WithoutFacts
  <2>3. d.session = c.session /\ d.attached = c.attached
    BY <2>2 DEF Same
  <2>4. Undone(c) => Undone(d)
    BY <2>2, <2>3 DEF Undone
  <2>5. \A k \in DOMAIN d.calls : After(c, Place(i, k)) => After(d, k)
    BY <2>2 DEF After
  <2>6. After(c, 0) => After(d, 0)
    <3>1. \A k \in DOMAIN d.calls : 0 < Place(i, k)
      BY <2>2 DEF ClientType
    <3>2. QED
      BY <2>2, <3>1 DEF After
  <2>7. Arriving(c) => Arriving(d)
    <3> SUFFICES ASSUME NEW j \in DOMAIN c.calls, Arrives(c.calls[j]), After(c, j) PROVE Arriving(d)
      BY DEF Arriving
    <3>1. PICK k \in DOMAIN d.calls : Place(i, k) = j
      BY <1>1, <2>2
    <3>2. QED
      BY <2>2, <2>5, <3>1 DEF Arriving
  <2>8. QED
    BY <2>3, <2>4, <2>6, <2>7 DEF Traced
<1>4. QED
  BY <1>2, <1>3

(* The service attaches: the answer goes to whoever awaits it, or a detach *)
(* stands behind.                                                          *)
LEMMA AttachTraced ==
  ASSUME NEW c \in ClientType, ClientOk(c), Undoing(c), NEW i \in DOMAIN c.calls, ~IsAnswered(c.calls[i]),
         c.calls[i].op = "attach", c.calls[i].sid = c.session, c.calls[i].gen,
         NEW a \in AnswerType, a.is = "ok", NEW t, NEW d, d = Reply(c, i, a), Undoing(d)
  PROVE  Traced(t, d)
<1>1. CASE c.calls[i].awaited
  <2>1. HandedOne(d.calls, c.calls, i, a)
    BY <1>1, HandedIsOne
  <2>2. i \in DOMAIN d.calls /\ Arrives(d.calls[i])
    BY <1>1, <2>1 DEF HandedOne, Arrives, Attaching
  <2>3. \A j \in DOMAIN d.calls : i < j => d.calls[j].gen /\ ~IsAnswered(d.calls[j])
    <3>1. \A j \in DOMAIN c.calls : i < j => c.calls[j].gen /\ ~IsAnswered(c.calls[j])
      BY DEF ClientOk, InTurn
    <3>2. \A j \in DOMAIN c.calls : i < j => j # i
      BY DEF ClientType
    <3>3. QED
      BY <2>1, <3>1, <3>2 DEF HandedOne, IsAnswered
  <2>4. After(d, i)
    BY <2>3 DEF After, Says
  <2>5. QED
    BY <2>2, <2>4 DEF Traced, Arriving
<1>2. CASE ~c.calls[i].awaited
  <2>1. d = Without(c, i)
    BY <1>2 DEF Reply
  <2>2. /\ Same(d, c)
        /\ \A k \in DOMAIN d.calls : d.calls[k] = c.calls[Place(i, k)]
        /\ \A j \in DOMAIN c.calls : j # i => \E k \in DOMAIN d.calls : Place(i, k) = j
    BY <2>1, WithoutFacts
  <2>3. LeftBehind(c.calls[i], c.session)
    BY <1>2 DEF LeftBehind
  <2>4. PICK j \in DOMAIN c.calls : i < j /\ Detaching(c.calls[j], c.session)
    BY <2>3 DEF Undoing
  <2>5. j # i
    BY <2>4 DEF ClientType
  <2>6. Undone(d)
    BY <2>2, <2>4, <2>5 DEF Undone, Same
  <2>7. QED
    BY <2>6 DEF Traced
<1>3. QED
  BY <1>1, <1>2

(* The answers to requests of the session the service holds.               *)
LEMMA HandleAnswers ==
  ASSUME NEW s \in Services, NEW op \in {"health", "attach", "detach"}, s.id # 0, NEW fresh,
         NEW done, done = Handle(s, op, s.id, fresh)
  PROVE  /\ done.service.id = s.id
         /\ op = "health" => done.service = s /\ done.answer.is = "ok" /\ done.answer.attached = s.attached
         /\ op = "detach" => ~done.service.attached
         /\ op = "attach" => done.service = s \/ (~s.attached /\ done.answer.is = "ok")
<1>1. op # "handshake" /\ Authenticated(s, s.id) /\ op # "shutdown"
  BY DEF Authenticated
<1>2. CASE op = "health"
  BY <1>1, <1>2 DEF Handle, Good, Answer
<1>3. CASE op = "attach"
  BY <1>1, <1>3 DEF Handle, Attach, Good, Answer, Services
<1>4. CASE op = "detach"
  BY <1>1, <1>4 DEF Handle, Detach, Services
<1>5. QED
  BY <1>2, <1>3, <1>4

LEMMA ReplyAtt ==
  ASSUME NEW s \in Services, NEW c \in ClientType, ClientOk(c), Sess(s.id, c), Att(s, c),
         NEW i \in DOMAIN c.calls, ~IsAnswered(c.calls[i]),
         \A j \in DOMAIN c.calls : j < i => IsAnswered(c.calls[j]),
         NEW fresh \in Nat, fresh # 0, fresh # c.session,
         NEW done, done = Handle(s, c.calls[i].op, c.calls[i].sid, fresh),
         NEW d, d = Reply(c, i, done.answer)
  PROVE  Att(done.service, d)
<1>1. c.calls[i] \in Calls /\ Fits(c.calls[i]) /\ Names(c.calls[i], c.session)
  BY DEF ClientType, ClientOk
<1>2. PICK op \in {"handshake", "health", "attach", "detach", "shutdown"}, sid \in Nat :
        op = c.calls[i].op /\ sid = c.calls[i].sid
  BY <1>1 DEF Calls
<1>3. op # "handshake" => sid # 0
  BY <1>1, <1>2 DEF Fits
<1>4. done.answer \in AnswerType
  BY <1>2, HandleFacts
<1>5. PICK t : t = done.service
  OBVIOUS
<1>6. PICK a \in AnswerType : a = done.answer
  BY <1>4
<1>7. Single(s, c)
  BY DEF Att
<1>8. \/ /\ op = "handshake" /\ t.id = fresh /\ ~t.attached
      \/ /\ op = "shutdown" /\ sid = s.id /\ t.id = 0 /\ ~t.attached
      \/ /\ op \in {"health", "attach", "detach"} /\ sid = s.id /\ s.id # 0 /\ t.id = s.id
      \/ op # "handshake" /\ sid # s.id /\ t = s /\ a = Lost
  BY <1>2, <1>3, <1>5, <1>6, HandleCases
<1>9. Undoing(c) => Undoing(d)
  <2>1. \A j \in DOMAIN c.calls : ~c.calls[j].awaited => ~IsAnswered(c.calls[j])
    BY DEF Sess, AllAgree, Agrees
  <2>2. QED
    BY <1>6, <2>1, ReplyUndoing
<1>10. CASE op = "handshake" /\ t.id = fresh /\ ~t.attached
  <2>1. Single(t, d) /\ d.session = c.session
    BY <1>6, <1>7, <1>10, SingleReplied
  <2>2. QED
    BY <1>5, <1>10, <2>1 DEF Att
<1>11. CASE op = "shutdown" /\ t.id = 0 /\ ~t.attached
  <2>1. Single(t, d)
    BY <1>6, <1>7, <1>11, SingleReplied
  <2>2. QED
    BY <1>5, <1>11, <2>1 DEF Att
<1>12. CASE op \in {"health", "attach", "detach"} /\ sid = s.id /\ s.id # 0 /\ t.id = s.id
  <2>1. /\ op = "health" => t = s /\ a.is = "ok" /\ a.attached = s.attached
        /\ op = "detach" => ~t.attached
        /\ op = "attach" => t = s \/ (~s.attached /\ a.is = "ok")
    BY <1>2, <1>5, <1>6, <1>12, HandleAnswers
  <2>2. \A j \in DOMAIN c.calls : c.calls[j].op = "handshake" => c.calls[j].answer.id # t.id
    <3>1. ASSUME NEW j \in DOMAIN c.calls, c.calls[j].op = "handshake", c.calls[j].answer.id = t.id
          PROVE  FALSE
      <4>1. IsAnswered(c.calls[j])
        BY <1>12, <3>1 DEF IsAnswered, Unanswered, Answer
      <4>2. j # i
        BY <1>2, <1>12, <3>1
      <4>3. Apart(c.calls[j], c.calls[i])
        BY <4>2 DEF Sess, AllAgree
      <4>4. QED
        BY <1>2, <1>12, <3>1, <4>1, <4>3 DEF Apart
    <3>2. QED
      BY <3>1
  <2>3. Single(t, d) /\ d.session = c.session /\ d.running = c.running
    BY <1>2, <1>6, <1>7, <1>12, <2>2, SingleReplied
  <2>4. ASSUME d.session = t.id, d.running PROVE Traced(t, d)
    <3>1. c.session = s.id /\ c.running /\ Traced(s, c)
      BY <1>12, <2>3, <2>4 DEF Att
    <3>2. Undoing(c) /\ Undoing(d)
      BY <1>9, <3>1 DEF Traced
    <3>3. Untouched(c.calls[i], c.session)
      BY <1>12, <3>1 DEF Sess, Owned
    <3>4. c.calls[i].gen /\ c.calls[i].sid = c.session
      BY <1>2, <1>12, <3>1, <3>3 DEF Untouched
    <3>5. CASE op = "detach"
      BY <2>1, <3>2, <3>5 DEF Traced
    <3>6. CASE op = "attach" /\ t # s
      BY <1>2, <1>6, <2>1, <3>2, <3>4, <3>6, AttachTraced
    <3>7. CASE op \in {"health", "attach"} /\ t = s
      <4>1. ~Detaching(c.calls[i], c.session)
        BY <1>2, <3>7 DEF Detaching
      <4>2. s.attached /\ Asks(c.calls[i]) => a.is = "ok" /\ a.attached
        BY <1>2, <2>1, <3>7 DEF Asks
      <4>3. QED
        BY <1>6, <3>1, <3>2, <3>7, <4>1, <4>2, ReplyTraced
    <3>8. QED
      BY <1>12, <2>1, <3>5, <3>6, <3>7
  <2>5. QED
    BY <1>5, <2>3, <2>4 DEF Att
<1>13. CASE op # "handshake" /\ sid # s.id /\ t = s /\ a = Lost
  <2>1. Single(t, d) /\ d.session = c.session /\ d.running = c.running
    <3>1. t.attached => t.id # 0
      BY <1>7, <1>13 DEF Single
    <3>2. \A j \in DOMAIN c.calls : c.calls[j].op = "handshake" /\ c.calls[j].answer.id = t.id => ~t.attached
      BY <1>7, <1>13 DEF Single
    <3>3. QED
      BY <1>2, <1>6, <1>7, <1>13, <3>1, <3>2, SingleReplied
  <2>2. ASSUME d.session = s.id, s.id # 0, d.running PROVE Traced(s, d)
    <3>1. c.session = s.id /\ Traced(s, c)
      BY <2>1, <2>2 DEF Att
    <3>2. Undoing(d)
      BY <1>9, <3>1 DEF Traced
    <3>3. ~Detaching(c.calls[i], c.session)
      BY <1>2, <1>13, <3>1 DEF Detaching
    <3>4. ~(Asks(c.calls[i]) /\ c.calls[i].gen)
      BY <1>1, <1>2, <1>13, <3>1 DEF Asks, Names
    <3>5. QED
      BY <1>6, <3>1, <3>2, <3>3, <3>4, ReplyTraced
  <2>3. QED
    BY <1>5, <1>13, <2>1, <2>2 DEF Att
<1>14. QED
  BY <1>8, <1>10, <1>11, <1>12, <1>13

LEMMA HandlesAtt ==
  ASSUME SysCore, Sess(service.id, client), Att(service, client), NEW i, ServiceHandles(i)
  PROVE  Att(service, client)'
<1>1. /\ i \in DOMAIN client.calls /\ ~IsAnswered(client.calls[i])
      /\ \A j \in 1 .. i - 1 : IsAnswered(client.calls[j])
  BY DEF ServiceHandles, calls, IsAnswered
<1>2. PICK fresh : fresh = FreshId
  OBVIOUS
<1>3. PICK done : done = Handle(service, client.calls[i].op, client.calls[i].sid, fresh)
  OBVIOUS
<1>4. PICK d : d = Reply(client, i, done.answer)
  OBVIOUS
<1>5. service' = done.service /\ client' = d
  BY <1>2, <1>3, <1>4 DEF ServiceHandles, calls
<1>6. service \in Services /\ client \in ClientType /\ ClientOk(client)
  BY CoreParts DEF Sound
<1>7. fresh \in Nat /\ fresh # 0 /\ fresh # client.session
  BY <1>2, FreshIsNew DEF FreshFacts
<1>8. \A j \in DOMAIN client.calls : j < i => IsAnswered(client.calls[j])
  BY <1>1, <1>6 DEF ClientType
<1>9. Att(done.service, d)
  BY <1>1, <1>3, <1>4, <1>6, <1>7, <1>8, ReplyAtt
<1>10. QED
  BY <1>5, <1>9

LEMMA SingleGiveUp ==
  ASSUME NEW s, NEW c \in ClientType, Single(s, c), NEW i \in DOMAIN c.calls, NEW d, d = GiveUp(c, i)
  PROVE  d \in ClientType /\ Single(s, d) /\ d.session = c.session
<1>1. CASE IsAnswered(c.calls[i])
  <2>1. d = Without(c, i)
    BY <1>1 DEF GiveUp, IsAnswered
  <2>2. d \in ClientType /\ Same(d, c)
    BY <2>1, WithoutFacts
  <2>3. QED
    BY <2>1, <2>2, SingleWithout DEF Same
<1>2. CASE ~IsAnswered(c.calls[i])
  <2>1. d = Dropped(c, i)
    BY <1>2 DEF GiveUp, IsAnswered, Dropped
  <2>2. /\ d \in ClientType /\ Same(d, c) /\ DOMAIN d.calls = DOMAIN c.calls
        /\ \A j \in DOMAIN c.calls :
             LET k == d.calls[j]
                 l == c.calls[j] IN
             /\ SameRequest(k, l) /\ k.why = l.why /\ k.answer = l.answer
             /\ k.life = l.life /\ k.gen = l.gen
             /\ (k.awaited <=> l.awaited /\ j # i)
    BY <2>1, DroppedFacts
  <2>3. \A j \in DOMAIN c.calls : /\ d.calls[j].op = c.calls[j].op
                                  /\ d.calls[j].answer = c.calls[j].answer
                                  /\ d.calls[j].awaited => c.calls[j].awaited
    BY <2>2 DEF SameRequest
  <2>4. d.attached = c.attached /\ d.session = c.session
    BY <2>2 DEF Same
  <2>5. QED
    BY <2>2, <2>3, <2>4, SinglePassed
<1>3. QED
  BY <1>1, <1>2

LEMMA SingleMovedOn ==
  ASSUME NEW s, NEW c \in ClientType, Single(s, c), NEW d, d = NewGeneration(c)
  PROVE  d \in ClientType /\ Single(s, d) /\ d.running = c.running
<1>1. /\ d \in ClientType /\ Same(d, c) /\ DOMAIN d.calls = DOMAIN c.calls
      /\ \A i \in DOMAIN c.calls :
           LET k == d.calls[i]
               l == c.calls[i] IN
           /\ SameRequest(k, l) /\ k.why = l.why /\ k.answer = l.answer
           /\ k.awaited = l.awaited /\ k.life = l.life /\ k.gen = FALSE
  BY NewGenerationFacts
<1>2. \A j \in DOMAIN c.calls : /\ d.calls[j].op = c.calls[j].op
                                /\ d.calls[j].answer = c.calls[j].answer
                                /\ d.calls[j].awaited => c.calls[j].awaited
  BY <1>1 DEF SameRequest
<1>3. d.attached = c.attached /\ d.running = c.running
  BY <1>1 DEF Same
<1>4. QED
  BY <1>1, <1>2, <1>3, SinglePassed

LEMMA SingleOrphaned ==
  ASSUME NEW s, NEW c \in ClientType, Single(s, c), NEW n, NEW d, d = Orphaned(c, n)
  PROVE  d \in ClientType /\ Single(s, d)
<1>1. /\ d \in ClientType /\ Same(d, c) /\ DOMAIN d.calls = DOMAIN c.calls
      /\ \A i \in DOMAIN c.calls :
           LET k == d.calls[i]
               l == c.calls[i] IN
           /\ SameRequest(k, l) /\ k.answer = l.answer /\ k.awaited = l.awaited
           /\ k.life = l.life /\ k.gen = l.gen
           /\ k.why = IF Starts(l, n) THEN "orphan" ELSE l.why
  BY OrphanedFacts
<1>2. \A j \in DOMAIN c.calls : /\ d.calls[j].op = c.calls[j].op
                                /\ d.calls[j].answer = c.calls[j].answer
                                /\ d.calls[j].awaited => c.calls[j].awaited
  BY <1>1 DEF SameRequest
<1>3. d.attached = c.attached
  BY <1>1 DEF Same
<1>4. QED
  BY <1>1, <1>2, <1>3, SinglePassed

LEMMA SingleLife ==
  ASSUME NEW s, NEW c \in ClientType, Single(s, c), NEW e, e = NewLife(c),
         NEW d, d.calls = e.calls, d.attached => c.attached
  PROVE  Single(s, d)
<1>1. /\ DOMAIN e.calls = DOMAIN c.calls
      /\ \A i \in DOMAIN c.calls :
           LET k == e.calls[i]
               l == c.calls[i] IN
           /\ SameRequest(k, l) /\ k.why = l.why /\ k.answer = l.answer
           /\ k.awaited = l.awaited /\ k.life = FALSE /\ k.gen = l.gen
  BY NewLifeFacts
<1>2. \A j \in DOMAIN c.calls : /\ d.calls[j].op = c.calls[j].op
                                /\ d.calls[j].answer = c.calls[j].answer
                                /\ d.calls[j].awaited => c.calls[j].awaited
  BY <1>1 DEF SameRequest
<1>3. QED
  BY <1>1, <1>2, SinglePassed

LEMMA SingleStop ==
  ASSUME NEW s, NEW c \in ClientType, Single(s, c), NEW why \in {"stop", "release"}, NEW n \in Nat,
         NEW d, d = StopCalled(c, why, n)
  PROVE  Att(s, d)
<1>1. PICK f : f = Quieted(c)
  OBVIOUS
<1>2. /\ f \in ClientType /\ f.calls = NewLife(c).calls /\ f.session = c.session
      /\ f.running = FALSE /\ (f.attached => c.attached)
  BY <1>1, QuietedFacts
<1>3. Single(s, f)
  BY <1>2, SingleLife
<1>4. CASE c.session = 0 /\ d = NewGeneration(f)
  BY <1>2, <1>3, <1>4, SingleMovedOn DEF Att
<1>5. CASE c.session # 0 /\ d = Put(f, "shutdown", c.session, why, n, TRUE)
  <2>1. PICK sid \in Nat : sid = c.session
    BY DEF ClientType
  <2>2. PICK yes \in BOOLEAN : yes = TRUE
    OBVIOUS
  <2>3. /\ d = Put(f, "shutdown", sid, why, n, yes) /\ why \in Whys
        /\ "shutdown" \in {"handshake", "health", "detach", "shutdown"}
    BY <1>5, <2>1, <2>2 DEF Whys
  <2>4. Single(s, d) /\ Same(d, f)
    BY <1>2, <1>3, <2>3, SingleSend
  <2>5. QED
    BY <1>2, <2>4 DEF Att, Same
<1>6. QED
  BY <1>1, <1>4, <1>5, StopCalledCases

LEMMA SingleReleased ==
  ASSUME SysCore, NEW s, Single(s, client), NEW n, NEW e, e = Released(n)
  PROVE  Att(s, e)
<1>1. client \in ClientType /\ ClientOk(client) /\ Link(client, StartsOut, StopsOut, LiveNow)
  BY CoreParts DEF Sound
<1>2. PICK d : d = Aborted(client, n)
  OBVIOUS
<1>3. d \in ClientType /\ Single(s, d)
  <2>1. \/ d = NewGeneration(Orphaned(client, n))
        \/ \E j \in DOMAIN client.calls : d = GiveUp(client, j)
        \/ d = client
    BY <1>1, <1>2, AbortedCases
  <2>2. CASE d = NewGeneration(Orphaned(client, n))
    <3>1. PICK f : f = Orphaned(client, n)
      OBVIOUS
    <3>2. f \in ClientType /\ Single(s, f)
      BY <1>1, <3>1, SingleOrphaned
    <3>3. QED
      BY <2>2, <3>1, <3>2, SingleMovedOn
  <2>3. CASE \E j \in DOMAIN client.calls : d = GiveUp(client, j)
    BY <1>1, <2>3, SingleGiveUp
  <2>4. QED
    BY <1>1, <2>1, <2>2, <2>3
<1>4. e = StopCalled(d, "release", 0) /\ "release" \in {"stop", "release"} /\ 0 \in Nat
  BY <1>2 DEF Released
<1>5. QED
  BY <1>3, <1>4, SingleStop

LEMMA SingleStart ==
  ASSUME NEW s, NEW c \in ClientType, Single(s, c), ~c.running, NEW n \in Nat, NEW d, d = StartCalled(c, n)
  PROVE  Att(s, d)
<1>1. PICK e : e = NewLife(c)
  OBVIOUS
<1>2. e \in ClientType /\ Same(e, c)
  BY <1>1, NewLifeFacts
<1>3. Single(s, e)
  BY <1>1, <1>2, SingleLife DEF Same
<1>4. PICK yes \in BOOLEAN : yes = TRUE
  OBVIOUS
<1>5. /\ d = Put(e, "handshake", 0, "start", n, yes) /\ "start" \in Whys /\ 0 \in Nat
      /\ "handshake" \in {"handshake", "health", "detach", "shutdown"}
  BY <1>1, <1>4 DEF StartCalled, Open, Whys
<1>6. Single(s, d) /\ Same(d, e)
  BY <1>2, <1>3, <1>5, SingleSend
<1>7. QED
  BY <1>2, <1>6 DEF Att, Same

LEMMA ControllerAtt ==
  ASSUME SysCore, NEW s, Att(s, client), Controller, faults' = 0
  PROVE  Att(s, client') /\ service' = service
<1>1. client \in ClientType /\ Single(s, client)
  BY CoreParts DEF Att
<1>2. PICK d : d = client'
  OBVIOUS
<1>3. ASSUME NEW c \in Clients, Ask(c) PROVE Att(s, client') /\ service' = service
  <2>1. (d = client \/ d = Released(operation)) /\ service' = service
    BY <1>2, <1>3 DEF Ask, LocalUnchanged
  <2>2. Att(s, d)
    BY <1>1, <2>1, SingleReleased
  <2>3. QED
    BY <1>2, <2>1, <2>2
<1>4. ASSUME NEW c \in Clients, CloseDown(c) PROVE Att(s, client') /\ service' = service
  <2>1. /\ service' = service
        /\ d = StopCalled(client, "release", 0) \/ d = Released(operation)
    BY <1>2, <1>4 DEF CloseDown, LocalUnchanged
  <2>2. "release" \in {"stop", "release"} /\ 0 \in Nat
    OBVIOUS
  <2>3. Att(s, d)
    BY <1>1, <2>1, <2>2, SingleReleased, SingleStop
  <2>4. QED
    BY <1>2, <2>1, <2>3
<1>5. ASSUME NEW n \in Begun, Invoke(n) PROVE Att(s, client') /\ service' = service
  <2>1. InvokeBackend(n) /\ service' = service
    BY <1>5 DEF Invoke, LocalUnchanged
  <2>2. ~disposed /\ (ops[n].kind = "start" => ~MayRun) /\ n \in Nat
    BY <2>1, CoreParts, InvokeOut
  <2>3. CASE ops[n].kind = "start"
    <3>1. d = StartCalled(client, n)
      BY <1>2, <1>5, <2>3 DEF Invoke
    <3>2. RunOk(client, state, MayRun)
      BY <2>2, CoreParts DEF RunInv
    <3>3. ~client.running
      BY <2>2, <2>3, <3>2 DEF RunOk
    <3>4. Att(s, d)
      BY <1>1, <2>2, <3>1, <3>3, SingleStart
    <3>5. QED
      BY <1>2, <2>1, <3>4
  <2>4. CASE ops[n].kind # "start"
    <3>1. d = StopCalled(client, "stop", n) /\ "stop" \in {"stop", "release"}
      BY <1>2, <1>5, <2>4 DEF Invoke
    <3>2. Att(s, d)
      BY <1>1, <2>2, <3>1, SingleStop
    <3>3. QED
      BY <1>2, <2>1, <3>2
  <2>5. QED
    BY <2>3, <2>4
<1>6. ASSUME NEW n \in Begun, TimeOut(n) PROVE FALSE
  BY <1>6, CoreParts DEF TimeOut, Fault
<1>7. ASSUME NEW n \in Begun, ReturnAtOnce(n) PROVE Att(s, client') /\ service' = service
  BY <1>7 DEF ReturnAtOnce, LocalUnchanged
<1>8. CASE Bookkeeping
  BY <1>8 DEF Bookkeeping, localVars
<1>9. QED
  BY <1>3, <1>4, <1>5, <1>6, <1>7, <1>8 DEF Controller

LEMMA LeaveAtt ==
  ASSUME SysCore, NEW s, Single(s, client), NEW d, d = LeaveInject(client)
  PROVE  d \in ClientType /\ Single(s, d) /\ d.session = client.session
<1> DEFINE described == {i \in DOMAIN client.calls : Injects(client.calls[i])}
<1>1. client \in ClientType
  BY CoreParts
<1>2. CASE described = {}
  BY <1>1, <1>2 DEF LeaveInject, Unawaited
<1>3. CASE described # {}
  <2>1. PICK j : j = CHOOSE i \in described : TRUE
    OBVIOUS
  <2>2. j \in DOMAIN client.calls
    BY <1>3, <2>1
  <2>3. d = GiveUp(client, j)
    BY <1>3, <2>1 DEF LeaveInject, Unawaited
  <2>4. QED
    BY <1>1, <2>2, <2>3, SingleGiveUp
<1>4. QED
  BY <1>2, <1>3

LEMMA AskedAtt ==
  ASSUME NEW s, NEW c \in ClientType, Att(s, c), NEW op \in {"health", "attach"}, NEW why \in Whys,
         op = "attach" => NoneAttaches(c) /\ ~c.attached,
         NEW d, d = IF c.session = 0 THEN Gone(c) ELSE Send(c, op, why, 0)
  PROVE  Att(s, d)
<1>1. CASE c.session = 0
  <2>1. Alike(d, c) /\ ~d.attached
    BY <1>1 DEF Gone, ClientType, Alike
  <2>2. Single(s, d) /\ d.session = 0
    BY <1>1, <2>1, SingleFields DEF Att, Alike
  <2>3. QED
    BY <2>2 DEF Att
<1>2. CASE c.session # 0
  <2>1. PICK sid \in Nat : sid = c.session
    BY DEF ClientType
  <2>2. PICK yes \in BOOLEAN : yes = TRUE
    OBVIOUS
  <2>3. PICK k : k = NewCall(op, sid, why, 0, yes)
    OBVIOUS
  <2>4. op \in {"handshake", "health", "attach", "detach", "shutdown"} /\ 0 \in Nat
    OBVIOUS
  <2>5. /\ k \in Calls /\ k.op = op /\ k.sid = sid /\ k.awaited = yes
        /\ k.gen /\ k.answer = Unanswered /\ ~IsAnswered(k)
    BY <2>3, <2>4, NewCallFacts
  <2>6. d = Appended(c, k)
    BY <1>2, <2>1, <2>2, <2>3 DEF Send, Put, NewCall, Appended
  <2>7. k.answer.id = 0 /\ (Attaching(k) => op = "attach") /\ ~LeftBehind(k, c.session)
    BY <2>2, <2>5 DEF Attaching, LeftBehind, Unanswered, Answer
  <2>8. Same(d, c)
    BY <2>5, <2>6, AppendFacts
  <2>9. Single(s, d)
    BY <2>5, <2>6, <2>7, SingleAppend DEF Att
  <2>10. Traced(s, c) => Traced(s, d)
    BY <2>5, <2>6, <2>7, TracedAppend
  <2>11. QED
    BY <2>8, <2>9, <2>10 DEF Att, Same
<1>3. QED
  BY <1>1, <1>2

LEMMA DetachAtt ==
  ASSUME NEW s, NEW c \in ClientType, Single(s, c), NEW d, d = SendDetach(c)
  PROVE  Att(s, d)
<1>1. d = Send(c, "detach", "nothing", 0) /\ "nothing" \in {"nothing", "repair"}
  BY DEF SendDetach
<1>2. /\ Same(d, c) /\ Single(s, d)
      /\ c.session # 0 => \A f : Alike(f, d) => Traced(s, f)
  BY <1>1, DetachSent
<1>3. Alike(d, d)
  BY DEF Alike
<1>4. QED
  BY <1>2, <1>3 DEF Att, Same

LEMMA TargetAtt ==
  ASSUME SysCore, NEW s, Att(s, client), Target, ~Fault
  PROVE  Att(s, client') /\ service' = service
<1>1. client \in ClientType /\ Single(s, client)
  BY CoreParts DEF Att
<1>2. PICK d : d = client'
  OBVIOUS
<1>3. service' = service
  BY DEF Target, Detect, Inject, CancelInject, InjectTimesOut, Disconnect, TargetFrame
<1>4. CASE Detect
  <2>1. PICK op \in {"health", "attach"}, why \in Whys :
          op = "health" /\ d = IF client.session = 0 THEN Gone(client) ELSE Send(client, op, why, 0)
    BY <1>2, <1>4 DEF Detect, AskTarget, Whys
  <2>2. Att(s, d)
    BY <1>1, <2>1, AskedAtt
  <2>3. QED
    BY <1>2, <1>3, <2>2
<1>5. CASE Inject
  <2>1. PICK op \in {"health", "attach"}, why \in Whys :
          d = IF client.session = 0 THEN Gone(client) ELSE Send(client, op, why, 0)
    BY <1>2, <1>5 DEF Inject, AskTarget, Whys
  <2>2. ~client.attached /\ ~Injecting
    BY <1>5 DEF Inject
  <2>3. NoneAttaches(client)
    <3>1. ASSUME NEW i \in DOMAIN client.calls, Attaching(client.calls[i]) PROVE FALSE
      <4>1. client.calls[i] \in Calls /\ Fits(client.calls[i])
        BY CallFacts DEF calls
      <4>2. client.calls[i].why = "inject"
        BY <3>1, <4>1 DEF Fits, Calls, Whys, Attaching
      <4>3. QED
        BY <2>2, <3>1, <4>2 DEF Injecting, Injects, Attaching, calls
    <3>2. QED
      BY <3>1 DEF NoneAttaches
  <2>4. Att(s, d)
    BY <1>1, <2>1, <2>2, <2>3, AskedAtt
  <2>5. QED
    BY <1>2, <1>3, <2>4
<1>6. CASE CancelInject
  <2>1. PICK left : left = LeaveInject(client)
    OBVIOUS
  <2>2. d = SendDetach(left)
    BY <1>2, <1>6, <2>1 DEF CancelInject
  <2>3. left \in ClientType /\ Single(s, left)
    BY <1>1, <2>1, LeaveAtt
  <2>4. Att(s, d)
    BY <2>2, <2>3, DetachAtt
  <2>5. QED
    BY <1>2, <1>3, <2>4
<1>7. CASE Disconnect
  <2>1. PICK f : f = LetGo(client)
    OBVIOUS
  <2>2. d = SendDetach(f)
    BY <1>2, <1>7, <2>1 DEF Disconnect
  <2>3. f \in ClientType /\ f.calls = client.calls /\ ~f.attached
    BY <1>1, <2>1 DEF LetGo, ClientType
  <2>4. Single(s, f)
    BY <1>1, <2>3, SingleFields
  <2>5. Att(s, d)
    BY <2>2, <2>3, <2>4, DetachAtt
  <2>6. QED
    BY <1>2, <1>3, <2>5
<1>8. ~InjectTimesOut
  BY DEF InjectTimesOut
<1>9. QED
  BY <1>4, <1>5, <1>6, <1>7, <1>8 DEF Target

LEMMA TimerAtt ==
  ASSUME SysCore, NEW s, Att(s, client), HealthTimer
  PROVE  Att(s, client') /\ service' = service
<1>1. service' = service /\ client \in ClientType
  BY CoreParts DEF HealthTimer
<1>2. PICK d : d = client' /\ d = HealthCheckCalled(client)
  BY DEF HealthTimer
<1>3. PICK due : due = [client EXCEPT !.timer = FALSE]
  OBVIOUS
<1>4. /\ due \in ClientType /\ Alike(due, client) /\ due.running = client.running
      /\ due.attached = client.attached
  BY <1>1, <1>3 DEF ClientType, Alike
<1>5. Single(s, due) /\ (Traced(s, client) => Traced(s, due))
  BY <1>4, SingleFields, TracedFields DEF Att, Alike
<1>6. \/ d = due
      \/ \E op \in {"handshake", "health", "detach", "shutdown"}, sid \in Nat, why \in Whys,
            n \in Nat, awaited \in BOOLEAN : d = Put(due, op, sid, why, n, awaited)
  <2>1. CASE ~client.running
    BY <1>2, <1>3, <2>1 DEF HealthCheckCalled
  <2>2. CASE client.running /\ client.session # 0
    <3>1. d = Put(due, "health", client.session, "check", 0, TRUE) /\ client.session \in Nat
      BY <1>1, <1>2, <1>3, <1>4, <2>2 DEF HealthCheckCalled, Send, Alike, ClientType
    <3>2. QED
      BY <3>1 DEF Whys
  <2>3. CASE client.running /\ client.session = 0
    <3>1. d = Put(due, "handshake", 0, "recover", 0, TRUE)
      BY <1>2, <1>3, <2>3 DEF HealthCheckCalled, Open
    <3>2. QED
      BY <3>1 DEF Whys
  <2>4. QED
    BY <2>1, <2>2, <2>3
<1>7. Single(s, d) /\ Same(d, due) /\ (Traced(s, due) => Traced(s, d))
  <2>1. CASE d = due
    BY <1>5, <2>1 DEF Same
  <2>2. CASE \E op \in {"handshake", "health", "detach", "shutdown"}, sid \in Nat, why \in Whys,
               n \in Nat, awaited \in BOOLEAN : d = Put(due, op, sid, why, n, awaited)
    <3>1. PICK op \in {"handshake", "health", "detach", "shutdown"}, sid \in Nat, why \in Whys,
               n \in Nat, awaited \in BOOLEAN : d = Put(due, op, sid, why, n, awaited)
      BY <2>2
    <3>2. QED
      BY <1>4, <1>5, <3>1, SingleSend
  <2>3. QED
    BY <1>6, <2>1, <2>2
<1>8. Att(s, d)
  BY <1>4, <1>5, <1>7 DEF Att, Same, Alike
<1>9. QED
  BY <1>1, <1>2, <1>8

LEMMA InitAtt == SysInit => AttInv
<1> SUFFICES ASSUME SysInit PROVE Att(service, client)
  BY DEF AttInv
<1>1. ~service.attached /\ ~client.running /\ DOMAIN client.calls = {}
  BY DEF SysInit, NoSession, FreshClient
<1>2. QED
  BY <1>1 DEF Att, Single

LEMMA AttStep == ASSUME SysCore, SessInv, AttInv, [SysNext]_sysVars PROVE AttInv'
<1> SUFFICES ASSUME NoFault', InOrder PROVE Att(service, client)'
  BY DEF AttInv
<1>1. NoFault /\ Sess(service.id, client) /\ Att(service, client) /\ faults' = 0 /\ faults = 0
  BY FaultsStay DEF SessInv, AttInv, NoFault
<1>2. ~Fault
  BY <1>1 DEF Fault
<1>3. PICK s : s = service
  OBVIOUS
<1>4. CASE Controller
  <2>1. Att(s, client') /\ service' = service
    BY <1>1, <1>3, <1>4, ControllerAtt
  <2>2. QED
    BY <1>3, <2>1
<1>5. CASE Bridge
  <2>1. PICK i \in DOMAIN calls : ServiceHandles(i) \/ Deliver(i)
    BY <1>2, <1>5 DEF Bridge, HandshakeRefused, RequestTimesOut, BridgeFails
  <2>2. CASE ServiceHandles(i)
    BY <1>1, <2>2, HandlesAtt
  <2>3. CASE Deliver(i)
    <3>1. PICK d : d = client'
      OBVIOUS
    <3>2. Att(s, d) /\ service' = service
      BY <1>1, <1>3, <2>3, <3>1, DeliverAtt DEF Deliver
    <3>3. QED
      BY <1>3, <3>1, <3>2
  <2>4. QED
    BY <2>1, <2>2, <2>3
<1>6. CASE HealthTimer
  <2>1. Att(s, client') /\ service' = service
    BY <1>1, <1>3, <1>6, TimerAtt
  <2>2. QED
    BY <1>3, <2>1
<1>7. CASE Target
  <2>1. Att(s, client') /\ service' = service
    BY <1>1, <1>2, <1>3, <1>7, TargetAtt
  <2>2. QED
    BY <1>3, <2>1
<1>8. CASE UNCHANGED sysVars
  BY <1>1, <1>8 DEF sysVars, localVars
<1>9. ~SessionEnds
  BY <1>2 DEF SessionEnds
<1>10. QED
  BY <1>4, <1>5, <1>6, <1>7, <1>8, <1>9 DEF SysNext

LEMMA AttInvariant == SysSpec => [](SysCore /\ SessInv /\ AttInv)
<1>1. SysInit => SysCore /\ SessInv /\ AttInv
  BY InitCore, InitSess, InitAtt
<1>2. (SysCore /\ SessInv /\ AttInv) /\ [SysNext]_sysVars => (SysCore /\ SessInv /\ AttInv)'
  BY SysStep, SessStep, AttStep
<1>3. QED
  BY <1>1, <1>2, PTL DEF SysSpec

LEMMA AttIsEnough == InOrder => (SysCore /\ SessInv /\ AttInv => AttachmentIsNovas)
<1> SUFFICES ASSUME InOrder, SysCore, SessInv, AttInv, Quiet, NoFault, service.attached
             PROVE  client.attached
  BY DEF AttachmentIsNovas
<1>1. Att(service, client) /\ DOMAIN client.calls = {}
  BY DEF AttInv, Quiet, calls
<1>2. service.id = client.session /\ (client.session # 0 => client.running)
  BY SessIsEnough DEF SessionsAgree
<1>3. Traced(service, client)
  BY <1>1, <1>2 DEF Att, Single
<1>4. ~Undone(client) /\ ~Arriving(client)
  BY <1>1 DEF Undone, Arriving
<1>5. QED
  BY <1>3, <1>4 DEF Traced

(* Without a fault, and with answers in the order of their requests, an    *)
(* attachment the service is left with is Nova's: no order of injections,  *)
(* cancellations, disconnections, health checks and restarts leaves one    *)
(* that nobody will ever undo.                                             *)
THEOREM AttachmentsAreNovas == InOrder => (SysSpec => []AttachmentIsNovas)
<1> SUFFICES ASSUME InOrder PROVE SysSpec => []AttachmentIsNovas
  OBVIOUS
<1>1. SysCore /\ SessInv /\ AttInv => AttachmentIsNovas
  BY AttIsEnough
<1>2. QED
  BY <1>1, AttInvariant, PTL

=============================================================================
