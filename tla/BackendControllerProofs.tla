---------------------- MODULE BackendControllerProofs ----------------------
(***************************************************************************)
(* Proofs about BackendController, for any set of clients and any bound on *)
(* the number of operations.                                               *)
(***************************************************************************)
EXTENDS BackendController, SequenceTheorems, TLAPS

USE MaxOpsAssumption

LEMMA InitInv == Init => LifecycleInv
<1> SUFFICES ASSUME Init PROVE LifecycleInv
  OBVIOUS
<1> USE DEF Init, Begun
<1>1. TypeOK
  <2>1. 1 .. 0 = {}
    OBVIOUS
  <2>2. ops \in [Begun -> Operation]
    <3>1. Begun = {}
      BY <2>1
    <3>2. QED
      BY <3>1
  <2>3. waiting \in [Clients -> Wait] /\ \A c \in Clients : waiting[c].on <= operationSeq
    BY DEF Wait, Nothing
  <2>4. operationSeq \in 0 .. MaxOps /\ operation \in 0 .. operationSeq
    OBVIOUS
  <2>5. QED
    BY <2>2, <2>3, <2>4 DEF TypeOK, States
<1>2. (\A n \in Begun : OperationInv(n)) /\ CurrentInv
  BY DEF CurrentInv, Busy
<1>3. BusyIsOwned /\ StateIsNewestOutcome /\ SnapshotAgrees
  BY DEF BusyIsOwned, StateIsNewestOutcome, SnapshotAgrees, Busy
<1>4. QED
  BY <1>1, <1>2, <1>3 DEF LifecycleInv

(* What Begin leaves: the old operations as they were, a fresh one on top. *)
LEMMA BeginFacts ==
  ASSUME TypeOK, NEW kind \in Kinds, Begin(kind)
  PROVE  /\ operationSeq \in Nat /\ operationSeq' = operationSeq + 1
         /\ operationSeq' \in 0 .. MaxOps
         /\ operation' = operationSeq'
         /\ Begun' = Begun \cup {operationSeq'}
         /\ operationSeq' \notin Begun
         /\ \A n \in Begun : ops'[n] = ops[n]
         /\ ops'[operationSeq'].kind = kind
         /\ ops'[operationSeq'].phase = "announcing"
         /\ ~ops'[operationSeq'].finishing
         /\ ~ops'[operationSeq'].settled
         /\ ops'[operationSeq'].timer
         /\ ops'[operationSeq'].result = "none"
         /\ ops'[operationSeq'].verdict = "none"
         /\ ops' \in [Begun' -> Operation]
<1>1. operationSeq \in Nat /\ operationSeq' = operationSeq + 1 /\ operationSeq' \in 0 .. MaxOps
  BY DEF TypeOK, Begin
<1>2. Begun' = 1 .. operationSeq + 1 /\ Begun' = Begun \cup {operationSeq'} /\ operationSeq' \notin Begun
  BY <1>1 DEF Begun
<1>3. \A n \in Begun : ops'[n] = ops[n]
  BY <1>1, <1>2 DEF Begin
<1>4. ops'[operationSeq'] =
        [kind |-> kind, phase |-> "announcing", finishing |-> FALSE, settled |-> FALSE,
         timer |-> TRUE, result |-> "none", verdict |-> "none"]
  BY <1>1, <1>2 DEF Begin
<1>5. ops'[operationSeq'] \in Operation
  BY <1>4 DEF Operation
<1>6. ops' = [n \in Begun' |-> ops'[n]]
  BY <1>1, <1>2 DEF Begin
<1>7. ops' \in [Begun' -> Operation]
  BY <1>2, <1>3, <1>5, <1>6 DEF TypeOK
<1>8. QED
  BY <1>1, <1>2, <1>3, <1>4, <1>7 DEF Begin

(* A client's await changes nothing but that client's record.              *)
LEMMA AwaitFacts ==
  ASSUME TypeOK, NEW c \in Clients, NEW on \in 0 .. operationSeq', operationSeq' \in 0 .. MaxOps,
         operationSeq <= operationSeq',
         NEW what \in {"nothing", "start", "stop", "restart", "shutdown"}, Await(c, what, on)
  PROVE  /\ waiting' \in [Clients -> Wait]
         /\ \A d \in Clients : waiting'[d].on <= operationSeq'
<1>1. [what |-> what, on |-> on] \in Wait
  BY DEF Wait, TypeOK
<1>2. waiting' \in [Clients -> Wait]
  BY <1>1 DEF Await, TypeOK
<1>3. ASSUME NEW d \in Clients PROVE waiting'[d].on <= operationSeq'
  <2>1. CASE d = c
    BY <2>1 DEF Await, TypeOK
  <2>2. CASE d # c
    <3>1. waiting'[d] = waiting[d] /\ waiting[d].on \in 0 .. MaxOps /\ waiting[d].on <= operationSeq
      BY <2>2 DEF Await, TypeOK, Wait
    <3>2. QED
      BY <3>1 DEF TypeOK
  <2>3. QED
    BY <2>1, <2>2
<1>4. QED
  BY <1>2, <1>3

LEMMA BeginStartInv ==
  ASSUME LifecycleInv, BeginStart, state \in Startable, ~disposed,
         disposed' = disposed, startupHandled' \in BOOLEAN,
         waiting' \in [Clients -> Wait], \A d \in Clients : waiting'[d].on <= operationSeq'
  PROVE  LifecycleInv'
<1>1. TypeOK
  BY DEF LifecycleInv
<1>2. Begin("start") /\ "start" \in Kinds
  BY DEF BeginStart, Kinds
<1>3. state' = "starting" /\ error' = FALSE /\ readySince' = readySince
  BY DEF BeginStart, MoveTo
<1>4. TypeOK'
  <2>1. state' \in States /\ error' \in BOOLEAN /\ readySince' \in BOOLEAN
    BY <1>1, <1>3 DEF TypeOK, States
  <2>2. operationSeq' \in 0 .. MaxOps /\ operation' \in 0 .. operationSeq' /\ ops' \in [Begun' -> Operation]
    BY <1>1, <1>2, BeginFacts
  <2>3. QED
    BY <1>1, <2>1, <2>2 DEF TypeOK
<1>5. ASSUME NEW n \in Begun' PROVE OperationInv(n)'
  <2>1. CASE n = operationSeq'
    BY <1>1, <1>2, <2>1, BeginFacts DEF OperationInv
  <2>2. CASE n # operationSeq'
    <3>1. n \in Begun /\ ops'[n] = ops[n]
      BY <1>1, <1>2, <2>2, BeginFacts
    <3>2. OperationInv(n) /\ CurrentInv
      BY <3>1 DEF LifecycleInv
    <3>3. ops[n].settled \/ ops[n].phase = "answered" \/ ops[n].finishing
      BY <3>1, <3>2, <1>1 DEF OperationInv, CurrentInv, BusyOf, Startable, TypeOK, Operation, Kinds, Begun
    <3>4. QED
      BY <3>1, <3>2, <3>3 DEF OperationInv
  <2>3. QED
    BY <2>1, <2>2
<1>6. CurrentInv'
  BY <1>1, <1>2, <1>3, BeginFacts DEF CurrentInv, BusyOf
<1>7. (BusyIsOwned /\ StateIsNewestOutcome)'
  BY <1>1, <1>2, <1>3, BeginFacts DEF BusyIsOwned, StateIsNewestOutcome, Busy
<1>8. SnapshotAgrees'
  BY <1>3 DEF LifecycleInv, SnapshotAgrees, Startable
<1>9. QED
  BY <1>4, <1>5, <1>6, <1>7, <1>8 DEF LifecycleInv

LEMMA BeginStopInv ==
  ASSUME LifecycleInv, BeginStop, state \in {"ready", "error"}, ~disposed,
         UNCHANGED <<startupHandled, disposed>>,
         waiting' \in [Clients -> Wait], \A d \in Clients : waiting'[d].on <= operationSeq'
  PROVE  LifecycleInv'
<1>1. TypeOK
  BY DEF LifecycleInv
<1>2. Begin("stop") /\ "stop" \in Kinds
  BY DEF BeginStop, Kinds
<1>3. state' = "stopping" /\ error' = error /\ readySince' = readySince
  BY DEF BeginStop, MoveTo
<1>4. TypeOK'
  <2>1. state' \in States /\ error' \in BOOLEAN /\ readySince' \in BOOLEAN
    BY <1>1, <1>3 DEF TypeOK, States
  <2>2. operationSeq' \in 0 .. MaxOps /\ operation' \in 0 .. operationSeq' /\ ops' \in [Begun' -> Operation]
    BY <1>1, <1>2, BeginFacts
  <2>3. QED
    BY <1>1, <2>1, <2>2 DEF TypeOK
<1>5. ASSUME NEW n \in Begun' PROVE OperationInv(n)'
  <2>1. CASE n = operationSeq'
    BY <1>1, <1>2, <2>1, BeginFacts DEF OperationInv
  <2>2. CASE n # operationSeq'
    <3>1. n \in Begun /\ ops'[n] = ops[n]
      BY <1>1, <1>2, <2>2, BeginFacts
    <3>2. OperationInv(n) /\ CurrentInv
      BY <3>1 DEF LifecycleInv
    <3>3. ops[n].settled \/ ops[n].phase = "answered" \/ ops[n].finishing
      BY <3>1, <3>2, <1>1 DEF OperationInv, CurrentInv, BusyOf, TypeOK, Operation, Kinds, Begun
    <3>4. QED
      BY <3>1, <3>2, <3>3 DEF OperationInv
  <2>3. QED
    BY <2>1, <2>2
<1>6. CurrentInv'
  BY <1>1, <1>2, <1>3, BeginFacts DEF CurrentInv, BusyOf
<1>7. (BusyIsOwned /\ StateIsNewestOutcome)'
  BY <1>1, <1>2, <1>3, BeginFacts DEF BusyIsOwned, StateIsNewestOutcome, Busy
<1>8. SnapshotAgrees'
  BY <1>3 DEF LifecycleInv, SnapshotAgrees
<1>9. QED
  BY <1>4, <1>5, <1>6, <1>7, <1>8 DEF LifecycleInv

(* A step that changes no more than who awaits what.                       *)
LEMMA WaitingInv ==
  ASSUME LifecycleInv, SnapshotUnchanged, OperationUnchanged, disposed' = disposed,
         startupHandled' \in BOOLEAN,
         waiting' \in [Clients -> Wait], \A d \in Clients : waiting'[d].on <= operationSeq'
  PROVE  LifecycleInv'
<1> USE DEF SnapshotUnchanged, OperationUnchanged, LifecycleInv
<1>1. Begun' = Begun
  BY DEF Begun
<1>2. TypeOK'
  BY <1>1 DEF TypeOK
<1>3. (\A n \in Begun : OperationInv(n))'
  BY <1>1 DEF OperationInv
<1>4. CurrentInv'
  BY DEF CurrentInv
<1>5. (BusyIsOwned /\ StateIsNewestOutcome /\ SnapshotAgrees)'
  BY DEF BusyIsOwned, StateIsNewestOutcome, SnapshotAgrees
<1>6. QED
  BY <1>2, <1>3, <1>4, <1>5

(* A step on the record of one operation.                                  *)
LEMMA OneOperation ==
  ASSUME TypeOK, NEW n \in Begun, NEW op \in Operation,
         ops' = [ops EXCEPT ![n] = op], operationSeq' = operationSeq
  PROVE  /\ Begun' = Begun
         /\ ops' \in [Begun' -> Operation]
         /\ ops'[n] = op
         /\ \A m \in Begun : m # n => ops'[m] = ops[m]
  BY DEF TypeOK, Begun

(* What resolving an operation and clearing its timeout makes of it.       *)
LEMMA ResolvedFacts ==
  ASSUME NEW op \in Operation, NEW r \in Results
  PROVE  /\ Resolve(op, r) \in Operation /\ Cleared(Resolve(op, r)) \in Operation
         /\ \A res \in {Resolve(op, r), Cleared(Resolve(op, r))} :
              /\ res.settled
              /\ res.kind = op.kind /\ res.phase = op.phase
              /\ res.finishing = op.finishing /\ res.verdict = op.verdict
              /\ res.result = IF op.settled THEN op.result ELSE r
  BY DEF Resolve, Cleared, Operation

(* Abandon settles the operation waited for and leaves the others alone.   *)
LEMMA AbandonFacts ==
  ASSUME TypeOK, Abandon
  PROVE  /\ operation' = 0 /\ operationSeq' = operationSeq
         /\ Begun' = Begun
         /\ ops' \in [Begun' -> Operation]
         /\ \A m \in Begun : m # operation => ops'[m] = ops[m]
         /\ operation # 0 =>
              /\ operation \in Begun
              /\ ops'[operation].settled
              /\ ops'[operation].kind = ops[operation].kind
              /\ ops'[operation].phase = ops[operation].phase
              /\ ops'[operation].finishing = ops[operation].finishing
              /\ ops'[operation].verdict = ops[operation].verdict
              /\ ops'[operation].result = IF ops[operation].settled
                                          THEN ops[operation].result ELSE "cancelled"
<1>1. CASE operation = 0
  BY <1>1 DEF Abandon, TypeOK, Begun
<1>2. CASE operation # 0
  <2> DEFINE op == Cleared(Resolve(ops[operation], "cancelled"))
  <2>1. operation \in Begun /\ ops[operation] \in Operation
    BY <1>2 DEF TypeOK, Begun
  <2>2. "cancelled" \in Results
    BY DEF Results
  <2>3. ops' = [ops EXCEPT ![operation] = op] /\ operationSeq' = operationSeq /\ operation' = 0
    BY <1>2 DEF Abandon
  <2>4. /\ op \in Operation
        /\ op.settled /\ op.kind = ops[operation].kind /\ op.phase = ops[operation].phase
        /\ op.finishing = ops[operation].finishing /\ op.verdict = ops[operation].verdict
        /\ op.result = IF ops[operation].settled THEN ops[operation].result ELSE "cancelled"
    BY <2>1, <2>2, ResolvedFacts
  <2> HIDE DEF op
  <2>5. QED
    BY <2>1, <2>3, <2>4, OneOperation
<1>3. QED
  BY <1>1, <1>2

LEMMA AbandonStartInv ==
  ASSUME LifecycleInv, Abandon, ~disposed, state = "starting",
         MoveTo("stopped", FALSE, FALSE),
         UNCHANGED <<startupHandled, disposed>>,
         waiting' \in [Clients -> Wait], \A d \in Clients : waiting'[d].on <= operationSeq'
  PROVE  LifecycleInv'
<1>1. TypeOK
  BY DEF LifecycleInv
<1>2. /\ operation = operationSeq /\ operation # 0 /\ operationSeq \in Nat
      /\ ~ops[operation].settled /\ ~ops[operation].finishing
      /\ operation \in Begun /\ ops[operation].phase \in {"announcing", "calling"}
  BY <1>1 DEF LifecycleInv, BusyIsOwned, CurrentInv, Busy, TypeOK, Begun
<1>3. state' = "stopped" /\ error' = FALSE /\ readySince' = FALSE
  BY DEF MoveTo
<1>4. TypeOK'
  <2>1. state' \in States /\ error' \in BOOLEAN /\ readySince' \in BOOLEAN
    BY <1>3 DEF States
  <2>2. operationSeq' \in 0 .. MaxOps /\ operation' \in 0 .. operationSeq' /\ ops' \in [Begun' -> Operation]
    BY <1>1, <1>2, AbandonFacts DEF TypeOK
  <2>3. QED
    BY <1>1, <2>1, <2>2 DEF TypeOK
<1>5. ASSUME NEW m \in Begun' PROVE OperationInv(m)'
  <2>1. m \in Begun /\ OperationInv(m)
    BY <1>1, AbandonFacts DEF LifecycleInv
  <2>2. CASE m = operation
    BY <1>1, <1>2, <2>1, <2>2, AbandonFacts DEF OperationInv
  <2>3. CASE m # operation
    BY <1>1, <1>2, <2>1, <2>3, AbandonFacts DEF OperationInv
  <2>4. QED
    BY <2>2, <2>3
<1>6. CurrentInv'
  BY <1>1, <1>2, <1>3, AbandonFacts DEF CurrentInv, Busy
<1>7. (BusyIsOwned /\ StateIsNewestOutcome)'
  BY <1>1, <1>2, <1>3, AbandonFacts DEF BusyIsOwned, StateIsNewestOutcome, Busy
<1>8. SnapshotAgrees'
  BY <1>3 DEF SnapshotAgrees
<1>9. QED
  BY <1>4, <1>5, <1>6, <1>7, <1>8 DEF LifecycleInv

LEMMA DisposeInv == ASSUME LifecycleInv, NEW c \in Clients, Dispose(c) PROVE LifecycleInv'
<1>1. TypeOK
  BY DEF LifecycleInv
<1>2. Abandon /\ disposed' = TRUE /\ HandlersRan /\ SnapshotUnchanged /\ startupHandled' = startupHandled
  BY DEF Dispose
<1>3. ASSUME NEW m \in Begun
      PROVE  ~ops[m].finishing /\ ops[m].phase \notin {"announcing", "answered"}
  BY <1>2 DEF HandlersRan, InSync, Sync
<1>4. waiting' \in [Clients -> Wait] /\ \A d \in Clients : waiting'[d].on <= operationSeq'
  BY <1>1, <1>2, AbandonFacts, AwaitFacts DEF Dispose, TypeOK
<1>5. TypeOK'
  <2>1. state' \in States /\ error' \in BOOLEAN /\ readySince' \in BOOLEAN
    BY <1>1, <1>2 DEF TypeOK, SnapshotUnchanged
  <2>2. operationSeq' \in 0 .. MaxOps /\ operation' \in 0 .. operationSeq' /\ ops' \in [Begun' -> Operation]
    BY <1>1, <1>2, AbandonFacts DEF TypeOK
  <2>3. QED
    BY <1>1, <1>2, <1>4, <2>1, <2>2 DEF TypeOK
<1>6. ASSUME NEW m \in Begun' PROVE OperationInv(m)' /\ ops'[m].settled
  <2>1. m \in Begun /\ OperationInv(m)
    BY <1>1, <1>2, AbandonFacts DEF LifecycleInv
  <2>2. CASE m = operation
    <3>1. /\ operation # 0 /\ ops'[m].settled /\ ops'[m].phase = ops[m].phase
          /\ ops'[m].finishing = ops[m].finishing /\ ops'[m].verdict = ops[m].verdict
          /\ ops'[m].result = IF ops[m].settled THEN ops[m].result ELSE "cancelled"
      BY <1>1, <1>2, <2>1, <2>2, AbandonFacts DEF Begun
    <3>2. QED
      BY <1>2, <1>3, <2>1, <3>1 DEF OperationInv
  <2>3. CASE m # operation
    BY <1>1, <1>2, <1>3, <2>1, <2>3, AbandonFacts DEF OperationInv
  <2>4. QED
    BY <2>2, <2>3
<1>7. CurrentInv'
  <2>1. operationSeq # 0 => operationSeq \in Begun'
    BY <1>1, <1>2, AbandonFacts DEF TypeOK, Begun
  <2>2. operationSeq' = operationSeq /\ operation' = 0 /\ state' = state
    BY <1>1, <1>2, AbandonFacts DEF SnapshotUnchanged
  <2>3. QED
    BY <1>2, <1>6, <2>1, <2>2 DEF CurrentInv, LifecycleInv
<1>8. (BusyIsOwned /\ StateIsNewestOutcome)'
  BY <1>2 DEF BusyIsOwned, StateIsNewestOutcome
<1>9. SnapshotAgrees'
  BY <1>2 DEF SnapshotAgrees, SnapshotUnchanged, LifecycleInv
<1>10. QED
  BY <1>5, <1>6, <1>7, <1>8, <1>9 DEF LifecycleInv

(* A step that changes the record of one operation, may retire it, and     *)
(* leaves the other operations, the callers and the flags alone.           *)
LEMMA OneOperationInv ==
  ASSUME LifecycleInv, NEW n \in Begun, NEW op \in Operation,
         ops' = [ops EXCEPT ![n] = op],
         operation' \in {operation, IF operation = n THEN 0 ELSE operation},
         UNCHANGED <<operationSeq, waiting, startupHandled, disposed>>,
         state' \in States, error' \in BOOLEAN, readySince' \in BOOLEAN
  PROVE  /\ TypeOK'
         /\ Begun' = Begun /\ ops'[n] = op
         /\ \A m \in Begun : m # n => ops'[m] = ops[m] /\ OperationInv(m)'
<1>1. TypeOK
  BY DEF LifecycleInv
<1>2. /\ Begun' = Begun /\ ops' \in [Begun' -> Operation]
      /\ ops'[n] = op
      /\ \A m \in Begun : m # n => ops'[m] = ops[m]
  BY <1>1, OneOperation
<1>3. TypeOK'
  <2>1. operation' \in 0 .. operationSeq'
    BY <1>1 DEF TypeOK
  <2>2. QED
    BY <1>1, <1>2, <2>1 DEF TypeOK
<1>4. ASSUME NEW m \in Begun, m # n PROVE OperationInv(m)'
  <2>1. OperationInv(m) /\ ops'[m] = ops[m]
    BY <1>2, <1>4 DEF LifecycleInv
  <2>2. m = operation => m = operation'
    BY <1>4
  <2>3. QED
    BY <2>1, <2>2 DEF OperationInv
<1>5. QED
  BY <1>2, <1>3, <1>4

LEMMA InvokeInv == ASSUME LifecycleInv, NEW n \in Begun, InvokeBackend(n) PROVE LifecycleInv'
<1> DEFINE op == [ops[n] EXCEPT !.phase = IF IsLive(n) THEN "calling" ELSE "over"]
<1>1. TypeOK /\ ops[n] \in Operation /\ OperationInv(n) /\ CurrentInv
  BY DEF LifecycleInv, TypeOK
<1>2. /\ op \in Operation /\ op.kind = ops[n].kind /\ op.finishing = ops[n].finishing
      /\ op.settled = ops[n].settled /\ op.timer = ops[n].timer
      /\ op.result = ops[n].result /\ op.verdict = ops[n].verdict
      /\ op.phase = IF IsLive(n) THEN "calling" ELSE "over"
  BY <1>1 DEF Operation
<1>3. /\ ops' = [ops EXCEPT ![n] = op] /\ ops[n].phase = "announcing" /\ ~disposed
      /\ UNCHANGED <<state, error, readySince, operation, operationSeq, waiting, startupHandled, disposed>>
  BY <1>1 DEF InvokeBackend, SnapshotUnchanged, OperationInv
<1> HIDE DEF op
<1>4. /\ TypeOK' /\ Begun' = Begun /\ ops'[n] = op
      /\ \A m \in Begun : m # n => ops'[m] = ops[m] /\ OperationInv(m)'
  BY <1>1, <1>2, <1>3, OneOperationInv DEF TypeOK
<1>5. ops[n].finishing = FALSE /\ (IsLive(n) <=> operation = n) /\ (~IsLive(n) => ops[n].settled)
  BY <1>1, <1>3 DEF OperationInv, CurrentInv, IsLive, Operation, TypeOK, Begun
<1>6. OperationInv(n)'
  BY <1>1, <1>2, <1>3, <1>4, <1>5 DEF OperationInv, IsLive
<1>7. CurrentInv'
  BY <1>1, <1>2, <1>3, <1>4, <1>5 DEF CurrentInv, TypeOK, Begun
<1>8. BusyIsOwned'
  BY <1>1, <1>2, <1>3, <1>4, <1>5 DEF BusyIsOwned, LifecycleInv, TypeOK, Begun, Busy
<1>9. StateIsNewestOutcome'
  BY <1>1, <1>2, <1>3, <1>4, <1>5 DEF StateIsNewestOutcome, LifecycleInv, TypeOK, Begun, Busy
<1>10. SnapshotAgrees'
  BY <1>3 DEF SnapshotAgrees, LifecycleInv
<1>11. QED
  BY <1>4, <1>6, <1>7, <1>8, <1>9, <1>10 DEF LifecycleInv

(* The record an answer leaves.                                            *)
LEMMA AnsweredFacts ==
  ASSUME TypeOK, NEW n \in Begun, NEW verdict \in Results, Answered(n, verdict)
  PROVE  \E op \in Operation :
           /\ ops' = [ops EXCEPT ![n] = op]
           /\ op.kind = ops[n].kind /\ op.finishing = ops[n].finishing
           /\ op.settled = ops[n].settled /\ op.timer = ops[n].timer
           /\ op.result = ops[n].result
           /\ op.phase = "answered" /\ op.verdict = verdict
<1> DEFINE op == [ops[n] EXCEPT !.phase = "answered", !.verdict = verdict]
<1>1. ops[n] \in Operation
  BY DEF TypeOK
<1>2. op \in Operation
  BY <1>1 DEF Operation
<1>3. ops' = [ops EXCEPT ![n] = op]
  BY <1>1 DEF Answered
<1>4. QED
  BY <1>1, <1>2, <1>3 DEF Operation

(* An answer the controller waits for, with the state it is shown as.      *)
LEMMA AnswerAppliedInv ==
  ASSUME LifecycleInv, NEW n \in Begun, NEW verdict \in Results,
         AnswerFrame(n), IsLive(n), Answered(n, verdict),
         \/ verdict = "started" /\ ops[n].kind = "start" /\ MoveTo("ready", FALSE, TRUE)
         \/ verdict \in {"cancelled", "stopped"} /\ MoveTo("stopped", FALSE, FALSE)
         \/ verdict = "failed" /\ MoveTo("error", TRUE, FALSE)
  PROVE  LifecycleInv'
<1>1. TypeOK /\ ops[n] \in Operation /\ OperationInv(n) /\ CurrentInv
  BY DEF LifecycleInv, TypeOK
<1>2. PICK op \in Operation :
           /\ ops' = [ops EXCEPT ![n] = op]
           /\ op.kind = ops[n].kind /\ op.finishing = ops[n].finishing
           /\ op.settled = ops[n].settled /\ op.timer = ops[n].timer
           /\ op.result = ops[n].result
           /\ op.phase = "answered" /\ op.verdict = verdict
  BY <1>1, AnsweredFacts
<1>3. /\ ops[n].phase = "calling" /\ ~disposed /\ ~ops[n].settled /\ ~ops[n].finishing
      /\ operation = n /\ n = operationSeq /\ n # 0
      /\ UNCHANGED <<operation, operationSeq, waiting, startupHandled, disposed>>
  BY <1>1 DEF AnswerFrame, IsLive, HandlersRan, InSync, Sync, CurrentInv, TypeOK, Begun
<1>4. /\ state' \in States /\ error' \in BOOLEAN /\ readySince' \in BOOLEAN
      /\ state' \notin Busy
  BY DEF MoveTo, States, Busy
<1>5. /\ TypeOK' /\ Begun' = Begun /\ ops'[n] = op
      /\ \A m \in Begun : m # n => ops'[m] = ops[m] /\ OperationInv(m)'
  BY <1>1, <1>2, <1>3, <1>4, OneOperationInv
<1>6. OperationInv(n)'
  BY <1>1, <1>2, <1>3, <1>5 DEF OperationInv, Results
<1>7. CurrentInv'
  BY <1>1, <1>2, <1>3, <1>4, <1>5 DEF CurrentInv
<1>8. (BusyIsOwned /\ SnapshotAgrees)'
  BY <1>4 DEF BusyIsOwned, SnapshotAgrees, MoveTo
<1>9. StateIsNewestOutcome'
  <2>1. /\ ops'[operationSeq'].settled = FALSE /\ ops'[operationSeq'].finishing = FALSE
        /\ ops'[operationSeq'].verdict = verdict /\ ops'[operationSeq'].kind = ops[n].kind
    BY <1>2, <1>3, <1>5 DEF Operation
  <2>2. QED
    BY <2>1 DEF StateIsNewestOutcome, MoveTo, Busy
<1>10. QED
  BY <1>5, <1>6, <1>7, <1>8, <1>9 DEF LifecycleInv

LEMMA AnswerInv == ASSUME LifecycleInv, NEW n \in Begun, BackendAnswers(n) PROVE LifecycleInv'
<1>1. TypeOK /\ ops[n] \in Operation /\ OperationInv(n) /\ CurrentInv
  BY DEF LifecycleInv, TypeOK
<1>2. ASSUME NEW outcome \in {"started", "cancelled", "failed"}, StartAnswered(n, outcome)
      PROVE  LifecycleInv'
  BY <1>2, AnswerAppliedInv DEF StartAnswered, Results
<1>3. ASSUME NEW outcome \in {"stopped", "failed"}, StopAnswered(n, outcome)
      PROVE  LifecycleInv'
  BY <1>3, AnswerAppliedInv DEF StopAnswered, Results
<1>4. ASSUME StartRejected(n) PROVE LifecycleInv'
  <2> DEFINE op == [ops[n] EXCEPT !.phase = "over", !.finishing = TRUE]
  <2>1. /\ op \in Operation /\ op.kind = ops[n].kind /\ op.finishing
        /\ op.settled = ops[n].settled /\ op.timer = ops[n].timer
        /\ op.result = ops[n].result /\ op.verdict = ops[n].verdict
        /\ op.phase = "over"
    BY <1>1 DEF Operation
  <2>2. ops' = [ops EXCEPT ![n] = op]
    BY <1>4, <1>1 DEF StartRejected
  <2> HIDE DEF op
  <2>3. /\ ~disposed /\ ~ops[n].settled /\ operation = n /\ n = operationSeq /\ n # 0
        /\ UNCHANGED <<operation, operationSeq, waiting, startupHandled, disposed>>
        /\ state' = "error" /\ error' = TRUE /\ readySince' = FALSE
    BY <1>1, <1>4 DEF StartRejected, AnswerFrame, IsLive, MoveTo, CurrentInv, TypeOK, Begun
  <2>4. state' \in States /\ error' \in BOOLEAN /\ readySince' \in BOOLEAN
    BY <2>3 DEF States
  <2>5. /\ TypeOK' /\ Begun' = Begun /\ ops'[n] = op
        /\ \A m \in Begun : m # n => ops'[m] = ops[m] /\ OperationInv(m)'
    BY <1>1, <2>1, <2>2, <2>3, <2>4, OneOperationInv
  <2>6. OperationInv(n)'
    BY <1>1, <2>1, <2>3, <2>5 DEF OperationInv
  <2>7. CurrentInv'
    BY <1>1, <2>1, <2>3, <2>5 DEF CurrentInv, Busy
  <2>8. (BusyIsOwned /\ SnapshotAgrees /\ StateIsNewestOutcome)'
    BY <2>1, <2>3, <2>5 DEF BusyIsOwned, SnapshotAgrees, StateIsNewestOutcome, Busy
  <2>9. QED
    BY <2>5, <2>6, <2>7, <2>8 DEF LifecycleInv
<1>5. ASSUME LateAnswer(n) PROVE LifecycleInv'
  <2>1. PICK op \in Operation :
           /\ ops' = [ops EXCEPT ![n] = op]
           /\ op.kind = ops[n].kind /\ op.finishing = ops[n].finishing
           /\ op.settled = ops[n].settled /\ op.timer = ops[n].timer
           /\ op.result = ops[n].result
           /\ op.phase = "answered" /\ op.verdict = "cancelled"
    BY <1>1, <1>5, AnsweredFacts DEF LateAnswer, Results
  <2>2. /\ ops[n].phase = "calling" /\ ops[n].settled /\ ~ops[n].finishing
        /\ operation # n
        /\ UNCHANGED <<operation, operationSeq, waiting, startupHandled, disposed>>
        /\ UNCHANGED <<state, error, readySince>>
    BY <1>1, <1>5 DEF LateAnswer, AnswerFrame, IsLive, HandlersRan, InSync, Sync, OperationInv,
                      CurrentInv, TypeOK, Begun, SnapshotUnchanged
  <2>3. /\ TypeOK' /\ Begun' = Begun /\ ops'[n] = op
        /\ \A m \in Begun : m # n => ops'[m] = ops[m] /\ OperationInv(m)'
    BY <1>1, <2>1, <2>2, OneOperationInv DEF TypeOK
  <2>4. OperationInv(n)'
    BY <1>1, <2>1, <2>2, <2>3 DEF OperationInv
  <2>5. operationSeq # 0 =>
          LET newest == ops'[operationSeq] IN
          /\ newest.settled = ops[operationSeq].settled
          /\ newest.kind = ops[operationSeq].kind
          /\ newest.timer = ops[operationSeq].timer
          /\ newest.finishing = ops[operationSeq].finishing
          /\ newest.result = ops[operationSeq].result
          /\ ~newest.settled => /\ newest.verdict = ops[operationSeq].verdict
                                 /\ newest.phase = ops[operationSeq].phase
    <3>1. operationSeq # 0 => operationSeq \in Begun
      BY <1>1 DEF TypeOK, Begun
    <3>2. CASE operationSeq = n
      BY <2>1, <2>2, <2>3, <3>2
    <3>3. CASE operationSeq # n
      BY <2>3, <3>1, <3>3
    <3>4. QED
      BY <3>2, <3>3
  <2>6. CurrentInv'
    BY <1>1, <2>2, <2>5 DEF CurrentInv, LifecycleInv
  <2>7. (BusyIsOwned /\ SnapshotAgrees)' /\ StateIsNewestOutcome'
    <3>1. (BusyIsOwned /\ SnapshotAgrees)'
      BY <2>2, <2>5 DEF LifecycleInv, BusyIsOwned, SnapshotAgrees
    <3>2. StateIsNewestOutcome'
      BY <2>2, <2>5 DEF LifecycleInv, StateIsNewestOutcome
    <3>3. QED
      BY <3>1, <3>2
  <2>8. QED
    BY <2>3, <2>4, <2>6, <2>7 DEF LifecycleInv
<1>6. QED
  BY <1>2, <1>3, <1>4, <1>5 DEF BackendAnswers

(* The settle handler of an operation that was resolved meanwhile: the     *)
(* body is over, everything the invariants look at is as it was.           *)
LEMMA SettledStaysInv ==
  ASSUME LifecycleInv, NEW n \in Begun, NEW op \in Operation,
         ops' = [ops EXCEPT ![n] = op],
         ops[n].settled, op.settled, ops[n].phase # "announcing",
         op.kind = ops[n].kind, op.result = ops[n].result, op.finishing = ops[n].finishing,
         op.phase # "announcing",
         op.phase = "calling" => op.verdict = "none" /\ ops[n].phase = "calling",
         op.phase = "answered" => op.verdict # "none",
         SnapshotUnchanged,
         UNCHANGED <<operation, operationSeq, waiting, startupHandled, disposed>>
  PROVE  LifecycleInv'
<1>1. TypeOK /\ ops[n] \in Operation /\ OperationInv(n) /\ CurrentInv
  BY DEF LifecycleInv, TypeOK
<1>2. /\ TypeOK' /\ Begun' = Begun /\ ops'[n] = op
      /\ \A m \in Begun : m # n => ops'[m] = ops[m] /\ OperationInv(m)'
  BY <1>1, OneOperationInv DEF TypeOK, SnapshotUnchanged
<1>3. OperationInv(n)'
  BY <1>1, <1>2 DEF OperationInv
<1>4. n # operation /\ (operationSeq # 0 => operationSeq \in Begun)
      /\ (operation # 0 => operation \in Begun)
  BY <1>1 DEF CurrentInv, TypeOK, Begun
<1>5. operation # 0 => ops'[operation] = ops[operation]
  BY <1>2, <1>4
<1>6. operationSeq # 0 =>
        LET newest == ops'[operationSeq] IN
        /\ newest.settled = ops[operationSeq].settled
        /\ newest.kind = ops[operationSeq].kind
        /\ newest.result = ops[operationSeq].result
        /\ newest.finishing = ops[operationSeq].finishing
        /\ ~newest.settled => newest.verdict = ops[operationSeq].verdict
  <2>1. CASE operationSeq = n
    BY <1>1, <1>2, <2>1 DEF Operation
  <2>2. CASE operationSeq # n
    BY <1>2, <1>4, <2>2
  <2>3. QED
    BY <2>1, <2>2
<1>7. CurrentInv'
  BY <1>1, <1>5, <1>6 DEF CurrentInv, SnapshotUnchanged
<1>8. (BusyIsOwned /\ SnapshotAgrees)'
  BY <1>5 DEF LifecycleInv, BusyIsOwned, SnapshotAgrees, SnapshotUnchanged
<1>9. StateIsNewestOutcome'
  BY <1>6 DEF LifecycleInv, StateIsNewestOutcome, SnapshotUnchanged
<1>10. QED
  BY <1>2, <1>3, <1>7, <1>8, <1>9 DEF LifecycleInv

(* Resolving the operation waited for with the outcome the state shows.    *)
LEMMA FinishInv ==
  ASSUME LifecycleInv, NEW n \in Begun, NEW op \in Operation, NEW r \in Results,
         ~ops[n].settled,
         r = IF ops[n].finishing THEN "failed" ELSE ops[n].verdict,
         ops[n].finishing \/ ops[n].phase = "answered",
         Finish(n, op, r), ~op.finishing, ~op.settled, op.kind = ops[n].kind,
         op.verdict = ops[n].verdict,
         op.phase \in {"over", ops[n].phase},
         SnapshotUnchanged,
         UNCHANGED <<operationSeq, waiting, startupHandled, disposed>>
  PROVE  LifecycleInv'
<1> DEFINE res == Cleared(Resolve(op, r))
<1>1. TypeOK /\ ops[n] \in Operation /\ OperationInv(n) /\ CurrentInv /\ n # 0
  BY DEF LifecycleInv, TypeOK, Begun
<1>2. /\ res \in Operation /\ res.settled /\ res.kind = op.kind /\ res.phase = op.phase
      /\ ~res.finishing /\ res.verdict = op.verdict /\ res.result = r
  BY ResolvedFacts
<1>3. /\ ops' = [ops EXCEPT ![n] = res]
      /\ operation' = IF operation = n THEN 0 ELSE operation
  BY DEF Finish
<1> HIDE DEF res
<1>4. /\ TypeOK' /\ Begun' = Begun /\ ops'[n] = res
      /\ \A m \in Begun : m # n => ops'[m] = ops[m] /\ OperationInv(m)'
  BY <1>1, <1>2, <1>3, OneOperationInv DEF TypeOK, SnapshotUnchanged
<1>5. r # "none" /\ ~disposed /\ ops[n].phase # "announcing"
  BY <1>1 DEF Results, OperationInv
<1>6. OperationInv(n)'
  BY <1>1, <1>2, <1>4, <1>5 DEF OperationInv
<1>7. CASE operation = n
  <2>1. n = operationSeq /\ operation' = 0
    BY <1>1, <1>3, <1>7 DEF CurrentInv
  <2>2. state \notin Busy
    BY <1>1, <1>5, <1>7, <2>1 DEF StateIsNewestOutcome, LifecycleInv, CurrentInv, Busy, OperationInv
  <2>3. (CurrentInv /\ BusyIsOwned /\ SnapshotAgrees)'
    BY <1>1, <1>2, <1>4, <2>1, <2>2
       DEF CurrentInv, BusyIsOwned, SnapshotAgrees, LifecycleInv, SnapshotUnchanged
  <2>4. StateIsNewestOutcome'
    BY <1>1, <1>2, <1>4, <1>5, <2>1 DEF StateIsNewestOutcome, LifecycleInv, SnapshotUnchanged
  <2>5. QED
    BY <1>4, <1>6, <2>3, <2>4 DEF LifecycleInv
<1>8. CASE operation # n
  <2>1. /\ n # operationSeq /\ operation' = operation
        /\ operationSeq # 0 => operationSeq \in Begun
        /\ operation # 0 => operation \in Begun
    BY <1>1, <1>3, <1>8 DEF CurrentInv, TypeOK, Begun
  <2>2. /\ operationSeq # 0 => ops'[operationSeq] = ops[operationSeq]
        /\ operation # 0 => ops'[operation] = ops[operation]
    BY <1>4, <1>8, <2>1
  <2>3. (CurrentInv /\ BusyIsOwned /\ SnapshotAgrees)'
    BY <1>1, <2>1, <2>2 DEF CurrentInv, BusyIsOwned, SnapshotAgrees, LifecycleInv, SnapshotUnchanged
  <2>4. StateIsNewestOutcome'
    BY <1>1, <2>1, <2>2 DEF StateIsNewestOutcome, LifecycleInv, SnapshotUnchanged
  <2>5. QED
    BY <1>4, <1>6, <2>3, <2>4 DEF LifecycleInv
<1>9. QED
  BY <1>7, <1>8

LEMMA SettleInv == ASSUME LifecycleInv, NEW n \in Begun, Settle(n) PROVE LifecycleInv'
<1> DEFINE over == [ops[n] EXCEPT !.phase = "over"]
<1>1. TypeOK /\ ops[n] \in Operation /\ OperationInv(n) /\ CurrentInv
  BY DEF LifecycleInv, TypeOK
<1>2. /\ over \in Operation /\ over.phase = "over" /\ over.kind = ops[n].kind
      /\ over.settled = ops[n].settled /\ over.finishing = ops[n].finishing
      /\ over.result = ops[n].result /\ over.verdict = ops[n].verdict
  BY <1>1 DEF Operation
<1>3. /\ ops[n].phase = "answered" /\ SnapshotUnchanged
      /\ UNCHANGED <<operationSeq, waiting, startupHandled, disposed>>
  BY DEF Settle
<1>4. ops[n].verdict \in Results /\ ~ops[n].finishing
  BY <1>1, <1>3 DEF OperationInv, Operation
<1> HIDE DEF over
<1>5. CASE ops[n].settled
  <2>1. ops' = [ops EXCEPT ![n] = over] /\ operation' = operation
    BY <1>5 DEF Settle, over
  <2>2. QED
    BY <1>2, <1>3, <1>5, <2>1, SettledStaysInv
<1>6. CASE ~ops[n].settled /\ operation # n
  (* Unreachable: an answer is applied only while its operation is waited  *)
  (* for, and whoever replaces an operation settles it.                    *)
  <2>1. ~disposed /\ ops' = [ops EXCEPT ![n] = Resolve(over, "cancelled")] /\ operation' = operation
    BY <1>1, <1>6 DEF Settle, over, OperationInv
  <2>2. /\ Resolve(over, "cancelled") \in Operation /\ Resolve(over, "cancelled").settled
        /\ Resolve(over, "cancelled").phase = "over" /\ ~Resolve(over, "cancelled").finishing
        /\ Resolve(over, "cancelled").result = "cancelled"
    BY <1>2, <1>4, <1>6, ResolvedFacts DEF Results
  <2>3. /\ TypeOK' /\ Begun' = Begun /\ ops'[n] = Resolve(over, "cancelled")
        /\ \A m \in Begun : m # n => ops'[m] = ops[m] /\ OperationInv(m)'
    BY <1>1, <1>3, <2>1, <2>2, OneOperationInv DEF TypeOK, SnapshotUnchanged
  <2>4. /\ n # operationSeq
        /\ operationSeq # 0 => operationSeq \in Begun
        /\ operation # 0 => operation \in Begun
    BY <1>1, <1>6 DEF CurrentInv, TypeOK, Begun
  <2>5. /\ operationSeq # 0 => ops'[operationSeq] = ops[operationSeq]
        /\ operation # 0 => ops'[operation] = ops[operation]
    BY <1>6, <2>3, <2>4
  <2>6. OperationInv(n)'
    BY <1>3, <2>1, <2>2, <2>3 DEF OperationInv
  <2>7. (CurrentInv /\ BusyIsOwned /\ SnapshotAgrees)'
    BY <1>1, <1>3, <2>1, <2>5 DEF CurrentInv, BusyIsOwned, SnapshotAgrees, LifecycleInv, SnapshotUnchanged
  <2>8. StateIsNewestOutcome'
    BY <1>1, <1>3, <2>1, <2>5 DEF StateIsNewestOutcome, LifecycleInv, SnapshotUnchanged
  <2>9. QED
    BY <2>3, <2>6, <2>7, <2>8 DEF LifecycleInv
<1>7. CASE ~ops[n].settled /\ operation = n
  <2>1. Finish(n, over, ops[n].verdict)
    BY <1>1, <1>7 DEF Settle, over, OperationInv
  <2>2. QED
    BY <1>2, <1>3, <1>4, <1>7, <2>1, FinishInv
<1>8. QED
  BY <1>5, <1>6, <1>7

LEMMA TimerInv == ASSUME LifecycleInv, NEW n \in Begun, TimerFires(n) PROVE LifecycleInv'
<1>1. TypeOK /\ ops[n] \in Operation /\ OperationInv(n) /\ CurrentInv
  BY DEF LifecycleInv, TypeOK
<1>2. /\ ops[n].phase \notin {"announcing", "answered"} /\ ~ops[n].finishing
      /\ UNCHANGED <<operation, operationSeq, waiting, startupHandled, disposed>>
  BY DEF TimerFires, Settled, HandlersRan, InSync, Sync
<1>3. CASE ops[n].settled
  <2> DEFINE op == [ops[n] EXCEPT !.timer = FALSE]
  <2>1. /\ op \in Operation /\ op.phase = ops[n].phase /\ op.kind = ops[n].kind
        /\ op.settled = ops[n].settled /\ op.finishing = ops[n].finishing
        /\ op.result = ops[n].result /\ op.verdict = ops[n].verdict
    BY <1>1 DEF Operation
  <2>2. ops' = [ops EXCEPT ![n] = op] /\ SnapshotUnchanged
    BY <1>1, <1>3 DEF TimerFires
  <2> HIDE DEF op
  <2>3. /\ op.phase # "announcing"
        /\ op.phase = "calling" => op.verdict = "none"
        /\ op.phase = "answered" => op.verdict # "none"
    BY <1>1, <1>2, <2>1 DEF OperationInv
  <2>4. QED
    BY <1>2, <1>3, <2>1, <2>2, <2>3, SettledStaysInv
<1>4. CASE ~ops[n].settled
  <2> DEFINE op == [ops[n] EXCEPT !.timer = FALSE, !.finishing = TRUE]
  <2>1. /\ op \in Operation /\ op.phase = ops[n].phase /\ op.kind = ops[n].kind
        /\ ~op.settled /\ op.finishing
        /\ op.result = ops[n].result /\ op.verdict = ops[n].verdict
    BY <1>1, <1>4 DEF Operation
  <2>2. ops' = [ops EXCEPT ![n] = op] /\ MoveTo("error", TRUE, FALSE)
    BY <1>1, <1>4 DEF TimerFires
  <2> HIDE DEF op
  <2>3. state' = "error" /\ error' = TRUE /\ readySince' = FALSE /\ state' \in States
    BY <2>2 DEF MoveTo, States
  <2>4. n = operation /\ n = operationSeq /\ n # 0 /\ ~disposed /\ ops[n].phase = "calling"
    BY <1>1, <1>2, <1>4 DEF OperationInv, CurrentInv, TypeOK, Begun, Operation
  <2>5. /\ TypeOK' /\ Begun' = Begun /\ ops'[n] = op
        /\ \A m \in Begun : m # n => ops'[m] = ops[m] /\ OperationInv(m)'
    BY <1>1, <1>2, <2>1, <2>2, <2>3, OneOperationInv
  <2>6. OperationInv(n)'
    BY <1>1, <1>2, <1>4, <2>1, <2>4, <2>5 DEF OperationInv
  <2>7. (CurrentInv /\ BusyIsOwned /\ SnapshotAgrees)'
    BY <1>2, <2>1, <2>3, <2>4, <2>5 DEF CurrentInv, BusyIsOwned, SnapshotAgrees, Busy
  <2>8. StateIsNewestOutcome'
    BY <1>2, <2>1, <2>3, <2>4, <2>5 DEF StateIsNewestOutcome, Busy
  <2>9. QED
    BY <2>5, <2>6, <2>7, <2>8 DEF LifecycleInv
<1>5. QED
  BY <1>3, <1>4

LEMMA FinishFailedInv == ASSUME LifecycleInv, NEW n \in Begun, FinishFailed(n) PROVE LifecycleInv'
<1> DEFINE op == [ops[n] EXCEPT !.finishing = FALSE]
<1>1. ops[n] \in Operation /\ OperationInv(n)
  BY DEF LifecycleInv, TypeOK
<1>2. /\ op \in Operation /\ op.phase = ops[n].phase /\ op.kind = ops[n].kind
      /\ op.settled = ops[n].settled /\ ~op.finishing /\ op.verdict = ops[n].verdict
  BY <1>1 DEF Operation
<1>3. /\ ops[n].finishing /\ Finish(n, op, "failed") /\ SnapshotUnchanged
      /\ UNCHANGED <<operationSeq, waiting, startupHandled, disposed>>
  BY DEF FinishFailed
<1> HIDE DEF op
<1>4. ~ops[n].settled /\ "failed" \in Results
  BY <1>1, <1>3 DEF OperationInv, Results
<1>5. QED
  BY <1>2, <1>3, <1>4, FinishInv

(* start() and stop(), whoever calls them.                                 *)
LEMMA StartForInv ==
  ASSUME LifecycleInv, NEW c \in Clients, StartFor(c), disposed' = disposed,
         startupHandled' \in BOOLEAN
  PROVE  LifecycleInv'
<1>1. TypeOK
  BY DEF LifecycleInv
<1>2. CASE StartAnswersAtOnce(c)
  <2>1. waiting' \in [Clients -> Wait] /\ \A d \in Clients : waiting'[d].on <= operationSeq'
    BY <1>1, <1>2, AwaitFacts DEF StartAnswersAtOnce, OperationUnchanged, TypeOK
  <2>2. QED
    BY <1>2, <2>1, WaitingInv DEF StartAnswersAtOnce
<1>3. CASE JoinStart(c)
  <2>1. operation \in 0 .. operationSeq' /\ operationSeq' = operationSeq /\ operationSeq \in 0 .. MaxOps
    BY <1>1, <1>3 DEF JoinStart, OperationUnchanged, TypeOK
  <2>2. waiting' \in [Clients -> Wait] /\ \A d \in Clients : waiting'[d].on <= operationSeq'
    BY <1>1, <1>3, <2>1, AwaitFacts DEF JoinStart
  <2>3. QED
    BY <1>3, <2>2, WaitingInv DEF JoinStart
<1>4. CASE StartBackend(c)
  <2>1. /\ operationSeq \in Nat /\ operationSeq' = operationSeq + 1
        /\ operationSeq' \in 0 .. MaxOps
    BY <1>1, <1>4, BeginFacts DEF StartBackend, BeginStart, Kinds
  <2>2. waiting' \in [Clients -> Wait] /\ \A d \in Clients : waiting'[d].on <= operationSeq'
    BY <1>1, <1>4, <2>1, AwaitFacts DEF StartBackend
  <2>3. QED
    BY <1>4, <2>2, BeginStartInv DEF StartBackend
<1>5. QED
  BY <1>2, <1>3, <1>4 DEF StartFor

LEMMA StopForInv ==
  ASSUME LifecycleInv, NEW c \in Clients, NEW what \in {"stop", "restart", "shutdown"},
         StopFor(c, what), UNCHANGED <<startupHandled, disposed>>
  PROVE  LifecycleInv'
<1> DEFINE after == IF what = "stop" THEN "nothing" ELSE what
<1>1. TypeOK /\ operationSeq \in 0 .. MaxOps /\ 0 \in 0 .. operationSeq
      /\ operation \in 0 .. operationSeq /\ startupHandled' \in BOOLEAN
      /\ operationSeq <= operationSeq
  BY DEF LifecycleInv, TypeOK
<1>2. /\ after \in {"nothing", "start", "stop", "restart", "shutdown"}
      /\ StopReturns(c, what) => Await(c, after, 0)
  BY DEF StopReturns
<1> HIDE DEF after
<1>3. CASE NothingToStop(c, what)
  <2>1. operationSeq' = operationSeq /\ Await(c, after, 0)
    BY <1>2, <1>3 DEF NothingToStop, OperationUnchanged
  <2>2. waiting' \in [Clients -> Wait] /\ \A d \in Clients : waiting'[d].on <= operationSeq'
    BY <1>1, <1>2, <2>1, AwaitFacts
  <2>3. QED
    BY <1>1, <1>3, <2>2, WaitingInv DEF NothingToStop
<1>4. CASE JoinStop(c, what)
  <2>1. operationSeq' = operationSeq /\ Await(c, what, operation)
    BY <1>4 DEF JoinStop, OperationUnchanged
  <2>2. waiting' \in [Clients -> Wait] /\ \A d \in Clients : waiting'[d].on <= operationSeq'
    BY <1>1, <2>1, AwaitFacts
  <2>3. QED
    BY <1>1, <1>4, <2>2, WaitingInv DEF JoinStop
<1>5. CASE AbandonStart(c, what)
  <2>1. operationSeq' = operationSeq /\ Await(c, after, 0)
    BY <1>2, <1>5 DEF AbandonStart, Abandon
  <2>2. waiting' \in [Clients -> Wait] /\ \A d \in Clients : waiting'[d].on <= operationSeq'
    BY <1>1, <1>2, <2>1, AwaitFacts
  <2>3. QED
    BY <1>5, <2>2, AbandonStartInv DEF AbandonStart
<1>6. CASE StopBackend(c, what)
  <2>1. /\ operationSeq \in Nat /\ operationSeq' = operationSeq + 1
        /\ operationSeq' \in 0 .. MaxOps
    BY <1>1, <1>6, BeginFacts DEF StopBackend, BeginStop, Kinds
  <2>2. waiting' \in [Clients -> Wait] /\ \A d \in Clients : waiting'[d].on <= operationSeq'
    BY <1>1, <1>6, <2>1, AwaitFacts DEF StopBackend
  <2>3. state \in {"ready", "error"}
    BY <1>6 DEF StopBackend, Stoppable
  <2>4. QED
    BY <1>6, <2>2, <2>3, BeginStopInv DEF StopBackend
<1>7. QED
  BY <1>3, <1>4, <1>5, <1>6 DEF StopFor

LEMMA ClientInv ==
  ASSUME LifecycleInv, NEW c \in Clients, Request(c) \/ Resume(c) PROVE LifecycleInv'
<1>1. TypeOK /\ startupHandled \in BOOLEAN
  BY DEF LifecycleInv, TypeOK
<1>2. CASE Start(c)
  BY <1>1, <1>2, StartForInv DEF Start
<1>3. CASE Stop(c)
  BY <1>3, StopForInv DEF Stop
<1>4. CASE Restart(c)
  BY <1>4, StopForInv DEF Restart
<1>5. CASE Startup(c)
  <2>1. disposed' = disposed /\ startupHandled' \in BOOLEAN
    BY <1>5 DEF Startup
  <2>2. CASE StartFor(c)
    BY <2>1, <2>2, StartForInv
  <2>3. CASE UNCHANGED <<state, error, readySince, operation, operationSeq, ops, waiting>>
    <3>1. waiting' \in [Clients -> Wait] /\ \A d \in Clients : waiting'[d].on <= operationSeq'
      BY <1>1, <2>3 DEF TypeOK
    <3>2. QED
      BY <2>1, <2>3, <3>1, WaitingInv DEF SnapshotUnchanged, OperationUnchanged
  <2>4. QED
    BY <1>5, <2>2, <2>3 DEF Startup
<1>6. CASE Shutdown(c)
  BY <1>6, StopForInv DEF Shutdown
<1>7. CASE ResumeCaller(c)
  <2>1. operationSeq' = operationSeq /\ Await(c, "nothing", 0) /\ operationSeq \in 0 .. MaxOps
    BY <1>1, <1>7 DEF ResumeCaller, OperationUnchanged, TypeOK
  <2>2. waiting' \in [Clients -> Wait] /\ \A d \in Clients : waiting'[d].on <= operationSeq'
    BY <1>1, <2>1, AwaitFacts
  <2>3. QED
    BY <1>1, <1>7, <2>2, WaitingInv DEF ResumeCaller
<1>8. CASE ResumeRestart(c)
  BY <1>1, <1>8, StartForInv DEF ResumeRestart
<1>9. CASE Dispose(c)
  BY <1>9, DisposeInv
<1>10. QED
  BY <1>2, <1>3, <1>4, <1>5, <1>6, <1>7, <1>8, <1>9 DEF Request, Resume

LEMMA StepInv == LifecycleInv /\ [Next]_vars => LifecycleInv'
<1> SUFFICES ASSUME LifecycleInv, [Next]_vars PROVE LifecycleInv'
  OBVIOUS
<1>1. ASSUME NEW c \in Clients, Request(c) \/ Resume(c) PROVE LifecycleInv'
  BY <1>1, ClientInv
<1>2. ASSUME NEW n \in Begun, Progress(n) PROVE LifecycleInv'
  BY <1>2, InvokeInv, SettleInv, TimerInv, FinishFailedInv DEF Progress
<1>3. ASSUME NEW n \in Begun, BackendAnswers(n) PROVE LifecycleInv'
  BY <1>3, AnswerInv
<1>4. CASE UNCHANGED vars
  <2>1. waiting' \in [Clients -> Wait] /\ \A d \in Clients : waiting'[d].on <= operationSeq'
    BY <1>4 DEF vars, LifecycleInv, TypeOK
  <2>2. startupHandled' \in BOOLEAN
    BY <1>4 DEF vars, LifecycleInv, TypeOK
  <2>3. QED
    BY <1>4, <2>1, <2>2, WaitingInv DEF vars, SnapshotUnchanged, OperationUnchanged
<1>5. QED
  BY <1>1, <1>2, <1>3, <1>4 DEF Next

(* The strengthened invariant holds in every reachable state, whatever the *)
(* clients ask, whenever the backend answers and however long it takes.    *)
THEOREM LifecycleInvariant == Spec => []LifecycleInv
<1>1. Init => LifecycleInv
  BY InitInv
<1>2. LifecycleInv /\ [Next]_vars => LifecycleInv'
  BY StepInv
<1>3. QED
  BY <1>1, <1>2, PTL DEF Spec

(* Every variable has its type in every reachable state.                   *)
THEOREM TypesHold == Spec => []TypeOK
<1>1. LifecycleInv => TypeOK
  BY DEF LifecycleInv
<1>2. QED
  BY <1>1, LifecycleInvariant, PTL

(* "starting" and "stopping" are always owned by a live, timed operation   *)
(* of that kind: neither can be a state the panel is stuck in.             *)
THEOREM BusyStatesAreOwned == Spec => []BusyIsOwned
<1>1. LifecycleInv => BusyIsOwned
  BY DEF LifecycleInv
<1>2. QED
  BY <1>1, LifecycleInvariant, PTL

(* Of the operations begun, at most one is still waited for.               *)
THEOREM OneOperationInFlight == Spec => []SingleFlight
<1>1. LifecycleInv => SingleFlight
  BY DEF LifecycleInv, SingleFlight, OperationInv
<1>2. QED
  BY <1>1, LifecycleInvariant, PTL

(* The state shown is the outcome of the newest operation: no late answer, *)
(* timeout or abandoned call of an older one shows through.                *)
THEOREM StateFollowsNewest == Spec => []StateIsNewestOutcome
<1>1. LifecycleInv => StateIsNewestOutcome
  BY DEF LifecycleInv
<1>2. QED
  BY <1>1, LifecycleInvariant, PTL

(* The failure and the readiness time shown agree with the state shown.    *)
THEOREM SnapshotIsConsistent == Spec => []SnapshotAgrees
<1>1. LifecycleInv => SnapshotAgrees
  BY DEF LifecycleInv
<1>2. QED
  BY <1>1, LifecycleInvariant, PTL

-----------------------------------------------------------------------------
(* What one step may do to the state and to the results.                   *)

LEMMA OnlyBusyAnswer ==
  ASSUME LifecycleInv, NEW n \in Begun, ~ops[n].settled, ops[n].phase = "calling",
         ~ops[n].finishing
  PROVE  state = BusyOf(ops[n].kind) /\ ~disposed
<1>1. OperationInv(n) /\ CurrentInv /\ n # 0
  BY DEF LifecycleInv, TypeOK, Begun
<1>2. QED
  BY <1>1 DEF OperationInv, CurrentInv

LEMMA LegalStep ==
  ASSUME LifecycleInv, Next, state' # state PROVE state' \in Transitions[state]
<1> USE DEF Transitions
<1>1. ASSUME NEW c \in Clients, StartFor(c) PROVE state' \in Transitions[state]
  BY <1>1 DEF StartFor, StartAnswersAtOnce, JoinStart, StartBackend, BeginStart, MoveTo,
              Startable, SnapshotUnchanged
<1>2. ASSUME NEW c \in Clients, NEW what \in {"stop", "restart", "shutdown"}, StopFor(c, what)
      PROVE  state' \in Transitions[state]
  BY <1>2 DEF StopFor, NothingToStop, JoinStop, AbandonStart, StopBackend, BeginStop, MoveTo,
              Stoppable, SnapshotUnchanged
<1>3. ASSUME NEW c \in Clients, Request(c) \/ Resume(c) PROVE state' \in Transitions[state]
  BY <1>1, <1>2, <1>3 DEF Request, Resume, Start, Stop, Restart, Startup, Shutdown, ResumeCaller,
                          ResumeRestart, Dispose, SnapshotUnchanged
<1>4. ASSUME NEW n \in Begun, ops[n].kind \in Kinds, ~ops[n].settled, ops[n].phase = "calling",
             ~ops[n].finishing, state' = "error"
      PROVE  state' \in Transitions[state]
  BY <1>4, OnlyBusyAnswer DEF BusyOf, Kinds
<1>5. ASSUME NEW n \in Begun PROVE OperationInv(n) /\ ops[n] \in Operation /\ ops[n].kind \in Kinds
  BY DEF LifecycleInv, TypeOK, Operation
<1>6. ASSUME NEW n \in Begun, Progress(n) PROVE state' \in Transitions[state]
  <2>1. TimerFires(n) /\ ~ops[n].settled /\ state' = "error"
    BY <1>6 DEF Progress, InvokeBackend, Settle, TimerFires, FinishFailed, SnapshotUnchanged, MoveTo
  <2>2. ops[n].phase = "calling" /\ ~ops[n].finishing
    BY <1>5, <2>1 DEF TimerFires, Settled, HandlersRan, InSync, Sync, OperationInv, LifecycleInv,
                      CurrentInv, Operation, TypeOK, Begun
  <2>3. QED
    BY <1>4, <1>5, <2>1, <2>2
<1>7. ASSUME NEW n \in Begun, BackendAnswers(n) PROVE state' \in Transitions[state]
  <2>1. IsLive(n) /\ ops[n].phase = "calling" /\ ~ops[n].finishing /\ ~ops[n].settled
    BY <1>7 DEF BackendAnswers, StartAnswered, StopAnswered, StartRejected, LateAnswer, AnswerFrame,
                HandlersRan, InSync, Sync, SnapshotUnchanged, IsLive
  <2>2. state = BusyOf(ops[n].kind)
    BY <2>1, OnlyBusyAnswer
  <2>3. QED
    BY <1>7, <2>1, <2>2 DEF BackendAnswers, StartAnswered, StopAnswered, StartRejected, LateAnswer,
                            MoveTo, BusyOf, SnapshotUnchanged
<1>8. QED
  BY <1>3, <1>6, <1>7 DEF Next

(* transitionBackend never throws: whatever the interleaving, every change *)
(* of the state is one the transition table allows.                        *)
THEOREM EveryTransitionIsLegal == Spec => TransitionsAreLegal
<1>1. LifecycleInv /\ [Next]_vars => [state' # state => state' \in Transitions[state]]_vars
  BY LegalStep DEF vars
<1>2. QED
  BY <1>1, LifecycleInvariant, PTL DEF Spec, TransitionsAreLegal

LEMMA FrozenStep ==
  ASSUME LifecycleInv, Next, disposed PROVE UNCHANGED <<state, error, readySince>>
<1> USE DEF SnapshotUnchanged
<1>1. ASSUME NEW c \in Clients, StartFor(c) PROVE UNCHANGED <<state, error, readySince>>
  BY <1>1 DEF StartFor, StartAnswersAtOnce, JoinStart, StartBackend
<1>2. ASSUME NEW c \in Clients, NEW what \in {"stop", "restart", "shutdown"}, StopFor(c, what)
      PROVE  UNCHANGED <<state, error, readySince>>
  BY <1>2 DEF StopFor, NothingToStop, JoinStop, AbandonStart, StopBackend
<1>3. ASSUME NEW c \in Clients, Request(c) \/ Resume(c) PROVE UNCHANGED <<state, error, readySince>>
  BY <1>1, <1>2, <1>3 DEF Request, Resume, Start, Stop, Restart, Startup, Shutdown, ResumeCaller,
                          ResumeRestart, Dispose
<1>4. ASSUME NEW n \in Begun, Progress(n) \/ BackendAnswers(n)
      PROVE  UNCHANGED <<state, error, readySince>>
  <2>1. ops[n].settled
    BY DEF LifecycleInv, OperationInv
  <2>2. QED
    BY <1>4, <2>1 DEF Progress, InvokeBackend, Settle, TimerFires, FinishFailed, BackendAnswers,
                      StartAnswered, StopAnswered, StartRejected, LateAnswer, IsLive
<1>5. QED
  BY <1>3, <1>4 DEF Next

(* After dispose() no answer and no timer moves the state.                 *)
THEOREM NothingMovesOnceDisposed == Spec => DisposedIsFrozen
<1>1. LifecycleInv /\ [Next]_vars => [disposed => UNCHANGED <<state, error, readySince>>]_vars
  BY FrozenStep DEF vars
<1>2. QED
  BY <1>1, LifecycleInvariant, PTL DEF Spec, DisposedIsFrozen

(* Who gets a result: the newest operation, or an older one whose failure  *)
(* was already on its way; anyone else is told it was cancelled.           *)
LEMMA ResultStep ==
  ASSUME LifecycleInv, Next, NEW n \in Begun, ops[n].result = "none",
         ops'[n].result \notin {"none", "cancelled"}
  PROVE  \/ n = operationSeq /\ operationSeq' = operationSeq /\ ~disposed' /\ ops'[n].settled
         \/ ops'[n].result = "failed" /\ operationSeq > n
<1>1. TypeOK /\ CurrentInv /\ OperationInv(n) /\ ops[n] \in Operation /\ ~ops[n].settled
      /\ ~disposed /\ n # 0 /\ (n = operation => n = operationSeq)
  BY DEF LifecycleInv, TypeOK, OperationInv, CurrentInv, Begun
<1>2. ops'[n] # ops[n]
  OBVIOUS
<1>3. ASSUME NEW c \in Clients, Request(c) \/ Resume(c) PROVE FALSE
  <2>1. CASE Abandon
    <3>1. ops'[n].result \in {ops[n].result, "cancelled"}
      BY <1>1, <2>1, AbandonFacts
    <3>2. QED
      BY <3>1
  <2>2. CASE \E kind \in Kinds : Begin(kind)
    BY <1>1, <1>2, <2>2, BeginFacts
  <2>3. CASE UNCHANGED ops
    BY <1>2, <2>3
  <2>4. ASSUME StartFor(c) PROVE UNCHANGED ops \/ \E kind \in Kinds : Begin(kind)
    BY <2>4 DEF StartFor, StartAnswersAtOnce, JoinStart, StartBackend, BeginStart,
                OperationUnchanged, Kinds
  <2>5. ASSUME NEW what \in {"stop", "restart", "shutdown"}, StopFor(c, what)
        PROVE  UNCHANGED ops \/ Abandon \/ \E kind \in Kinds : Begin(kind)
    BY <2>5 DEF StopFor, NothingToStop, JoinStop, AbandonStart, StopBackend, BeginStop,
                OperationUnchanged, Kinds
  <2>6. UNCHANGED ops \/ Abandon \/ \E kind \in Kinds : Begin(kind)
    BY <1>3, <2>4, <2>5 DEF Request, Resume, Start, Stop, Restart, Startup, Shutdown,
                            ResumeCaller, ResumeRestart, Dispose, OperationUnchanged
  <2>7. QED
    BY <2>1, <2>2, <2>3, <2>6
<1>4. ASSUME NEW m \in Begun, BackendAnswers(m) PROVE FALSE
  <2>1. ASSUME NEW verdict \in Results, Answered(m, verdict) PROVE FALSE
    <3>1. PICK op \in Operation : ops' = [ops EXCEPT ![m] = op] /\ op.result = ops[m].result
      BY <1>1, <2>1, AnsweredFacts
    <3>2. QED
      BY <1>1, <3>1 DEF TypeOK
  <2>2. CASE StartRejected(m)
    BY <1>1, <2>2 DEF StartRejected, TypeOK, Operation
  <2>3. QED
    BY <1>4, <2>1, <2>2 DEF BackendAnswers, StartAnswered, StopAnswered, LateAnswer, Results
<1>5. ASSUME NEW m \in Begun, Progress(m)
      PROVE  \/ n = operationSeq /\ operationSeq' = operationSeq /\ ~disposed' /\ ops'[n].settled
             \/ ops'[n].result = "failed" /\ operationSeq > n
  <2>1. m = n /\ (Settle(n) \/ FinishFailed(n))
    <3>1. ASSUME NEW op, ops' = [ops EXCEPT ![m] = op] PROVE m = n /\ op = ops'[n]
      BY <1>1, <1>2, <3>1 DEF TypeOK
    <3>2. m = n
      <4>1. CASE InvokeBackend(m)
        BY <3>1, <4>1 DEF InvokeBackend
      <4>2. CASE TimerFires(m)
        BY <3>1, <4>2, <1>1, <1>2 DEF TimerFires, TypeOK
      <4>3. CASE Settle(m)
        BY <3>1, <4>3 DEF Settle, Finish
      <4>4. CASE FinishFailed(m)
        BY <3>1, <4>4 DEF FinishFailed, Finish
      <4>5. QED
        BY <1>5, <4>1, <4>2, <4>3, <4>4 DEF Progress
    <3>3. ~InvokeBackend(n)
      BY <1>1 DEF InvokeBackend, TypeOK, Operation
    <3>4. ~TimerFires(n)
      <4>1. SUFFICES ASSUME TimerFires(n) PROVE FALSE
        OBVIOUS
      <4>2. ops' = [ops EXCEPT ![n].timer = FALSE, ![n].finishing = TRUE]
        BY <1>1, <4>1 DEF TimerFires
      <4>3. ops'[n] = [ops[n] EXCEPT !.timer = FALSE, !.finishing = TRUE]
        BY <1>1, <4>2 DEF TypeOK
      <4>4. ops'[n].result = ops[n].result
        BY <1>1, <4>3 DEF Operation
      <4>5. QED
        BY <4>4
    <3>5. QED
      BY <1>5, <3>2, <3>3, <3>4 DEF Progress
  <2>2. operationSeq' = operationSeq /\ disposed' = disposed
    BY <2>1 DEF Settle, FinishFailed
  <2>3. CASE Settle(n)
    <3> DEFINE over == [ops[n] EXCEPT !.phase = "over"]
    <3>1. over \in Operation /\ over.settled = ops[n].settled
      BY <1>1 DEF Operation
    <3>2. ASSUME operation # n PROVE FALSE
      <4>1. ops' = [ops EXCEPT ![n] = Resolve(over, "cancelled")]
        BY <1>1, <2>3, <3>2 DEF Settle
      <4>2. Resolve(over, "cancelled").result = "cancelled"
        BY <1>1, <3>1, ResolvedFacts DEF Results
      <4>3. QED
        BY <1>1, <4>1, <4>2 DEF TypeOK
    <3>3. ops' = [ops EXCEPT ![n] = Cleared(Resolve(over, ops[n].verdict))]
      <4>1. ~ops[n].settled /\ ~disposed /\ operation = n
        BY <1>1, <3>2
      <4>2. QED
        BY <2>3, <4>1 DEF Settle, Finish
    <3>4. ops[n].verdict \in Results
      BY <1>1, <2>3 DEF OperationInv, Operation, Settle
    <3>5. Cleared(Resolve(over, ops[n].verdict)).settled
      BY <3>1, <3>4, ResolvedFacts
    <3>6. QED
      BY <1>1, <2>2, <3>2, <3>3, <3>5 DEF TypeOK
  <2>4. CASE FinishFailed(n)
    <3> DEFINE op == [ops[n] EXCEPT !.finishing = FALSE]
    <3>1. op \in Operation /\ op.settled = ops[n].settled /\ "failed" \in Results
      BY <1>1 DEF Operation, Results
    <3>2. ops' = [ops EXCEPT ![n] = Cleared(Resolve(op, "failed"))]
      <4>1. Finish(n, op, "failed")
        BY <2>4 DEF FinishFailed
      <4> HIDE DEF op
      <4>2. QED
        BY <4>1 DEF Finish
    <3> HIDE DEF op
    <3>3. Cleared(Resolve(op, "failed")).settled /\ Cleared(Resolve(op, "failed")).result = "failed"
      BY <1>1, <3>1, ResolvedFacts
    <3>4. ops'[n].settled /\ ops'[n].result = "failed"
      BY <1>1, <3>2, <3>3 DEF TypeOK
    <3>5. n = operationSeq \/ operationSeq > n
      BY <1>1 DEF TypeOK, Begun
    <3>6. QED
      BY <1>1, <2>2, <3>4, <3>5
  <2>5. QED
    BY <2>1, <2>3, <2>4
<1>6. QED
  BY <1>3, <1>4, <1>5 DEF Next

LEMMA TruthfulStep ==
  ASSUME LifecycleInv, Next, NEW n \in Begun, ops[n].result = "none"
  PROVE  CASE ops'[n].result = "started" -> state' = "ready"
           [] ops'[n].result = "stopped" -> state' = "stopped"
           [] ops'[n].result = "failed"  -> state' = "error" \/ operationSeq > n
           [] OTHER                      -> TRUE
<1>1. CASE ops'[n].result \in {"none", "cancelled"}
  BY <1>1
<1>2. CASE ops'[n].result \notin {"none", "cancelled"}
  <2>1. LifecycleInv'
    BY StepInv DEF vars
  <2>2. CASE n = operationSeq /\ operationSeq' = operationSeq /\ ~disposed' /\ ops'[n].settled
    <3>1. operationSeq' # 0 /\ StateIsNewestOutcome' /\ state' \in States
      BY <2>1, <2>2 DEF LifecycleInv, TypeOK, Begun
    <3>2. QED
      BY <1>2, <2>2, <3>1 DEF StateIsNewestOutcome, States, Busy
  <2>3. CASE ops'[n].result = "failed" /\ operationSeq > n
    BY <2>3
  <2>4. QED
    BY <1>2, <2>2, <2>3, ResultStep
<1>3. QED
  BY <1>1, <1>2

(* A caller told "started" looks at a ready backend, one told "stopped" at *)
(* a stopped one, and one told "failed" at the error or at a newer         *)
(* operation.                                                              *)
THEOREM CallersAreToldTheTruth == Spec => ResultsAreTrue
<1> DEFINE Truthful ==
      \A n \in Begun : ops[n].result = "none" =>
        CASE ops'[n].result = "started" -> state' = "ready"
          [] ops'[n].result = "stopped" -> state' = "stopped"
          [] ops'[n].result = "failed"  -> state' = "error" \/ operationSeq > n
          [] OTHER                      -> TRUE
<1>1. LifecycleInv /\ [Next]_vars => [Truthful]_vars
  BY TruthfulStep DEF vars
<1>2. QED
  BY <1>1, LifecycleInvariant, PTL DEF Spec, ResultsAreTrue

-----------------------------------------------------------------------------
(* BackendController implements BackendLifecycle: under its mapping every  *)
(* step is a step of the abstract lifecycle or changes none of its         *)
(* variables.  A call that was abandoned may come back at any time, and    *)
(* then its operation has an outcome already (OperationInv), so that what  *)
(* it brings changes neither the outcome nor what its callers were told.   *)

Answers == Results \cup {"none"}

(* The abstract variables, as the mapping has them.                        *)
Outcomes == [n \in Begun |-> OutcomeOf(ops[n])]
Told     == [n \in Begun |-> ops[n].result]

(* A function on 1 .. k is a sequence of length k.                         *)
LEMMA FunctionIsSequence ==
  ASSUME NEW S, NEW k \in Nat, NEW f \in [1 .. k -> S]
  PROVE  f \in Seq(S) /\ Len(f) = k
  OBVIOUS

LEMMA OutcomeIsAnswer == ASSUME NEW op \in Operation PROVE OutcomeOf(op) \in Answers
  BY DEF OutcomeOf, Operation, Answers, Results

LEMMA MappedSequences ==
  /\ TypeOK => /\ Outcomes \in Seq(Answers) /\ Len(Outcomes) = operationSeq
               /\ Told \in Seq(Answers) /\ Len(Told) = operationSeq
  /\ TypeOK' => /\ Outcomes' \in Seq(Answers) /\ Len(Outcomes') = operationSeq'
                /\ Told' \in Seq(Answers) /\ Len(Told') = operationSeq'
<1>1. ASSUME NEW k \in Nat, NEW f \in [1 .. k -> Operation]
      PROVE  LET o == [n \in 1 .. k |-> OutcomeOf(f[n])]
                 t == [n \in 1 .. k |-> f[n].result]
             IN  /\ o \in Seq(Answers) /\ Len(o) = k
                 /\ t \in Seq(Answers) /\ Len(t) = k
  <2>1. [n \in 1 .. k |-> OutcomeOf(f[n])] \in [1 .. k -> Answers]
    BY OutcomeIsAnswer
  <2>2. [n \in 1 .. k |-> f[n].result] \in [1 .. k -> Answers]
    BY DEF Operation, Answers
  <2>3. QED
    BY <2>1, <2>2, FunctionIsSequence
<1>2. TypeOK => operationSeq \in Nat /\ ops \in [1 .. operationSeq -> Operation]
  BY DEF TypeOK, Begun
<1>3. TypeOK' => operationSeq' \in Nat /\ ops' \in [1 .. operationSeq' -> Operation]
  BY DEF TypeOK, Begun
<1>4. QED
  BY <1>1, <1>2, <1>3 DEF Outcomes, Told, Begun

-----------------------------------------------------------------------------
(* The four kinds of step, by what they do to the operations.              *)

(* Nothing the abstract lifecycle has: a stutter.                          *)
LEMMA Unseen ==
  ASSUME LifecycleInv, LifecycleInv', UNCHANGED <<state, disposed, operationSeq>>,
         \A m \in Begun : OutcomeOf(ops'[m]) = OutcomeOf(ops[m]) /\ ops'[m].result = ops[m].result
  PROVE  UNCHANGED Lifecycle!vars
<1>1. Begun' = Begun
  BY DEF Begun
<1>2. QED
  BY <1>1 DEF Lifecycle!vars

(* An operation begins.                                                    *)
LEMMA BeginStep ==
  ASSUME LifecycleInv, LifecycleInv', NEW kind \in Kinds, Begin(kind), ~disposed, UNCHANGED disposed,
         \/ kind = "start" /\ state \in Startable /\ state' = "starting"
         \/ kind = "stop" /\ state \in {"ready", "error"} /\ state' = "stopping"
  PROVE  Lifecycle!Begin
<1>1. /\ operationSeq \in Nat /\ operationSeq' = operationSeq + 1
      /\ Begun' = Begun \cup {operationSeq'} /\ operationSeq' \notin Begun
      /\ \A n \in Begun : ops'[n] = ops[n]
      /\ ~ops'[operationSeq'].finishing
      /\ ops'[operationSeq'].result = "none" /\ ops'[operationSeq'].verdict = "none"
  BY BeginFacts DEF LifecycleInv, TypeOK
<1>2. OutcomeOf(ops'[operationSeq']) = "none"
  BY <1>1 DEF OutcomeOf
<1>3. /\ Outcomes \in Seq(Answers) /\ Len(Outcomes) = operationSeq
      /\ Told \in Seq(Answers) /\ Len(Told) = operationSeq
      /\ Outcomes' \in Seq(Answers) /\ Len(Outcomes') = operationSeq'
      /\ Told' \in Seq(Answers) /\ Len(Told') = operationSeq'
  BY MappedSequences DEF LifecycleInv
<1>4. "none" \in Answers
  BY DEF Answers
<1>5. Outcomes' = Append(Outcomes, "none")
  <2>1. Append(Outcomes, "none") \in Seq(Answers) /\ Len(Append(Outcomes, "none")) = operationSeq'
    BY <1>1, <1>3, <1>4
  <2>2. \A i \in 1 .. operationSeq' : Outcomes'[i] = Append(Outcomes, "none")[i]
    BY <1>1, <1>2, <1>3, <1>4 DEF Outcomes, Begun
  <2>3. QED
    BY <1>3, <2>1, <2>2, SeqEqual
<1>6. Told' = Append(Told, "none")
  <2>1. Append(Told, "none") \in Seq(Answers) /\ Len(Append(Told, "none")) = operationSeq'
    BY <1>1, <1>3, <1>4
  <2>2. \A i \in 1 .. operationSeq' : Told'[i] = Append(Told, "none")[i]
    BY <1>1, <1>3, <1>4 DEF Told, Begun
  <2>3. QED
    BY <1>3, <2>1, <2>2, SeqEqual
<1>7. QED
  BY <1>5, <1>6 DEF Lifecycle!Begin, Outcomes, Told, Startable

(* Changing the entry of one operation.                                    *)
LEMMA OneEntryChanges ==
  ASSUME LifecycleInv, LifecycleInv', UNCHANGED operationSeq, NEW n \in Begun,
         \A m \in Begun : m # n => OutcomeOf(ops'[m]) = OutcomeOf(ops[m])
                                   /\ ops'[m].result = ops[m].result
  PROVE  /\ Outcomes' = [Outcomes EXCEPT ![n] = OutcomeOf(ops'[n])]
         /\ Told' = [Told EXCEPT ![n] = ops'[n].result]
         /\ Lifecycle!Last = operationSeq
<1>1. Begun' = Begun
  BY DEF Begun
<1>2. QED
  BY <1>1, MappedSequences DEF Outcomes, Told, Lifecycle!Last, LifecycleInv

(* The newest operation gets its outcome.                                  *)
LEMMA EndStep ==
  ASSUME LifecycleInv, LifecycleInv', ~disposed, UNCHANGED <<disposed, operationSeq>>,
         operationSeq # 0, state \in Busy,
         NEW outcome \in IF state = "starting" THEN {"started", "cancelled", "failed"}
                                               ELSE {"stopped", "failed"},
         state' = Lifecycle!ModeAfter(outcome),
         \A m \in Begun : m # operationSeq => OutcomeOf(ops'[m]) = OutcomeOf(ops[m])
                                              /\ ops'[m].result = ops[m].result,
         OutcomeOf(ops'[operationSeq]) = outcome,
         \/ ops'[operationSeq].result = ops[operationSeq].result
         \/ outcome = "cancelled" /\ ops'[operationSeq].result = "cancelled"
  PROVE  Lifecycle!End
<1>1. operationSeq \in Begun
  BY DEF LifecycleInv, TypeOK, Begun
<1>2. /\ Outcomes' = [Outcomes EXCEPT ![operationSeq] = outcome]
      /\ Told' = [Told EXCEPT ![operationSeq] = ops'[operationSeq].result]
      /\ Lifecycle!Last = operationSeq
  BY <1>1, OneEntryChanges
<1>3. \/ Told' = Told
      \/ outcome = "cancelled" /\ Told' = [Told EXCEPT ![operationSeq] = "cancelled"]
  BY <1>1, <1>2 DEF Told
<1>4. /\ state \in {"starting", "stopping"} /\ ~disposed /\ UNCHANGED disposed
      /\ state' = Lifecycle!ModeAfter(outcome)
      /\ Outcomes' = [Outcomes EXCEPT ![Lifecycle!Last] = outcome]
      /\ \/ UNCHANGED Told
         \/ outcome = "cancelled" /\ Told' = [Told EXCEPT ![Lifecycle!Last] = "cancelled"]
  BY <1>2, <1>3 DEF Busy
<1>5. QED
  BY <1>4, Zenon DEF Lifecycle!End, Outcomes, Told

(* The callers of an operation that has its outcome are told.              *)
LEMMA TellStep ==
  ASSUME LifecycleInv, LifecycleInv', UNCHANGED <<state, disposed, operationSeq>>,
         NEW n \in Begun, ops[n].result = "none", OutcomeOf(ops[n]) # "none",
         OutcomeOf(ops'[n]) = OutcomeOf(ops[n]),
         ops'[n].result \in {OutcomeOf(ops[n]), "cancelled"},
         \A m \in Begun : m # n => OutcomeOf(ops'[m]) = OutcomeOf(ops[m])
                                   /\ ops'[m].result = ops[m].result
  PROVE  Lifecycle!Tell
<1>1. /\ Outcomes' = Outcomes
      /\ Told' = [Told EXCEPT ![n] = ops'[n].result]
      /\ Lifecycle!Last = operationSeq
  BY OneEntryChanges DEF Outcomes, Begun
<1>2. Told[n] = "none" /\ Outcomes[n] = OutcomeOf(ops[n]) /\ n \in 1 .. operationSeq
  BY DEF Told, Outcomes, Begun
<1>3. QED
  BY <1>1, <1>2 DEF Lifecycle!Tell, Outcomes, Told

-----------------------------------------------------------------------------
(* The steps of the controller.                                            *)

LEMMA ShutdownStep ==
  ASSUME LifecycleInv, LifecycleInv', NEW c \in Clients, Dispose(c)
  PROVE  [Lifecycle!Next]_Lifecycle!vars
<1>1. /\ TypeOK /\ CurrentInv /\ state' = state /\ disposed' = TRUE
      /\ UNCHANGED operationSeq /\ Begun' = Begun /\ operation' = 0
      /\ \A m \in Begun : m # operation => ops'[m] = ops[m]
  BY AbandonFacts DEF LifecycleInv, Dispose, SnapshotUnchanged
<1>2. CASE operation = 0
  <2>1. \A m \in Begun : OutcomeOf(ops'[m]) = OutcomeOf(ops[m]) /\ ops'[m].result = ops[m].result
    BY <1>1, <1>2 DEF Begun, TypeOK
  <2>2. Outcomes' = Outcomes /\ Told' = Told
    BY <1>1, <2>1 DEF Outcomes, Told
  <2>3. CASE disposed
    BY <1>1, <2>1, <2>3, Unseen
  <2>4. CASE ~disposed
    <3>1. state \in Lifecycle!Rest
      BY <1>1, <1>2, <2>4 DEF CurrentInv, TypeOK, States, Busy, Lifecycle!Rest
    <3>2. QED
      BY <1>1, <2>2, <2>4, <3>1 DEF Lifecycle!Close, Lifecycle!Next, Outcomes, Told
  <2>5. QED
    BY <2>3, <2>4 DEF LifecycleInv, TypeOK
<1>3. CASE operation # 0
  <2>1. /\ operation = operationSeq /\ operation \in Begun /\ ~ops[operation].settled
        /\ OperationInv(operation) /\ ops[operation] \in Operation
    BY <1>1, <1>3 DEF CurrentInv, TypeOK, Begun, LifecycleInv
  <2>2. ~disposed /\ ops[operation].result = "none" /\ ~ops[operation].finishing
    BY <2>1 DEF OperationInv, Dispose, HandlersRan, InSync, Sync
  <2>3. /\ ops'[operation].result = "cancelled"
        /\ ops'[operation].verdict = ops[operation].verdict /\ ~ops'[operation].finishing
    BY <1>1, <1>3, <2>1, <2>2, AbandonFacts DEF Dispose
  <2>4. OutcomeOf(ops'[operation]) = IF OutcomeOf(ops[operation]) = "none" THEN "cancelled"
                                     ELSE OutcomeOf(ops[operation])
    BY <2>2, <2>3 DEF OutcomeOf
  <2>5. /\ Outcomes' = [Outcomes EXCEPT ![operation] = OutcomeOf(ops'[operation])]
        /\ Told' = [Told EXCEPT ![operation] = ops'[operation].result]
        /\ Lifecycle!Last = operation
    BY <1>1, <2>1, OneEntryChanges
  <2>6. Told[operation] = "none" /\ Outcomes[operation] = OutcomeOf(ops[operation])
    BY <2>1, <2>2 DEF Told, Outcomes
  <2>7. /\ ~disposed /\ disposed' = TRUE /\ state' = state
        /\ Lifecycle!Last # 0 /\ Told[Lifecycle!Last] = "none"
        /\ Told' = [Told EXCEPT ![Lifecycle!Last] = "cancelled"]
        /\ Outcomes' = [Outcomes EXCEPT ![Lifecycle!Last] = IF @ = "none" THEN "cancelled" ELSE @]
    BY <1>1, <1>3, <2>2, <2>3, <2>4, <2>5, <2>6
  <2>8. QED
    BY <2>7 DEF Lifecycle!Close, Lifecycle!Next, Outcomes, Told
<1>4. QED
  BY <1>2, <1>3

LEMMA StartStep ==
  ASSUME LifecycleInv, LifecycleInv', NEW c \in Clients, StartFor(c), UNCHANGED disposed
  PROVE  [Lifecycle!Next]_Lifecycle!vars
<1>1. CASE StartBackend(c)
  <2>1. Lifecycle!Begin
    BY <1>1, BeginStep DEF StartBackend, BeginStart, MoveTo, Kinds
  <2>2. QED
    BY <2>1 DEF Lifecycle!Next
<1>2. CASE StartAnswersAtOnce(c) \/ JoinStart(c)
  BY <1>2, Unseen DEF StartAnswersAtOnce, JoinStart, SnapshotUnchanged, OperationUnchanged
<1>3. QED
  BY <1>1, <1>2 DEF StartFor

LEMMA StopStep ==
  ASSUME LifecycleInv, LifecycleInv', NEW c \in Clients,
         NEW what \in {"stop", "restart", "shutdown"}, StopFor(c, what), UNCHANGED disposed
  PROVE  [Lifecycle!Next]_Lifecycle!vars
<1>1. CASE StopBackend(c, what)
  <2>1. Lifecycle!Begin
    BY <1>1, BeginStep DEF StopBackend, BeginStop, MoveTo, Kinds, Stoppable
  <2>2. QED
    BY <2>1 DEF Lifecycle!Next
<1>2. CASE AbandonStart(c, what)
  <2>1. /\ TypeOK /\ CurrentInv /\ ~disposed /\ state = "starting" /\ state' = "stopped"
        /\ operationSeq' = operationSeq /\ Abandon
        /\ operation = operationSeq /\ operation # 0 /\ ~ops[operation].settled
        /\ ops[operation].phase \in {"announcing", "calling"} /\ ~ops[operation].finishing
    BY <1>2 DEF LifecycleInv, AbandonStart, MoveTo, Abandon, BusyIsOwned, CurrentInv, Busy
  <2>2. /\ operation \in Begun /\ OperationInv(operation)
        /\ ops'[operation].result = "cancelled" /\ ~ops'[operation].finishing
        /\ ops'[operation].verdict = ops[operation].verdict
        /\ \A m \in Begun : m # operation => ops'[m] = ops[m]
    BY <2>1, AbandonFacts DEF LifecycleInv
  <2>3. OutcomeOf(ops'[operation]) = "cancelled"
    BY <2>1, <2>2 DEF OutcomeOf, OperationInv
  <2>4. state' = Lifecycle!ModeAfter("cancelled")
    BY <2>1 DEF Lifecycle!ModeAfter
  <2>5. Lifecycle!End
    BY <2>1, <2>2, <2>3, <2>4, EndStep DEF Busy
  <2>6. QED
    BY <2>5 DEF Lifecycle!Next
<1>3. CASE NothingToStop(c, what) \/ JoinStop(c, what)
  BY <1>3, Unseen DEF NothingToStop, JoinStop, SnapshotUnchanged, OperationUnchanged
<1>4. QED
  BY <1>1, <1>2, <1>3 DEF StopFor

LEMMA ClientStep ==
  ASSUME LifecycleInv, LifecycleInv', NEW c \in Clients, Request(c) \/ Resume(c)
  PROVE  [Lifecycle!Next]_Lifecycle!vars
<1>1. CASE ResumeCaller(c)
  BY <1>1, Unseen DEF ResumeCaller, SnapshotUnchanged, OperationUnchanged
<1>2. CASE Startup(c) /\ UNCHANGED <<state, operationSeq, ops>>
  BY <1>2, Unseen DEF Startup
<1>3. QED
  BY <1>1, <1>2, StartStep, StopStep, ShutdownStep
     DEF Request, Resume, Start, Stop, Restart, Startup, Shutdown, ResumeRestart

(* An answer applied, or a failure published, of the operation waited for. *)
LEMMA LiveEnds ==
  ASSUME LifecycleInv, LifecycleInv', NEW n \in Begun, NEW op \in Operation,
         ops[n].phase = "calling", ~ops[n].settled, ~ops[n].finishing,
         ops' = [ops EXCEPT ![n] = op], op.result = ops[n].result,
         NEW outcome \in IF ops[n].kind = "start" THEN {"started", "cancelled", "failed"}
                                                  ELSE {"stopped", "failed"},
         OutcomeOf(op) = outcome, state' = Lifecycle!ModeAfter(outcome),
         UNCHANGED <<operationSeq, disposed>>
  PROVE  Lifecycle!End
<1>1. TypeOK /\ OperationInv(n) /\ CurrentInv /\ ops[n].kind \in Kinds /\ n # 0
  BY DEF LifecycleInv, TypeOK, Operation, Begun
<1>2. n = operationSeq /\ operationSeq # 0 /\ ~disposed /\ state = BusyOf(ops[n].kind)
  BY <1>1, OnlyBusyAnswer DEF OperationInv, CurrentInv
<1>3. ops'[n] = op /\ \A m \in Begun : m # n => ops'[m] = ops[m]
  BY <1>1 DEF TypeOK
<1>4. state \in Busy /\ (state = "starting" <=> ops[n].kind = "start")
  BY <1>1, <1>2 DEF BusyOf, Busy, Kinds
<1>5. QED
  BY <1>2, <1>3, <1>4, EndStep

LEMMA AnswerStep ==
  ASSUME LifecycleInv, LifecycleInv', NEW n \in Begun, BackendAnswers(n)
  PROVE  [Lifecycle!Next]_Lifecycle!vars
<1>1. /\ TypeOK /\ OperationInv(n) /\ CurrentInv /\ ops[n] \in Operation
      /\ ops[n].phase = "calling" /\ ~ops[n].finishing
      /\ ops[n].verdict = "none" /\ UNCHANGED <<operationSeq, disposed>>
  BY DEF LifecycleInv, TypeOK, BackendAnswers, StartAnswered, StopAnswered, StartRejected, LateAnswer,
         AnswerFrame, HandlersRan, InSync, Sync, OperationInv
<1>2. ASSUME NEW outcome \in Results, IsLive(n), Answered(n, outcome),
             outcome \in IF ops[n].kind = "start" THEN {"started", "cancelled", "failed"}
                                                  ELSE {"stopped", "failed"},
             state' = Lifecycle!ModeAfter(outcome)
      PROVE  Lifecycle!End
  <2>1. PICK op \in Operation :
          /\ ops' = [ops EXCEPT ![n] = op] /\ op.finishing = ops[n].finishing
          /\ op.result = ops[n].result /\ op.verdict = outcome
    BY <1>1, <1>2, AnsweredFacts
  <2>2. ~ops[n].settled /\ ops[n].result = "none"
    BY <1>1, <1>2 DEF IsLive, OperationInv
  <2>3. OutcomeOf(op) = outcome
    BY <1>1, <2>1, <2>2 DEF OutcomeOf, Results
  <2>4. QED
    BY <1>1, <1>2, <2>1, <2>2, <2>3, LiveEnds
<1>3. ASSUME NEW outcome \in {"started", "cancelled", "failed"}, StartAnswered(n, outcome)
      PROVE  Lifecycle!End
  BY <1>2, <1>3 DEF StartAnswered, MoveTo, Lifecycle!ModeAfter, Results
<1>4. ASSUME NEW outcome \in {"stopped", "failed"}, StopAnswered(n, outcome)
      PROVE  Lifecycle!End
  <2>1. ops[n].kind # "start"
    BY <1>4 DEF StopAnswered
  <2>2. QED
    BY <1>2, <1>4, <2>1 DEF StopAnswered, MoveTo, Lifecycle!ModeAfter, Results
<1>5. ASSUME StartRejected(n) PROVE Lifecycle!End
  <2> DEFINE op == [ops[n] EXCEPT !.phase = "over", !.finishing = TRUE]
  <2>1. op \in Operation /\ op.finishing /\ op.result = ops[n].result
    BY <1>1 DEF Operation
  <2>2. ops' = [ops EXCEPT ![n] = op]
    BY <1>5 DEF StartRejected
  <2> HIDE DEF op
  <2>3. OutcomeOf(op) = "failed" /\ state' = Lifecycle!ModeAfter("failed")
    BY <1>5, <2>1 DEF OutcomeOf, StartRejected, MoveTo, Lifecycle!ModeAfter
  <2>4. ~ops[n].settled
    BY <1>5 DEF StartRejected, IsLive
  <2>5. "failed" \in IF ops[n].kind = "start" THEN {"started", "cancelled", "failed"}
                                               ELSE {"stopped", "failed"}
    OBVIOUS
  <2>6. QED
    BY <1>1, <2>1, <2>2, <2>3, <2>4, <2>5, LiveEnds
<1>6. ASSUME LateAnswer(n) PROVE UNCHANGED Lifecycle!vars
  <2>1. PICK op \in Operation :
          /\ ops' = [ops EXCEPT ![n] = op] /\ op.finishing = ops[n].finishing
          /\ op.result = ops[n].result /\ op.verdict = "cancelled"
    BY <1>1, <1>6, AnsweredFacts DEF LateAnswer, Results
  <2>2. ops[n].settled
    BY <1>1, <1>6 DEF LateAnswer, IsLive, OperationInv
  <2>3. ops[n].result \in {"cancelled", "failed"}
    BY <1>1, <2>2 DEF OperationInv
  <2>4. OutcomeOf(op) = OutcomeOf(ops[n])
    BY <1>1, <2>1, <2>3 DEF OutcomeOf
  <2>5. \A m \in Begun : OutcomeOf(ops'[m]) = OutcomeOf(ops[m]) /\ ops'[m].result = ops[m].result
    BY <1>1, <2>1, <2>4 DEF TypeOK
  <2>6. QED
    BY <1>1, <1>6, <2>5, Unseen DEF LateAnswer, SnapshotUnchanged
<1>7. QED
  BY <1>3, <1>4, <1>5, <1>6 DEF BackendAnswers, Lifecycle!Next

(* Of one operation only its body's place or its timer changed.            *)
LEMMA SameOutcome ==
  ASSUME LifecycleInv, LifecycleInv', NEW n \in Begun, NEW op \in Operation,
         ops' = [ops EXCEPT ![n] = op], OutcomeOf(op) = OutcomeOf(ops[n]), op.result = ops[n].result,
         UNCHANGED <<state, operationSeq, disposed>>
  PROVE  UNCHANGED Lifecycle!vars
<1>1. \A m \in Begun : OutcomeOf(ops'[m]) = OutcomeOf(ops[m]) /\ ops'[m].result = ops[m].result
  BY DEF LifecycleInv, TypeOK
<1>2. QED
  BY <1>1, Unseen

(* The callers of operation n are told, by finish() or the settle handler. *)
LEMMA Resolution ==
  ASSUME LifecycleInv, LifecycleInv', NEW n \in Begun, NEW op \in Operation, NEW r \in Results,
         NEW res \in {Resolve(op, r), Cleared(Resolve(op, r))}, ops' = [ops EXCEPT ![n] = res],
         ~ops[n].settled, ~op.settled, op.verdict = ops[n].verdict,
         OutcomeOf(ops[n]) # "none", ops[n].finishing => r = "failed",
         ~ops[n].finishing => ~op.finishing,
         r = OutcomeOf(ops[n]) \/ (r = "cancelled" /\ ops[n].verdict # "none" /\ ~ops[n].finishing),
         UNCHANGED <<state, operationSeq, disposed>>
  PROVE  Lifecycle!Tell
<1>1. TypeOK /\ OperationInv(n) /\ ops[n] \in Operation
  BY DEF LifecycleInv, TypeOK
<1>2. res \in Operation /\ res.result = r /\ res.verdict = ops[n].verdict /\ res.finishing = op.finishing
  BY ResolvedFacts
<1>3. ops'[n] = res /\ \A m \in Begun : m # n => ops'[m] = ops[m]
  BY <1>1 DEF TypeOK
<1>4. ops[n].result = "none"
  BY <1>1 DEF OperationInv
<1>5. OutcomeOf(ops'[n]) = OutcomeOf(ops[n])
  BY <1>2, <1>3, <1>4 DEF OutcomeOf
<1>6. ops'[n].result \in {OutcomeOf(ops[n]), "cancelled"}
  BY <1>2, <1>3
<1>7. QED
  BY <1>3, <1>4, <1>5, <1>6, TellStep

LEMMA SettleStep ==
  ASSUME LifecycleInv, LifecycleInv', NEW n \in Begun, Settle(n)
  PROVE  [Lifecycle!Next]_Lifecycle!vars
<1> DEFINE over == [ops[n] EXCEPT !.phase = "over"]
<1>1. /\ TypeOK /\ OperationInv(n) /\ ops[n] \in Operation /\ ops[n].phase = "answered"
      /\ ~ops[n].finishing /\ ops[n].verdict # "none" /\ ops[n].verdict \in Results
      /\ UNCHANGED <<state, operationSeq, disposed>>
  BY DEF LifecycleInv, TypeOK, Settle, OperationInv, InSync, Sync, SnapshotUnchanged, Operation
<1>2. /\ over \in Operation /\ over.result = ops[n].result /\ over.verdict = ops[n].verdict
      /\ over.finishing = ops[n].finishing /\ over.settled = ops[n].settled
  BY <1>1 DEF Operation
<1>3. \/ ops' = [ops EXCEPT ![n] = over]
      \/ ~ops[n].settled /\ ops' = [ops EXCEPT ![n] = Resolve(over, "cancelled")]
      \/ ~ops[n].settled /\ ops' = [ops EXCEPT ![n] = Cleared(Resolve(over, ops[n].verdict))]
  BY DEF Settle, Finish
<1> HIDE DEF over
<1>4. OutcomeOf(over) = OutcomeOf(ops[n])
  BY <1>2 DEF OutcomeOf
<1>5. ~ops[n].settled => OutcomeOf(ops[n]) = ops[n].verdict
  BY <1>1 DEF OutcomeOf, OperationInv
<1>6. "cancelled" \in Results
  BY DEF Results
<1>7. CASE ops' = [ops EXCEPT ![n] = over]
  BY <1>1, <1>2, <1>4, <1>7, SameOutcome
<1>8. CASE ~ops[n].settled /\ ops' = [ops EXCEPT ![n] = Resolve(over, "cancelled")]
  <2>1. Lifecycle!Tell
    BY <1>1, <1>2, <1>5, <1>6, <1>8, Resolution
  <2>2. QED
    BY <2>1 DEF Lifecycle!Next
<1>9. CASE ~ops[n].settled /\ ops' = [ops EXCEPT ![n] = Cleared(Resolve(over, ops[n].verdict))]
  <2>1. Lifecycle!Tell
    BY <1>1, <1>2, <1>5, <1>9, Resolution
  <2>2. QED
    BY <2>1 DEF Lifecycle!Next
<1>10. QED
  BY <1>3, <1>7, <1>8, <1>9

LEMMA ProgressStep ==
  ASSUME LifecycleInv, LifecycleInv', NEW n \in Begun, Progress(n)
  PROVE  [Lifecycle!Next]_Lifecycle!vars
<1>1. TypeOK /\ OperationInv(n) /\ ops[n] \in Operation /\ UNCHANGED <<operationSeq, disposed>>
  BY DEF LifecycleInv, TypeOK, Progress, InvokeBackend, Settle, TimerFires, FinishFailed
<1>2. CASE InvokeBackend(n)
  <2> DEFINE op == [ops[n] EXCEPT !.phase = IF IsLive(n) THEN "calling" ELSE "over"]
  <2>1. op \in Operation /\ op.result = ops[n].result /\ OutcomeOf(op) = OutcomeOf(ops[n])
    BY <1>1 DEF Operation, OutcomeOf
  <2>2. ops' = [ops EXCEPT ![n] = op]
    BY <1>2 DEF InvokeBackend
  <2> HIDE DEF op
  <2>3. QED
    BY <1>1, <1>2, <2>1, <2>2, SameOutcome DEF InvokeBackend, SnapshotUnchanged
<1>3. CASE TimerFires(n) /\ ops[n].settled
  <2> DEFINE op == [ops[n] EXCEPT !.timer = FALSE]
  <2>1. op \in Operation /\ op.result = ops[n].result /\ OutcomeOf(op) = OutcomeOf(ops[n])
    BY <1>1 DEF Operation, OutcomeOf
  <2>2. ops' = [ops EXCEPT ![n] = op]
    BY <1>3 DEF TimerFires
  <2> HIDE DEF op
  <2>3. QED
    BY <1>1, <1>3, <2>1, <2>2, SameOutcome DEF TimerFires, SnapshotUnchanged
<1>4. CASE TimerFires(n) /\ ~ops[n].settled
  <2> DEFINE op == [ops[n] EXCEPT !.timer = FALSE, !.finishing = TRUE]
  <2>1. op \in Operation /\ op.result = ops[n].result /\ op.finishing
    BY <1>1 DEF Operation
  <2>2. ops' = [ops EXCEPT ![n] = op]
    BY <1>4 DEF TimerFires
  <2> HIDE DEF op
  <2>3. OutcomeOf(op) = "failed" /\ state' = Lifecycle!ModeAfter("failed")
    BY <1>4, <2>1 DEF OutcomeOf, TimerFires, MoveTo, Lifecycle!ModeAfter
  <2>4. ops[n].phase = "calling" /\ ~ops[n].finishing
    <3>1. ~Sync(n) /\ ops[n].phase # "answered"
      BY <1>4 DEF TimerFires, Settled, HandlersRan, InSync
    <3>2. n = operation /\ n # 0
      BY <1>1, <1>4, <3>1 DEF OperationInv, Sync, Begun, TypeOK
    <3>3. ops[n].phase # "over"
      BY <3>1, <3>2 DEF LifecycleInv, CurrentInv, Sync
    <3>4. QED
      BY <1>1, <3>1, <3>3 DEF Operation, Sync
  <2>5. "failed" \in IF ops[n].kind = "start" THEN {"started", "cancelled", "failed"}
                                               ELSE {"stopped", "failed"}
    OBVIOUS
  <2>6. Lifecycle!End
    BY <1>1, <1>4, <2>1, <2>2, <2>3, <2>4, <2>5, LiveEnds
  <2>7. QED
    BY <2>6 DEF Lifecycle!Next
<1>5. CASE FinishFailed(n)
  <2> DEFINE op == [ops[n] EXCEPT !.finishing = FALSE]
  <2>1. /\ op \in Operation /\ op.settled = ops[n].settled /\ op.verdict = ops[n].verdict
        /\ ~op.finishing
    BY <1>1 DEF Operation
  <2>2. Finish(n, op, "failed") /\ ops[n].finishing /\ UNCHANGED <<state, operationSeq, disposed>>
    BY <1>5 DEF FinishFailed, SnapshotUnchanged
  <2> HIDE DEF op
  <2>3. ops' = [ops EXCEPT ![n] = Cleared(Resolve(op, "failed"))]
    BY <2>2 DEF Finish
  <2>4. ~ops[n].settled /\ OutcomeOf(ops[n]) = "failed" /\ "failed" \in Results
    BY <1>1, <2>2 DEF OperationInv, OutcomeOf, Results
  <2>5. Lifecycle!Tell
    BY <2>1, <2>2, <2>3, <2>4, Resolution
  <2>6. QED
    BY <2>5 DEF Lifecycle!Next
<1>6. QED
  BY <1>2, <1>3, <1>4, <1>5, SettleStep DEF Progress

LEMMA LifecycleStep ==
  ASSUME LifecycleInv, LifecycleInv', [Next]_vars PROVE [Lifecycle!Next]_Lifecycle!vars
<1>1. CASE UNCHANGED vars
  BY <1>1, Unseen DEF vars, Begun
<1>2. QED
  BY <1>1, ClientStep, ProgressStep, AnswerStep DEF Next

(* Serial operations, one outcome each, truthful answers and a mode the    *)
(* outcomes explain: whatever the clients and the backend do, the          *)
(* controller behaves as the abstract lifecycle says.                      *)
THEOREM ControllerImplementsLifecycle == Spec => ImplementsLifecycle
<1>1. Init => Lifecycle!Init
  <2>1. SUFFICES ASSUME Init PROVE Lifecycle!Init
    OBVIOUS
  <2>2. Begun = {}
    BY <2>1 DEF Init, Begun
  <2>3. Outcomes = <<>> /\ Told = <<>>
    BY <2>2 DEF Outcomes, Told
  <2>4. QED
    BY <2>1, <2>3 DEF Init, Lifecycle!Init, Outcomes, Told
<1>2. LifecycleInv /\ LifecycleInv' /\ [Next]_vars => [Lifecycle!Next]_Lifecycle!vars
  BY LifecycleStep
<1>3. QED
  BY <1>1, <1>2, LifecycleInvariant, PTL DEF Spec, ImplementsLifecycle, Lifecycle!Spec
=============================================================================
