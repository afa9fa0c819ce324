------------------------ MODULE DeveloperToolsProofs ------------------------
(***************************************************************************)
(* Proofs about the debugger and the profiler over one target, for any     *)
(* scripts, limits and numbers of calls.  Each tool has an invariant of    *)
(* its own, kept while the tools live; closing the window ends both.       *)
(***************************************************************************)
EXTENDS DeveloperTools, SequenceTheorems, WellFoundedInduction, TLAPS

USE ProfilerBounds, DebuggerBounds

-----------------------------------------------------------------------------
(* The profiler.                                                           *)

ProfStates == {"unavailable", "ready", "recording", "error"}
ProfRun == [kind: {"start", "stop"}, id: Nat, settled: BOOLEAN, timer: BOOLEAN, out: BOOLEAN,
            aborted: BOOLEAN]

ProfTypes ==
    /\ prof \in [state: ProfStates, session: Nat, busy: BOOLEAN, history: Seq(Nat)]
    /\ recordings \in Nat /\ recordingId \in 0 .. recordings
    /\ profRuns \in Seq(ProfRun) /\ profOperation \in 0 .. Len(profRuns)
    /\ profTarget \in BOOLEAN /\ held \in Nat

(* A recording runs exactly while the profiler records, with a target; only *)
(* the call waited for can still be answered, and what is listed is older   *)
(* than the recording that runs.                                            *)
ProfStanding ==
    /\ profTarget <=> prof.state # "unavailable"
    /\ recordingId # 0 <=> prof.state = "recording"
    /\ profOperation # 0 => recordingId # 0
    /\ recordingId # 0 => recordingId = recordings
ProfCalls ==
    \A n \in DOMAIN profRuns : /\ profRuns[n].out /\ ~profRuns[n].aborted => n = profOperation
                               /\ profRuns[n].aborted => n # profOperation
ProfListed ==
    \A i \in DOMAIN prof.history : /\ prof.history[i] # 0 /\ prof.history[i] <= recordings
                                   /\ recordingId # 0 => prof.history[i] < recordingId

ProfLinks == ProfStanding /\ ProfCalls /\ ProfListed

ProfInv == ProfTypes /\ ProfLinks /\ ProfRunIsOwned /\ RecordingIsHeld

(* A new call becomes the one waited for.                                  *)
LEMMA BeginProfRunFacts ==
    ASSUME ProfTypes, NEW kind \in {"start", "stop"}, NEW id \in Nat, BeginProfRun(kind, id)
    PROVE  /\ profRuns' \in Seq(ProfRun) /\ profOperation' = Len(profRuns') /\ profOperation' # 0
           /\ Len(profRuns') = Len(profRuns) + 1 /\ profOperation' \in Nat
           /\ DOMAIN profRuns' = 1 .. Len(profRuns')
           /\ \A n \in DOMAIN profRuns : profRuns'[n] = profRuns[n] /\ n # profOperation'
           /\ \A n \in DOMAIN profRuns' : n = profOperation' \/ n \in DOMAIN profRuns
           /\ LET run == profRuns'[profOperation']
              IN  run.id = id /\ run.kind = kind /\ run.timer /\ ~run.settled /\ ~run.aborted
<1>1. PICK run : run = [ kind |-> kind, id |-> id, settled |-> FALSE, timer |-> TRUE, out |-> TRUE,
                         aborted |-> FALSE ]
    OBVIOUS
<1>2. /\ run \in ProfRun /\ run.id = id /\ run.kind = kind /\ run.timer /\ ~run.settled /\ ~run.aborted
    BY <1>1 DEF ProfRun
<1>3. profRuns' = Append(profRuns, run) /\ profOperation' = Len(profRuns) + 1 /\ profRuns \in Seq(ProfRun)
    BY <1>1 DEF BeginProfRun, ProfTypes
<1>4. QED
    BY <1>2, <1>3

(* The call waited for is given up: the provider can still answer it.      *)
LEMMA ForgetProfRunFacts ==
    ASSUME ProfTypes, ProfLinks, ProfRunIsOwned, ForgetProfRun
    PROVE  /\ profRuns' \in Seq(ProfRun) /\ profOperation' = 0
           /\ Len(profRuns') = Len(profRuns) /\ DOMAIN profRuns' = DOMAIN profRuns
           /\ \A n \in DOMAIN profRuns' : ~profRuns'[n].timer /\ (profRuns'[n].out => profRuns'[n].aborted)
<1>1. profRuns \in Seq(ProfRun) /\ DOMAIN profRuns = 1 .. Len(profRuns) /\ Len(profRuns) \in Nat
    BY DEF ProfTypes
<1>2. \A n \in DOMAIN profRuns : profRuns[n] \in ProfRun
    BY <1>1
<1>3. CASE profOperation = 0
    <2>1. profRuns' = profRuns /\ profOperation' = 0
        BY <1>3 DEF ForgetProfRun
    <2>2. \A n \in DOMAIN profRuns : n # profOperation
        BY <1>1, <1>3
    <2>3. \A n \in DOMAIN profRuns : ~profRuns[n].timer
        BY <2>2 DEF ProfRunIsOwned
    <2>4. \A n \in DOMAIN profRuns : profRuns[n].out => profRuns[n].aborted
        BY <2>2 DEF ProfLinks, ProfCalls
    <2>5. QED
        BY <1>1, <2>1, <2>3, <2>4
<1>4. CASE profOperation # 0
    <2> DEFINE k == profOperation
    <2>1. k \in DOMAIN profRuns
        BY <1>1, <1>4 DEF ProfTypes
    <2>2. PICK run : run = [profRuns[k] EXCEPT !.timer = FALSE, !.aborted = TRUE]
        OBVIOUS
    <2>3. run \in ProfRun /\ ~run.timer /\ run.aborted
        BY <1>2, <2>1, <2>2 DEF ProfRun
    <2>4. profRuns' = [profRuns EXCEPT ![k] = run] /\ profOperation' = 0
        BY <1>4, <2>2 DEF ForgetProfRun
    <2>5. /\ profRuns' \in Seq(ProfRun) /\ Len(profRuns') = Len(profRuns)
          /\ DOMAIN profRuns' = DOMAIN profRuns
          /\ \A n \in DOMAIN profRuns : profRuns'[n] = IF n = k THEN run ELSE profRuns[n]
        BY <1>1, <2>1, <2>3, <2>4
    <2>6. \A n \in DOMAIN profRuns : n # k => ~profRuns[n].timer /\ (profRuns[n].out => profRuns[n].aborted)
        BY DEF ProfRunIsOwned, ProfLinks, ProfCalls
    <2>7. ASSUME NEW n \in DOMAIN profRuns
          PROVE  ~profRuns'[n].timer /\ (profRuns'[n].out => profRuns'[n].aborted)
        <3>1. CASE n = k
            BY <2>3, <2>5, <3>1
        <3>2. CASE n # k
            BY <2>5, <2>6, <3>2
        <3>3. QED
            BY <3>1, <3>2
    <2>8. QED
        BY <2>4, <2>5, <2>7
<1>5. QED
    BY <1>3, <1>4

LEMMA RecordInv == ASSUME ProfInv, Record PROVE ProfInv'
<1> USE DEF ProfInv
<1>1. /\ ~RecordRefused /\ recordings' = recordings + 1 /\ recordingId' = recordings + 1
      /\ prof' = [prof EXCEPT !.state = "recording", !.busy = TRUE, !.session = 0]
      /\ BeginProfRun("start", recordings + 1) /\ held' = recordings + 1
      /\ UNCHANGED <<profTarget, finished>> /\ recordings \in Nat
    BY DEF Record, ProfTypes
<1>2. /\ prof' \in [state: ProfStates, session: Nat, busy: BOOLEAN, history: Seq(Nat)]
      /\ prof'.state = "recording" /\ prof'.busy /\ prof'.session = 0 /\ prof'.history = prof.history
    BY <1>1 DEF ProfTypes, ProfStates
<1>3. profOperation = 0 /\ prof.state # "unavailable" /\ profTarget
    BY <1>1 DEF RecordRefused, ProfTypes, ProfRunIsOwned
<1>4. /\ profRuns' \in Seq(ProfRun) /\ profOperation' = Len(profRuns') /\ profOperation' # 0
      /\ Len(profRuns') = Len(profRuns) + 1 /\ profOperation' \in Nat
      /\ DOMAIN profRuns' = 1 .. Len(profRuns')
      /\ \A n \in DOMAIN profRuns : profRuns'[n] = profRuns[n] /\ n # profOperation'
      /\ \A n \in DOMAIN profRuns' : n = profOperation' \/ n \in DOMAIN profRuns
      /\ LET run == profRuns'[profOperation']
         IN  run.id = recordings + 1 /\ run.kind = "start" /\ run.timer /\ ~run.settled /\ ~run.aborted
    BY <1>1, BeginProfRunFacts
<1>5. ProfTypes'
    BY <1>1, <1>2, <1>4 DEF ProfTypes
<1>6. \A i \in DOMAIN prof.history : prof.history[i] # 0 /\ prof.history[i] <= recordings /\ prof.history[i] \in Nat
    <2>1. prof.history \in Seq(Nat)
        BY DEF ProfTypes
    <2>2. QED
        BY <2>1 DEF ProfLinks, ProfListed
<1>a. ProfCalls'
    <2>1. \A n \in DOMAIN profRuns : n # 0
        BY DEF ProfTypes
    <2>2. QED
        BY <1>3, <1>4, <2>1 DEF ProfLinks, ProfCalls
<1>b. ProfStanding'
    <2>1. profTarget' <=> prof'.state # "unavailable"
        BY <1>1, <1>2, <1>3
    <2>2. recordingId' # 0 /\ recordingId' = recordings'
        BY <1>1
    <2>3. recordingId' # 0 <=> prof'.state = "recording"
        BY <1>2, <2>2
    <2>4. QED
        BY <2>1, <2>2, <2>3 DEF ProfStanding
<1>c. ProfListed'
    BY <1>1, <1>2, <1>6 DEF ProfListed
<1>7. ProfLinks'
    BY <1>a, <1>b, <1>c DEF ProfLinks
<1>8. ProfRunIsOwned'
    <2>1. prof'.busy = (profOperation' # 0)
        BY <1>2, <1>4
    <2>2. /\ profOperation' = Len(profRuns') /\ profRuns'[profOperation'].id = recordingId'
          /\ profRuns'[profOperation'].timer /\ ~profRuns'[profOperation'].settled
        BY <1>1, <1>4
    <2>3. \A n \in DOMAIN profRuns : ~profRuns[n].timer
        BY <1>3 DEF ProfRunIsOwned, ProfTypes
    <2>4. \A n \in DOMAIN profRuns' : profRuns'[n].timer => n = profOperation'
        BY <1>4, <2>3
    <2>5. QED
        BY <2>1, <2>2, <2>4 DEF ProfRunIsOwned
<1>9. RecordingIsHeld'
    BY <1>1, <1>2 DEF RecordingIsHeld
<1>10. QED
    BY <1>5, <1>7, <1>8, <1>9

LEMMA StopRecordingInv == ASSUME ProfInv, StopRecording PROVE ProfInv'
<1> USE DEF ProfInv
<1>1. /\ recordingId # 0 /\ prof.state = "recording" /\ ~prof.busy
      /\ prof' = [prof EXCEPT !.busy = TRUE] /\ BeginProfRun("stop", recordingId)
      /\ UNCHANGED <<recordings, recordingId, profTarget, held, finished>>
    BY DEF StopRecording, StopRefused
<1>2. /\ prof' \in [state: ProfStates, session: Nat, busy: BOOLEAN, history: Seq(Nat)]
      /\ prof'.state = prof.state /\ prof'.busy /\ prof'.session = prof.session /\ prof'.history = prof.history
    BY <1>1 DEF ProfTypes, ProfStates
<1>3. profOperation = 0 /\ recordingId \in Nat
    BY <1>1 DEF ProfTypes, ProfRunIsOwned
<1>4. /\ profRuns' \in Seq(ProfRun) /\ profOperation' = Len(profRuns') /\ profOperation' # 0
      /\ Len(profRuns') = Len(profRuns) + 1 /\ profOperation' \in Nat
      /\ DOMAIN profRuns' = 1 .. Len(profRuns')
      /\ \A n \in DOMAIN profRuns : profRuns'[n] = profRuns[n] /\ n # profOperation'
      /\ \A n \in DOMAIN profRuns' : n = profOperation' \/ n \in DOMAIN profRuns
      /\ LET run == profRuns'[profOperation']
         IN  run.id = recordingId /\ run.kind = "stop" /\ run.timer /\ ~run.settled /\ ~run.aborted
    BY <1>1, <1>3, BeginProfRunFacts
<1>5. ProfTypes'
    BY <1>1, <1>2, <1>4 DEF ProfTypes
<1>a. ProfCalls'
    <2>1. \A n \in DOMAIN profRuns : n # 0
        BY DEF ProfTypes
    <2>2. QED
        BY <1>3, <1>4, <2>1 DEF ProfLinks, ProfCalls
<1>b. ProfStanding'
    <2>1. profTarget' <=> prof'.state # "unavailable"
        BY <1>1, <1>2 DEF ProfLinks, ProfStanding
    <2>2. recordingId' # 0 /\ recordingId' = recordings'
        BY <1>1 DEF ProfLinks, ProfStanding
    <2>3. QED
        BY <1>1, <1>2, <2>1, <2>2 DEF ProfStanding
<1>c. ProfListed'
    BY <1>1, <1>2 DEF ProfLinks, ProfListed
<1>6. ProfLinks'
    BY <1>a, <1>b, <1>c DEF ProfLinks
<1>7. ProfRunIsOwned'
    <2>1. prof'.busy = (profOperation' # 0)
        BY <1>2, <1>4
    <2>2. /\ profOperation' = Len(profRuns') /\ profRuns'[profOperation'].id = recordingId'
          /\ profRuns'[profOperation'].timer /\ ~profRuns'[profOperation'].settled
        BY <1>1, <1>4
    <2>3. \A n \in DOMAIN profRuns : ~profRuns[n].timer
        BY <1>3 DEF ProfRunIsOwned, ProfTypes
    <2>4. \A n \in DOMAIN profRuns' : profRuns'[n].timer => n = profOperation'
        BY <1>4, <2>3
    <2>5. QED
        BY <2>1, <2>2, <2>4 DEF ProfRunIsOwned
<1>8. RecordingIsHeld'
    BY <1>1, <1>2 DEF RecordingIsHeld
<1>9. QED
    BY <1>5, <1>6, <1>7, <1>8

(* With no call waited for, each is over or aborted.                       *)
ProfCallsOver ==
    /\ profRuns' \in Seq(ProfRun) /\ profOperation' = 0 /\ Len(profRuns') = Len(profRuns)
    /\ \A n \in DOMAIN profRuns' : ~profRuns'[n].timer /\ (profRuns'[n].out => profRuns'[n].aborted)

LEMMA OverAreOwned ==
    ASSUME ProfCallsOver, prof'.busy = FALSE
    PROVE  ProfCalls' /\ ProfRunIsOwned'
<1>1. \A n \in DOMAIN profRuns' : n # profOperation'
    BY DEF ProfCallsOver
<1>2. prof'.busy = (profOperation' # 0)
    BY DEF ProfCallsOver
<1>3. \A n \in DOMAIN profRuns' : /\ profRuns'[n].out => profRuns'[n].aborted
                                  /\ ~profRuns'[n].timer
    BY DEF ProfCallsOver
<1>4. ProfCalls'
    BY <1>1, <1>3 DEF ProfCalls
<1>5. ProfRunIsOwned'
    BY <1>2, <1>3 DEF ProfRunIsOwned, ProfCallsOver
<1>6. QED
    BY <1>4, <1>5

(* One call changes and the others stay: it is typed if the new one is.    *)
LEMMA ProfRunChanged ==
    ASSUME ProfTypes, NEW n \in DOMAIN profRuns, NEW run \in ProfRun,
           profRuns' = [profRuns EXCEPT ![n] = run]
    PROVE  /\ profRuns' \in Seq(ProfRun) /\ Len(profRuns') = Len(profRuns)
           /\ DOMAIN profRuns' = DOMAIN profRuns /\ profRuns'[n] = run
           /\ \A k \in DOMAIN profRuns : k # n => profRuns'[k] = profRuns[k]
           /\ profRuns[n] \in ProfRun /\ n # 0
<1>1. profRuns \in Seq(ProfRun)
    BY DEF ProfTypes
<1>2. QED
    BY <1>1

(* The call waited for ends, and then every call is over.                  *)
LEMMA WaitedForEnds ==
    ASSUME ProfInv, NEW n \in DOMAIN profRuns, n = profOperation, NEW run \in ProfRun,
           profRuns' = [profRuns EXCEPT ![n] = run], profOperation' = 0,
           ~run.timer, run.out => run.aborted
    PROVE  ProfCallsOver
<1>1. ProfTypes
    BY DEF ProfInv
<1>2. /\ profRuns' \in Seq(ProfRun) /\ Len(profRuns') = Len(profRuns)
      /\ DOMAIN profRuns' = DOMAIN profRuns /\ profRuns'[n] = run
      /\ \A k \in DOMAIN profRuns : k # n => profRuns'[k] = profRuns[k]
    BY <1>1, ProfRunChanged
<1>3. \A k \in DOMAIN profRuns : k # n => ~profRuns[k].timer /\ (profRuns[k].out => profRuns[k].aborted)
    BY DEF ProfInv, ProfLinks, ProfCalls, ProfRunIsOwned
<1>4. ASSUME NEW k \in DOMAIN profRuns'
      PROVE  ~profRuns'[k].timer /\ (profRuns'[k].out => profRuns'[k].aborted)
    <2>1. CASE k = n
        BY <1>2, <2>1
    <2>2. CASE k # n
        BY <1>2, <1>3, <2>2
    <2>3. QED
        BY <2>1, <2>2
<1>5. QED
    BY <1>2, <1>4 DEF ProfCallsOver

(* A late answer takes its call off the books and nothing else.            *)
LEMMA LateAnswerInv ==
    ASSUME ProfInv, NEW n \in DOMAIN profRuns, ~IsLive(n),
           profRuns' = [profRuns EXCEPT ![n].out = FALSE, ![n].settled = TRUE],
           UNCHANGED <<prof, recordings, recordingId, profOperation, profTarget, held, finished>>
    PROVE  ProfInv'
<1>1. ProfTypes /\ profRuns \in Seq(ProfRun) /\ profRuns[n] \in ProfRun
    BY DEF ProfInv, ProfTypes
<1>2. n # profOperation
    <2>1. n # 0
        BY <1>1
    <2>2. QED
        BY <2>1 DEF ProfInv, ProfRunIsOwned, IsLive
<1>3. PICK run : run = [profRuns[n] EXCEPT !.out = FALSE, !.settled = TRUE]
    OBVIOUS
<1>4. run \in ProfRun /\ ~run.out /\ run.timer = profRuns[n].timer
    BY <1>1, <1>3 DEF ProfRun
<1>5. profRuns' = [profRuns EXCEPT ![n] = run]
    BY <1>3
<1>6. /\ profRuns' \in Seq(ProfRun) /\ Len(profRuns') = Len(profRuns)
      /\ DOMAIN profRuns' = DOMAIN profRuns /\ profRuns'[n] = run
      /\ \A k \in DOMAIN profRuns : k # n => profRuns'[k] = profRuns[k]
    BY <1>1, <1>4, <1>5, ProfRunChanged
<1>7. ProfTypes'
    BY <1>1, <1>6 DEF ProfTypes
<1>8. ProfCalls'
    BY <1>2, <1>4, <1>6 DEF ProfInv, ProfLinks, ProfCalls
<1>9. ProfRunIsOwned'
    <2>1. \A k \in DOMAIN profRuns : profRuns[k].timer => k = profOperation
        BY DEF ProfInv, ProfRunIsOwned
    <2>2. ~run.timer
        BY <1>2, <1>4, <2>1
    <2>3. \A k \in DOMAIN profRuns' : profRuns'[k].timer => k = profOperation'
        BY <1>6, <2>1, <2>2
    <2>4. profOperation # 0 => profOperation \in DOMAIN profRuns /\ profRuns'[profOperation] = profRuns[profOperation]
        BY <1>1, <1>2, <1>6 DEF ProfTypes
    <2>5. QED
        BY <1>6, <2>3, <2>4 DEF ProfInv, ProfRunIsOwned
<1>10. ProfStanding' /\ ProfListed' /\ RecordingIsHeld'
    BY DEF ProfInv, ProfLinks, ProfStanding, ProfListed, RecordingIsHeld
<1>11. QED
    BY <1>7, <1>8, <1>9, <1>10 DEF ProfInv, ProfLinks

(* The recording is over: nothing that runs is left behind it.             *)
LEMMA NoRecordingInv ==
    ASSUME ProfInv, ProfCallsOver, recordingId' = 0, NEW s \in ProfStates \ {"recording"},
           prof' = [prof EXCEPT !.state = s, !.busy = FALSE],
           profTarget' \in BOOLEAN, profTarget' <=> s # "unavailable",
           UNCHANGED <<recordings, held, finished>>
    PROVE  ProfInv'
<1>1. /\ prof' \in [state: ProfStates, session: Nat, busy: BOOLEAN, history: Seq(Nat)]
      /\ prof'.state = s /\ prof'.busy = FALSE /\ prof'.session = prof.session
      /\ prof'.history = prof.history
    BY DEF ProfInv, ProfTypes
<1>2. ProfTypes'
    <2>1. recordings' \in Nat /\ recordingId' \in 0 .. recordings' /\ held' \in Nat
        BY DEF ProfInv, ProfTypes
    <2>2. profOperation' \in 0 .. Len(profRuns')
        BY DEF ProfCallsOver
    <2>3. QED
        BY <1>1, <2>1, <2>2 DEF ProfTypes, ProfCallsOver
<1>3. ProfCalls' /\ ProfRunIsOwned'
    BY <1>1, OverAreOwned
<1>4. ProfStanding'
    <2>1. profTarget' <=> prof'.state # "unavailable"
        BY <1>1
    <2>2. recordingId' # 0 <=> prof'.state = "recording"
        BY <1>1
    <2>3. QED
        BY <2>1, <2>2 DEF ProfStanding, ProfCallsOver
<1>5. ProfListed' /\ RecordingIsHeld'
    BY <1>1 DEF ProfInv, ProfLinks, ProfListed, RecordingIsHeld
<1>6. QED
    BY <1>2, <1>3, <1>4, <1>5 DEF ProfInv, ProfLinks

(* What is listed after a recording: it, then those listed before it.      *)
LEMMA NewestFirst ==
    ASSUME NEW h \in Seq(Nat), NEW id \in Nat, NEW m \in 1 .. Len(h) + 1,
           NEW s, s = SubSeq(<<id>> \o h, 1, m)
    PROVE  /\ s \in Seq(Nat) /\ DOMAIN s = 1 .. m /\ Len(s) = m /\ s[1] = id
           /\ \A i \in 2 .. m : i - 1 \in DOMAIN h /\ s[i] = h[i - 1]
<1>1. PICK c : c = <<id>>
    OBVIOUS
<1>2. c \in Seq(Nat) /\ Len(c) = 1 /\ c[1] = id
    BY <1>1
<1>3. PICK l : l = c \o h
    OBVIOUS
<1>4. l \in Seq(Nat) /\ Len(l) = Len(h) + 1
    <2>1. c \in Seq(Nat) /\ h \in Seq(Nat)
        BY <1>2
    <2>2. c \o h \in Seq(Nat) /\ Len(c \o h) = Len(c) + Len(h)
        BY <2>1, ConcatProperties, Zenon
    <2>3. Len(h) \in Nat
        BY LenProperties
    <2>4. QED
        BY <1>2, <1>3, <2>2, <2>3
<1>5. \A i \in 1 .. Len(l) : l[i] = IF i <= 1 THEN c[i] ELSE h[i - 1]
    BY <1>2, <1>3, <1>4
<1>6. s = SubSeq(l, 1, m) /\ m \in Nat /\ m <= Len(l)
    BY <1>1, <1>3, <1>4
<1>7. s \in Seq(Nat) /\ Len(s) = m /\ \A i \in 1 .. m : s[i] = l[i]
    BY <1>4, <1>6
<1>8. QED
    BY <1>2, <1>4, <1>5, <1>7

LEMMA ProfFailedInv ==
    ASSUME ProfInv, NEW n \in DOMAIN profRuns, profRuns[n].out, ApplyProfAnswer(n, "failed"),
           UNCHANGED <<recordings, profTarget, held, finished>>
    PROVE  ProfInv'
<1>1. ProfTypes /\ profRuns \in Seq(ProfRun) /\ profRuns[n] \in ProfRun /\ n # 0
    BY DEF ProfInv, ProfTypes
<1>2. CASE ~IsLive(n)
    BY <1>2, LateAnswerInv DEF ApplyProfAnswer
<1>3. CASE IsLive(n)
    <2>1. n = profOperation /\ profOperation # 0 /\ EndProfRun(n, FALSE) /\ NoRecordingIn("error")
        BY <1>1, <1>3 DEF ApplyProfAnswer, IsLive
    <2>2. PICK run : run = [profRuns[n] EXCEPT !.settled = TRUE, !.timer = FALSE,
                                               !.aborted = @ \/ FALSE, !.out = @ /\ FALSE]
        OBVIOUS
    <2>3. run \in ProfRun /\ ~run.timer /\ ~run.out
        BY <1>1, <2>2 DEF ProfRun
    <2>4. profRuns' = [profRuns EXCEPT ![n] = run] /\ profOperation' = 0
        BY <2>1, <2>2 DEF EndProfRun
    <2>5. ProfCallsOver
        BY <2>1, <2>3, <2>4, WaitedForEnds
    <2>6. profTarget \in BOOLEAN /\ (profTarget <=> "error" # "unavailable")
        BY <2>1 DEF ProfInv, ProfTypes, ProfLinks, ProfStanding
    <2>7. QED
        BY <2>1, <2>5, <2>6, NoRecordingInv DEF NoRecordingIn, ProfStates
<1>4. QED
    BY <1>2, <1>3

LEMMA ProfRefusedInv ==
    ASSUME ProfInv, NEW n \in DOMAIN profRuns, ProfRefused(n)
    PROVE  ProfInv'
BY ProfFailedInv DEF ProfRefused

LEMMA ProfTimesOutInv ==
    ASSUME ProfInv, NEW n \in DOMAIN profRuns, ProfTimesOut(n)
    PROVE  ProfInv'
<1>1. ProfTypes /\ profRuns \in Seq(ProfRun) /\ profRuns[n] \in ProfRun /\ n # 0
    BY DEF ProfInv, ProfTypes
<1>2. n = profOperation
    BY DEF ProfTimesOut, ProfInv, ProfRunIsOwned
<1>3. PICK run : run = [profRuns[n] EXCEPT !.timer = FALSE, !.settled = TRUE, !.aborted = TRUE]
    OBVIOUS
<1>4. run \in ProfRun /\ ~run.timer /\ run.aborted
    BY <1>1, <1>3 DEF ProfRun
<1>5. profRuns' = [profRuns EXCEPT ![n] = run] /\ profOperation' = 0
    BY <1>2, <1>3 DEF ProfTimesOut
<1>6. ProfCallsOver
    BY <1>2, <1>4, <1>5, WaitedForEnds
<1>7. profTarget \in BOOLEAN /\ (profTarget <=> "error" # "unavailable")
    BY <1>1, <1>2 DEF ProfInv, ProfTypes, ProfLinks, ProfStanding
<1>8. QED
    BY <1>6, <1>7, NoRecordingInv DEF ProfTimesOut, NoRecordingIn, ProfStates

(* An answer that is waited for is the provider's own: the recording it    *)
(* holds is the one the call is about.                                     *)
LEMMA ProfAnsweredInv ==
    ASSUME ProfInv, NEW n \in DOMAIN profRuns, ProfAnswered(n)
    PROVE  ProfInv'
<1>1. ProfTypes /\ profRuns \in Seq(ProfRun) /\ profRuns[n] \in ProfRun /\ n # 0
    BY DEF ProfInv, ProfTypes
<1>2. profRuns[n].out /\ UNCHANGED <<recordings, profTarget>>
    BY DEF ProfAnswered
<1>3. CASE profRuns[n].aborted
    <2>1. ~IsLive(n)
        BY <1>1, <1>3 DEF IsLive, ProfInv, ProfLinks, ProfCalls
    <2>2. ApplyProfAnswer(n, "cancelled") /\ UNCHANGED <<held, finished>>
        BY <1>3 DEF ProfAnswered
    <2>3. QED
        BY <1>2, <2>1, <2>2, LateAnswerInv DEF ApplyProfAnswer
<1>4. CASE ~profRuns[n].aborted
    <2> DEFINE a == MockAnswer(profRuns[n])
    <2>1. n = profOperation /\ profOperation # 0
        BY <1>1, <1>2, <1>4 DEF ProfInv, ProfLinks, ProfCalls
    <2>2. IsLive(n) /\ profRuns[n].id = recordingId
        BY <2>1 DEF IsLive, ProfInv, ProfRunIsOwned
    <2>3. recordingId # 0 /\ held = recordingId /\ prof.state = "recording" /\ profTarget
        BY <2>1 DEF ProfInv, ProfLinks, ProfStanding, RecordingIsHeld
    <2>4. a = IF profRuns[n].kind = "start" THEN "started" ELSE "stopped"
        BY <2>2, <2>3 DEF MockAnswer
    <2>5. /\ ApplyProfAnswer(n, a) /\ held' = (IF a = "stopped" THEN 0 ELSE held)
          /\ finished' = IF a = "stopped" THEN finished \cup {recordingId} ELSE finished
        BY <1>4, <2>2 DEF ProfAnswered, MockForgets
    <2>6. EndProfRun(n, FALSE)
        BY <2>2, <2>5 DEF ApplyProfAnswer
    <2>7. PICK run : run = [profRuns[n] EXCEPT !.settled = TRUE, !.timer = FALSE,
                                               !.aborted = @ \/ FALSE, !.out = @ /\ FALSE]
        OBVIOUS
    <2>8. run \in ProfRun /\ ~run.timer /\ ~run.out
        BY <1>1, <2>7 DEF ProfRun
    <2>9. profRuns' = [profRuns EXCEPT ![n] = run] /\ profOperation' = 0
        BY <2>6, <2>7 DEF EndProfRun
    <2>10. ProfCallsOver
        BY <2>1, <2>8, <2>9, WaitedForEnds
    <2>11. CASE profRuns[n].kind = "start"
        <3>1. prof' = [prof EXCEPT !.busy = FALSE] /\ UNCHANGED <<recordingId, held, finished>>
            BY <2>2, <2>4, <2>5, <2>11 DEF ApplyProfAnswer
        <3>2. /\ prof' \in [state: ProfStates, session: Nat, busy: BOOLEAN, history: Seq(Nat)]
              /\ prof'.state = prof.state /\ prof'.busy = FALSE /\ prof'.session = prof.session
              /\ prof'.history = prof.history
            BY <1>1, <3>1 DEF ProfTypes
        <3>3. ProfTypes'
            <4>1. profOperation' \in 0 .. Len(profRuns')
                BY <2>10 DEF ProfCallsOver
            <4>2. QED
                BY <1>1, <1>2, <2>10, <3>1, <3>2, <4>1 DEF ProfTypes, ProfCallsOver
        <3>4. ProfCalls' /\ ProfRunIsOwned'
            BY <2>10, <3>2, OverAreOwned
        <3>5. ProfStanding'
            BY <1>2, <2>3, <2>10, <3>1, <3>2 DEF ProfInv, ProfLinks, ProfStanding, ProfCallsOver
        <3>6. ProfListed' /\ RecordingIsHeld'
            BY <1>2, <3>1, <3>2 DEF ProfInv, ProfLinks, ProfListed, RecordingIsHeld
        <3>7. QED
            BY <3>3, <3>4, <3>5, <3>6 DEF ProfInv, ProfLinks
    <2>12. CASE profRuns[n].kind # "start"
        <3> DEFINE h == prof.history
                   m == IF Len(h) < HistoryLimit THEN Len(h) + 1 ELSE HistoryLimit
        <3>1. a = "stopped" /\ held' = 0 /\ finished' = finished \cup {recordingId}
            BY <2>4, <2>5, <2>12
        <3>2. FinishRecording(recordingId)
            BY <2>2, <2>5, <3>1 DEF ApplyProfAnswer
        <3>3. h \in Seq(Nat) /\ Len(h) \in Nat /\ recordingId \in Nat /\ recordings \in Nat
            BY <1>1 DEF ProfTypes
        <3>4. m \in 1 .. Len(h) + 1
            BY <3>3
        <3>5. PICK s : s = SubSeq(<<recordingId>> \o h, 1, m)
            OBVIOUS
        <3>6. /\ s \in Seq(Nat) /\ DOMAIN s = 1 .. m /\ Len(s) = m /\ s[1] = recordingId
              /\ \A i \in 2 .. m : i - 1 \in DOMAIN h /\ s[i] = h[i - 1]
            BY <3>3, <3>4, <3>5, NewestFirst
        <3>7. /\ recordingId' = 0
              /\ prof' = [prof EXCEPT !.state = "ready", !.busy = FALSE, !.session = recordingId,
                                      !.history = s]
            BY <2>3, <3>2, <3>5 DEF FinishRecording, RestingState
        <3>8. /\ prof' \in [state: ProfStates, session: Nat, busy: BOOLEAN, history: Seq(Nat)]
              /\ prof'.state = "ready" /\ prof'.busy = FALSE /\ prof'.session = recordingId
              /\ prof'.history = s
            BY <1>1, <3>3, <3>6, <3>7 DEF ProfTypes, ProfStates
        <3>9. ProfTypes'
            <4>1. profOperation' \in 0 .. Len(profRuns') /\ recordingId' \in 0 .. recordings'
                BY <1>2, <2>10, <3>3, <3>7 DEF ProfCallsOver
            <4>2. QED
                BY <1>1, <1>2, <2>10, <3>1, <3>8, <4>1 DEF ProfTypes, ProfCallsOver
        <3>10. ProfCalls' /\ ProfRunIsOwned'
            BY <2>10, <3>8, OverAreOwned
        <3>11. ProfStanding'
            <4>1. profTarget' <=> prof'.state # "unavailable"
                BY <1>2, <2>3, <3>8
            <4>2. QED
                BY <2>10, <3>7, <3>8, <4>1 DEF ProfStanding, ProfCallsOver
        <3>12. /\ \A i \in DOMAIN h : h[i] # 0 /\ h[i] < recordingId /\ h[i] \in finished /\ h[i] \in Nat
               /\ \A i \in DOMAIN h : \A j \in 1 .. i - 1 : h[j] > h[i]
            BY <2>3, <3>3 DEF ProfInv, ProfLinks, ProfListed, RecordingIsHeld
        <3>13. recordingId = recordings
            BY <2>3 DEF ProfInv, ProfLinks, ProfStanding
        <3>14. ASSUME NEW i \in DOMAIN s
               PROVE  /\ s[i] # 0 /\ s[i] <= recordings /\ s[i] \in finished'
                      /\ \A j \in 1 .. i - 1 : s[j] > s[i]
            <4>1. m \in Nat /\ i \in 1 .. m
                BY <3>4, <3>6
            <4>2. CASE i = 1
                BY <2>3, <3>1, <3>3, <3>6, <3>13, <4>2
            <4>3. CASE i # 1
                <5>1. i \in 2 .. m /\ i - 1 \in DOMAIN h /\ s[i] = h[i - 1]
                    BY <3>6, <4>1, <4>3
                <5>2. s[i] # 0 /\ s[i] < recordingId /\ s[i] \in finished' /\ s[i] \in Nat
                    BY <3>1, <3>12, <5>1
                <5>3. ASSUME NEW j \in 1 .. i - 1 PROVE s[j] > s[i]
                    <6>1. CASE j = 1
                        BY <3>3, <3>6, <5>2, <6>1
                    <6>2. CASE j # 1
                        <7>1. j \in 2 .. m /\ j - 1 \in 1 .. (i - 1) - 1
                            BY <4>1, <6>2
                        <7>2. s[j] = h[j - 1] /\ h[j - 1] > h[i - 1]
                            BY <3>6, <3>12, <5>1, <7>1
                        <7>3. QED
                            BY <5>1, <7>2
                    <6>3. QED
                        BY <6>1, <6>2
                <5>4. QED
                    BY <3>3, <3>13, <5>2, <5>3
            <4>4. QED
                BY <4>2, <4>3
        <3>15. ProfListed'
            BY <1>2, <3>7, <3>8, <3>14 DEF ProfListed
        <3>16. RecordingIsHeld'
            <4>1. s # <<>> /\ Head(s) = recordingId
                BY <3>4, <3>6
            <4>2. QED
                BY <3>7, <3>8, <3>14, <4>1 DEF RecordingIsHeld
        <3>17. QED
            BY <3>9, <3>10, <3>11, <3>15, <3>16 DEF ProfInv, ProfLinks
    <2>13. QED
        BY <2>11, <2>12
<1>5. QED
    BY <1>3, <1>4

LEMMA ClearProfilerInv == ASSUME ProfInv, ClearProfiler PROVE ProfInv'
<1>1. recordingId = 0 /\ profOperation = 0 /\ prof.state # "recording"
    BY DEF ClearProfiler, ProfInv, ProfLinks, ProfStanding
<1>2. /\ UNCHANGED <<recordings, recordingId, profRuns, profOperation, profTarget>>
      /\ held' = 0 /\ finished' = {}
    BY DEF ClearProfiler, profRunVars
<1>3. PICK s : s = IF profTarget THEN "ready" ELSE "unavailable"
    OBVIOUS
<1>4. prof' = [state |-> s, session |-> 0, busy |-> FALSE, history |-> <<>>] /\ s \in ProfStates
    BY <1>3 DEF ClearProfiler, RestingState, ProfStates
<1>5. /\ prof' \in [state: ProfStates, session: Nat, busy: BOOLEAN, history: Seq(Nat)]
      /\ prof'.state = s /\ prof'.busy = FALSE /\ prof'.session = 0 /\ prof'.history = <<>>
    BY <1>4
<1>6. ProfTypes'
    BY <1>2, <1>5 DEF ProfInv, ProfTypes
<1>7. ProfCalls' /\ ProfRunIsOwned'
    BY <1>1, <1>2, <1>5 DEF ProfInv, ProfLinks, ProfCalls, ProfRunIsOwned
<1>8. ProfStanding'
    <2>1. profTarget' <=> prof'.state # "unavailable"
        BY <1>2, <1>3, <1>5
    <2>2. prof'.state # "recording"
        BY <1>3, <1>5
    <2>3. QED
        BY <1>1, <1>2, <2>1, <2>2 DEF ProfStanding
<1>9. ProfListed' /\ RecordingIsHeld'
    BY <1>1, <1>2, <1>5 DEF ProfListed, RecordingIsHeld
<1>10. QED
    BY <1>6, <1>7, <1>8, <1>9 DEF ProfInv, ProfLinks

LEMMA ProfTargetFoundInv == ASSUME ProfInv, ProfTargetFound PROVE ProfInv'
<1>1. prof.state = "unavailable" /\ recordingId = 0 /\ profOperation = 0
    BY DEF ProfTargetFound, ProfInv, ProfLinks, ProfStanding
<1>2. /\ UNCHANGED <<recordings, recordingId, profRuns, profOperation, held, finished>>
      /\ profTarget' = TRUE /\ prof' = [prof EXCEPT !.state = "ready"]
    BY <1>1 DEF ProfTargetFound, profRunVars
<1>3. /\ prof' \in [state: ProfStates, session: Nat, busy: BOOLEAN, history: Seq(Nat)]
      /\ prof'.state = "ready" /\ prof'.busy = prof.busy /\ prof'.session = prof.session
      /\ prof'.history = prof.history
    BY <1>2 DEF ProfInv, ProfTypes, ProfStates
<1>4. ProfTypes'
    BY <1>2, <1>3 DEF ProfInv, ProfTypes
<1>5. ProfCalls' /\ ProfRunIsOwned'
    BY <1>2, <1>3 DEF ProfInv, ProfLinks, ProfCalls, ProfRunIsOwned
<1>6. ProfStanding'
    <2>1. profTarget' <=> prof'.state # "unavailable"
        BY <1>2, <1>3
    <2>2. QED
        BY <1>1, <1>2, <1>3, <2>1 DEF ProfStanding
<1>7. ProfListed' /\ RecordingIsHeld'
    BY <1>1, <1>2, <1>3 DEF ProfInv, ProfLinks, ProfListed, RecordingIsHeld
<1>8. QED
    BY <1>4, <1>5, <1>6, <1>7 DEF ProfInv, ProfLinks

LEMMA ProfTargetLostInv == ASSUME ProfInv, ProfTargetLost PROVE ProfInv'
<1>1. /\ ForgetProfRun /\ UNCHANGED <<recordings, held, finished>> /\ profTarget' = FALSE
      /\ prof' = [prof EXCEPT !.state = "unavailable", !.busy = FALSE]
    BY DEF ProfTargetLost
<1>2. recordingId' = 0
    BY DEF ProfTargetLost, ProfInv, ProfLinks, ProfStanding
<1>3. ProfCallsOver
    BY <1>1, ForgetProfRunFacts DEF ProfInv, ProfCallsOver
<1>4. PICK s : s = "unavailable"
    OBVIOUS
<1>5. s \in ProfStates \ {"recording"} /\ prof' = [prof EXCEPT !.state = s, !.busy = FALSE]
    BY <1>1, <1>4 DEF ProfStates
<1>6. profTarget' \in BOOLEAN /\ (profTarget' <=> s # "unavailable")
    BY <1>1, <1>4
<1>7. QED
    BY <1>1, <1>2, <1>3, <1>5, <1>6, NoRecordingInv

LEMMA ProfilerStepInv ==
    ASSUME ProfInv, ProfilerUser \/ ProfilerProvider
    PROVE  ProfInv'
<1>1. CASE Record
    BY <1>1, RecordInv
<1>2. CASE StopRecording
    BY <1>2, StopRecordingInv
<1>3. CASE ClearProfiler
    BY <1>3, ClearProfilerInv
<1>4. CASE ProfilerProvider
    BY <1>4, ProfAnsweredInv, ProfRefusedInv, ProfTimesOutInv DEF ProfilerProvider
<1>5. QED
    BY <1>1, <1>2, <1>3, <1>4 DEF ProfilerUser

LEMMA ProfilerInitInv == ASSUME ProfilerInit PROVE ProfInv
<1>1. /\ prof = [state |-> "unavailable", session |-> 0, busy |-> FALSE, history |-> <<>>]
      /\ recordings = 0 /\ recordingId = 0 /\ profRuns = <<>> /\ profOperation = 0
      /\ profTarget = FALSE /\ held = 0 /\ finished = {}
    BY DEF ProfilerInit
<1>2. /\ prof \in [state: ProfStates, session: Nat, busy: BOOLEAN, history: Seq(Nat)]
      /\ prof.state = "unavailable" /\ prof.busy = FALSE /\ prof.session = 0 /\ prof.history = <<>>
    BY <1>1 DEF ProfStates
<1>3. ProfTypes
    <2>1. profRuns \in Seq(ProfRun) /\ Len(profRuns) = 0
        BY <1>1
    <2>2. /\ profOperation \in 0 .. Len(profRuns) /\ recordings \in Nat
          /\ recordingId \in 0 .. recordings /\ held \in Nat
        BY <1>1, <2>1
    <2>3. QED
        BY <1>1, <1>2, <2>1, <2>2 DEF ProfTypes
<1>4. ProfStanding
    <2>1. profTarget <=> prof.state # "unavailable"
        BY <1>1, <1>2
    <2>2. QED
        BY <1>1, <1>2, <2>1 DEF ProfStanding
<1>5. DOMAIN profRuns = {} /\ DOMAIN prof.history = {}
    <2>1. profRuns = <<>> /\ prof.history = <<>>
        BY <1>1, <1>2
    <2>2. DOMAIN profRuns = {}
        BY <2>1
    <2>3. DOMAIN prof.history = {}
        BY <2>1
    <2>4. QED
        BY <2>2, <2>3
<1>a. ProfCalls /\ ProfListed /\ RecordingIsHeld
    BY <1>1, <1>2, <1>5 DEF ProfCalls, ProfListed, RecordingIsHeld
<1>b. ProfRunIsOwned
    BY <1>1, <1>2, <1>5 DEF ProfRunIsOwned
<1>6. QED
    BY <1>3, <1>4, <1>a, <1>b DEF ProfInv, ProfLinks

LEMMA ProfilerStutterInv == ASSUME ProfInv, UNCHANGED profVars PROVE ProfInv'
<1>1. UNCHANGED <<prof, recordings, recordingId, profRuns, profOperation, profTarget, held, finished>>
    BY DEF profVars, profRunVars
<1>2. ProfTypes'
    BY <1>1 DEF ProfInv, ProfTypes
<1>3. ProfStanding' /\ ProfCalls' /\ ProfListed'
    BY <1>1 DEF ProfInv, ProfLinks, ProfStanding, ProfCalls, ProfListed
<1>4. ProfRunIsOwned' /\ RecordingIsHeld'
    BY <1>1 DEF ProfInv, ProfRunIsOwned, RecordingIsHeld
<1>5. QED
    BY <1>2, <1>3, <1>4 DEF ProfInv, ProfLinks

-----------------------------------------------------------------------------
(* The debugger: the lines of a script and the frames of a stop.           *)

(* A set of numbers that is not empty has a least one.                     *)
LEMMA LeastOf ==
    ASSUME NEW T, T \subseteq Nat, T # {}
    PROVE  \E least \in T : \A other \in T : least <= other
<1>1. PICK r : r = OpToRel(<, Nat)
    OBVIOUS
<1>2. IsWellFoundedOn(r, Nat)
    BY <1>1, NatLessThanWellFounded
<1>3. PICK x \in T : \A y \in T : ~(<<y, x>> \in r)
    BY <1>2, WFMin
<1>4. \A y \in T : ~(y < x)
    BY <1>1, <1>3 DEF OpToRel
<1>5. QED
    BY <1>3, <1>4

(* A run lands on a later line of the script, or on none.                  *)
LEMMA NextLineLands ==
    ASSUME NEW m, m.line \in Nat, NEW mode, NEW enabled
    PROVE  NextLine(m, mode, enabled) \in 0 .. LineCount
<1> DEFINE lands(line) ==
               \/ m.pausing \/ mode = "step-into"
               \/ mode = "continue" /\ [script |-> m.script, line |-> line] \in enabled
               \/ mode = "step-over" /\ Depth[line] <= Depth[m.line]
               \/ mode = "step-out" /\ Depth[line] < Depth[m.line]
           landings == {line \in m.line + 1 .. LineCount : lands(line)}
<1> HIDE DEF lands
<1>1. landings \subseteq 1 .. LineCount /\ LineCount \in Nat
    OBVIOUS
<1> HIDE DEF landings
<1>2. NextLine(m, mode, enabled) =
          IF landings = {} THEN 0 ELSE CHOOSE line \in landings : \A other \in landings : line <= other
    BY DEF NextLine, landings, lands
<1>3. CASE landings = {}
    BY <1>1, <1>2, <1>3
<1>4. CASE landings # {}
    <2>1. landings \subseteq Nat
        BY <1>1
    <2>2. \E line \in landings : \A other \in landings : line <= other
        BY <1>4, <2>1, LeastOf
    <2>3. (CHOOSE line \in landings : \A other \in landings : line <= other) \in landings
        BY <2>2
    <2>4. NextLine(m, mode, enabled) \in landings
        BY <1>2, <1>4, <2>3, Zenon
    <2>5. \A line \in landings : line \in 0 .. LineCount
        BY <1>1
    <2>6. QED
        BY <2>4, <2>5, Zenon
<1>5. QED
    BY <1>3, <1>4

(* Every line is called from somewhere: a stop has a frame at its top.     *)
LEMMA LinesHaveDepth ==
    ASSUME NEW line \in 1 .. LineCount
    PROVE  Depth[line] \in Nat /\ Depth[line] >= 1
<1>1. PICK head : head = LineCount \div 4
    OBVIOUS
<1>2. PICK update : update = LineCount \div 5
    OBVIOUS
<1>3. Depth[line] = IF LineCount <= 4 THEN (IF line = 4 THEN 1 ELSE line)
                    ELSE IF line <= head \/ line = LineCount THEN 1
                    ELSE IF line <= head + update THEN 2
                    ELSE IF line <= head + update + head THEN 3 ELSE 1
    BY <1>1, <1>2 DEF Depth
<1>4. QED
    BY <1>3

-----------------------------------------------------------------------------
(* The debugger's invariant.                                               *)

Names == Scripts \cup {""}
Endings == {"none", "completed", "stopped", "failed", "target-lost"}
SessionRec == [id: Nat, script: Names, ended: Endings]
FrameRec == [session: Nat, stop: Nat, position: Nat]
StopRec == [session: Nat, stop: Nat, line: 0 .. LineCount,
            reason: {"none", "pause", "breakpoint", "entry", "step"}]
DbgRec == [state: DebugStates, session: SessionRec, stack: StopRec, frame: FrameRec,
           locals: FrameRec, busy: BOOLEAN, pausing: BOOLEAN]
MockRec == [session: Nat, script: Names, line: 0 .. LineCount, stop: Nat, pausing: BOOLEAN]

RunFields(run) ==
    /\ run.session \in Nat
    /\ run.settled \in BOOLEAN /\ run.timer \in BOOLEAN
    /\ run.out \in BOOLEAN /\ run.aborted \in BOOLEAN
DebugTypes ==
    /\ dbg \in DbgRec /\ mock \in MockRec
    /\ \E runs : debugRuns \in Seq(runs)
    /\ \A n \in DOMAIN debugRuns : RunFields(debugRuns[n])
    /\ operation \in 0 .. Len(debugRuns)
    /\ debugTarget \in BOOLEAN
    /\ releasing \subseteq Nat

(* Only the run waited for can still be answered with anything but that it *)
(* was cancelled, and the provider releases no session that is live.       *)
DebugStanding == debugTarget <=> dbg.state # "unavailable"
DebugCalls ==
    \A n \in DOMAIN debugRuns : /\ debugRuns[n].out /\ ~debugRuns[n].aborted => n = operation
                                /\ debugRuns[n].aborted => n # operation
ReleasesAreOld ==
    \A id \in releasing : id <= dbg.session.id /\ (Active(dbg.session) => id # dbg.session.id)

DebugInv ==
    /\ DebugTypes /\ DebugStanding /\ DebugCalls /\ ReleasesAreOld
    /\ DebugRunIsOwned /\ StopIsTheProviders

(* What every change of the snapshot keeps to.                             *)
DebugMove ==
    /\ dbg.session.ended # "none" => dbg'.session = dbg.session \/ dbg'.session.id > dbg.session.id
    /\ dbg'.state \in {dbg.state} \cup DebugMoves[dbg.state]

-----------------------------------------------------------------------------
(* The debugger's runs.                                                    *)

(* One run changes and the others stay.                                    *)
LEMMA DebugRunChanged ==
    ASSUME DebugTypes, NEW n \in DOMAIN debugRuns, NEW run, RunFields(run),
           debugRuns' = [debugRuns EXCEPT ![n] = run]
    PROVE  /\ \E runs : debugRuns' \in Seq(runs)
           /\ Len(debugRuns') = Len(debugRuns) /\ DOMAIN debugRuns' = DOMAIN debugRuns
           /\ debugRuns'[n] = run /\ n # 0 /\ Len(debugRuns) \in Nat
           /\ \A k \in DOMAIN debugRuns : k # n => debugRuns'[k] = debugRuns[k]
           /\ \A k \in DOMAIN debugRuns' : RunFields(debugRuns'[k])
<1>1. PICK runs : debugRuns \in Seq(runs)
    BY DEF DebugTypes
<1>2. debugRuns \in Seq(runs \cup {run}) /\ run \in runs \cup {run}
    BY <1>1
<1>3. /\ debugRuns' \in Seq(runs \cup {run})
      /\ Len(debugRuns') = Len(debugRuns) /\ DOMAIN debugRuns' = DOMAIN debugRuns
      /\ debugRuns'[n] = run /\ n # 0 /\ Len(debugRuns) \in Nat
      /\ \A k \in DOMAIN debugRuns : k # n => debugRuns'[k] = debugRuns[k]
    BY <1>2
<1>4. ASSUME NEW k \in DOMAIN debugRuns' PROVE RunFields(debugRuns'[k])
    <2>1. CASE k = n
        BY <1>3, <2>1
    <2>2. CASE k # n
        BY <1>3, <2>2 DEF DebugTypes
    <2>3. QED
        BY <2>1, <2>2
<1>5. QED
    BY <1>3, <1>4

(* A new run becomes the one waited for.                                   *)
LEMMA BeginRunFacts ==
    ASSUME DebugTypes, NEW kind, NEW session \in Nat, NEW mode, NEW enabled,
           BeginRun(kind, session, mode, enabled)
    PROVE  /\ \E runs : debugRuns' \in Seq(runs)
           /\ operation' = Len(debugRuns') /\ operation' # 0 /\ operation' \in Nat
           /\ Len(debugRuns') = Len(debugRuns) + 1 /\ DOMAIN debugRuns' = 1 .. Len(debugRuns')
           /\ \A n \in DOMAIN debugRuns : debugRuns'[n] = debugRuns[n] /\ n # operation' /\ n # 0
           /\ \A n \in DOMAIN debugRuns' : n = operation' \/ n \in DOMAIN debugRuns
           /\ LET run == debugRuns'[operation']
              IN  run.session = session /\ run.timer /\ ~run.settled /\ ~run.aborted /\ RunFields(run)
<1>1. PICK runs : debugRuns \in Seq(runs)
    BY DEF DebugTypes
<1>2. PICK run : run = [ session |-> session, mode |-> mode, enabled |-> enabled,
                         kind |-> kind, settled |-> FALSE, timer |-> TRUE,
                         out |-> TRUE, aborted |-> FALSE ]
    OBVIOUS
<1>3. run.session = session /\ run.timer /\ ~run.settled /\ ~run.aborted /\ RunFields(run)
    BY <1>2 DEF RunFields
<1>4. debugRuns' = Append(debugRuns, run) /\ operation' = Len(debugRuns) + 1
    BY <1>2 DEF BeginRun
<1>5. debugRuns \in Seq(runs \cup {run}) /\ run \in runs \cup {run}
    BY <1>1
<1>6. /\ debugRuns' \in Seq(runs \cup {run}) /\ Len(debugRuns') = Len(debugRuns) + 1
      /\ Len(debugRuns) \in Nat /\ DOMAIN debugRuns = 1 .. Len(debugRuns)
      /\ DOMAIN debugRuns' = 1 .. Len(debugRuns') /\ debugRuns'[Len(debugRuns) + 1] = run
      /\ \A n \in DOMAIN debugRuns : debugRuns'[n] = debugRuns[n]
    BY <1>4, <1>5
<1>7. QED
    BY <1>3, <1>4, <1>6

(* With no run waited for, each is over or aborted.                        *)
DebugCallsOver ==
    /\ \E runs : debugRuns' \in Seq(runs)
    /\ operation' = 0 /\ Len(debugRuns') \in Nat
    /\ \A n \in DOMAIN debugRuns' :
          /\ RunFields(debugRuns'[n]) /\ ~debugRuns'[n].timer
          /\ debugRuns'[n].out => debugRuns'[n].aborted

LEMMA DebugWaitedForEnds ==
    ASSUME DebugInv, NEW n \in DOMAIN debugRuns, n = operation, NEW run, RunFields(run),
           debugRuns' = [debugRuns EXCEPT ![n] = run], operation' = 0,
           ~run.timer, run.out => run.aborted
    PROVE  DebugCallsOver
<1>1. DebugTypes
    BY DEF DebugInv
<1>2. /\ \E runs : debugRuns' \in Seq(runs)
      /\ Len(debugRuns') = Len(debugRuns) /\ DOMAIN debugRuns' = DOMAIN debugRuns
      /\ debugRuns'[n] = run /\ Len(debugRuns) \in Nat
      /\ \A k \in DOMAIN debugRuns : k # n => debugRuns'[k] = debugRuns[k]
      /\ \A k \in DOMAIN debugRuns' : RunFields(debugRuns'[k])
    BY <1>1, DebugRunChanged
<1>3. \A k \in DOMAIN debugRuns : k # n => ~debugRuns[k].timer /\ (debugRuns[k].out => debugRuns[k].aborted)
    BY DEF DebugInv, DebugCalls, DebugRunIsOwned
<1>4. ASSUME NEW k \in DOMAIN debugRuns'
      PROVE  ~debugRuns'[k].timer /\ (debugRuns'[k].out => debugRuns'[k].aborted)
    <2>1. CASE k = n
        BY <1>2, <2>1
    <2>2. CASE k # n
        BY <1>2, <1>3, <2>2
    <2>3. QED
        BY <2>1, <2>2
<1>5. QED
    BY <1>2, <1>4 DEF DebugCallsOver

LEMMA OverRunFacts ==
    /\ RunFields(OverRun) /\ ~OverRun.timer /\ ~OverRun.out /\ OverRun.aborted
    /\ LET run == [OverRun EXCEPT !.out = TRUE]
       IN  RunFields(run) /\ ~run.timer /\ run.out /\ run.aborted
BY DEF OverRun, RunFields

LEMMA AbandonFacts == ASSUME DebugInv, Abandon PROVE DebugCallsOver
<1>1. CASE operation = 0
    <2>1. debugRuns' = debugRuns /\ operation' = 0
        BY <1>1 DEF Abandon
    <2>2. PICK runs : debugRuns \in Seq(runs)
        BY DEF DebugInv, DebugTypes
    <2>3. \A n \in DOMAIN debugRuns : n # operation
        BY <1>1, <2>2
    <2>4. \A n \in DOMAIN debugRuns : ~debugRuns[n].timer /\ (debugRuns[n].out => debugRuns[n].aborted)
        BY <2>3 DEF DebugInv, DebugCalls, DebugRunIsOwned
    <2>5. Len(debugRuns') \in Nat
        BY <2>1, <2>2
    <2>6. QED
        BY <2>1, <2>2, <2>4, <2>5 DEF DebugInv, DebugTypes, DebugCallsOver
<1>2. CASE operation # 0
    <2>1. PICK run : run = [OverRun EXCEPT !.out = TRUE]
        OBVIOUS
    <2>2. RunFields(run) /\ ~run.timer /\ run.aborted
        BY <2>1, OverRunFacts
    <2>3. debugRuns' = [debugRuns EXCEPT ![operation] = run] /\ operation' = 0
        BY <1>2, <2>1 DEF Abandon, Aborted
    <2>4. operation \in DOMAIN debugRuns
        BY <1>2 DEF DebugInv, DebugTypes
    <2>5. QED
        BY <2>2, <2>3, <2>4, DebugWaitedForEnds
<1>3. QED
    BY <1>1, <1>2

LEMMA DebugOverAreCalls ==
    ASSUME DebugCallsOver
    PROVE  DebugCalls' /\ \A n \in DOMAIN debugRuns' : ~debugRuns'[n].timer
<1>1. \A n \in DOMAIN debugRuns' : n # operation'
    BY DEF DebugCallsOver
<1>2. QED
    BY <1>1 DEF DebugCallsOver, DebugCalls

LEMMA QuietIsOwned ==
    ASSUME DebugCallsOver, dbg'.busy = FALSE, dbg'.pausing = FALSE, dbg'.state # "running",
           Active(dbg'.session) <=> dbg'.state = "paused"
    PROVE  DebugRunIsOwned'
<1>1. dbg'.busy = (operation' # 0) /\ dbg'.busy = (dbg'.state = "running")
    BY DEF DebugCallsOver
<1>2. Active(dbg'.session) = (dbg'.state \in {"running", "paused"})
    BY DEF Active
<1>3. \A n \in DOMAIN debugRuns' : ~debugRuns'[n].timer
    BY DebugOverAreCalls
<1>4. QED
    BY <1>1, <1>2, <1>3 DEF DebugRunIsOwned, DebugCallsOver

(* What a session is, as a record and as the states it goes with.          *)
LEMMA DbgFacts ==
    ASSUME DebugInv
    PROVE  /\ dbg \in DbgRec /\ dbg.session \in SessionRec /\ dbg.session.id \in Nat
           /\ dbg.state \in DebugStates /\ mock \in MockRec
           /\ Active(dbg.session) <=> dbg.state \in {"running", "paused"}
           /\ operation # 0 <=> dbg.state = "running"
           /\ debugTarget \in BOOLEAN /\ (debugTarget <=> dbg.state # "unavailable")
<1>1. dbg \in DbgRec /\ mock \in MockRec /\ debugTarget \in BOOLEAN
    BY DEF DebugInv, DebugTypes
<1>2. dbg.session \in SessionRec /\ dbg.session.id \in Nat /\ dbg.state \in DebugStates
    BY <1>1 DEF DbgRec, SessionRec
<1>3. Active(dbg.session) = (dbg.state \in {"running", "paused"})
    BY DEF DebugInv, DebugRunIsOwned
<1>4. operation # 0 <=> dbg.state = "running"
    BY DEF DebugInv, DebugRunIsOwned
<1>5. debugTarget <=> dbg.state # "unavailable"
    BY DEF DebugInv, DebugStanding
<1>6. QED
    BY <1>1, <1>2, <1>3, <1>4, <1>5

(* A session that is live ends, for one reason.                            *)
LEMMA EndedInv ==
    ASSUME DebugInv, DebugCallsOver, Active(dbg.session),
           NEW s \in {"stopped", "error", "unavailable"}, NEW reason \in Endings \ {"none"},
           Ended(s, reason), debugTarget' \in BOOLEAN, debugTarget' <=> s # "unavailable",
           mock' \in MockRec, releasing' \subseteq Nat,
           \A id \in releasing' : id <= dbg.session.id
    PROVE  DebugInv' /\ DebugMove
<1>1. /\ dbg \in DbgRec /\ dbg.session \in SessionRec /\ dbg.session.id \in Nat
      /\ dbg.state \in {"running", "paused"} /\ dbg.session.ended = "none"
    BY DbgFacts DEF Active
<1>2. PICK session : session = [dbg.session EXCEPT !.ended = reason]
    OBVIOUS
<1>3. session \in SessionRec /\ session.id = dbg.session.id /\ session.ended = reason
    BY <1>1, <1>2 DEF SessionRec
<1>4. dbg' = [dbg EXCEPT !.state = s, !.busy = FALSE, !.pausing = FALSE, !.session = session,
                         !.stack = NoStop, !.frame = NoFrame, !.locals = NoFrame]
    BY <1>1, <1>2 DEF Ended, DbgRec
<1>5. NoStop \in StopRec /\ NoFrame \in FrameRec /\ s \in DebugStates
    BY DEF NoStop, NoFrame, StopRec, FrameRec, DebugStates
<1>6. /\ dbg' \in DbgRec /\ dbg'.state = s /\ dbg'.busy = FALSE /\ dbg'.pausing = FALSE
      /\ dbg'.session = session
    BY <1>1, <1>3, <1>4, <1>5 DEF DbgRec
<1>7. ~Active(dbg'.session)
    BY <1>3, <1>6 DEF Active
<1>8. DebugTypes'
    <2>1. operation' \in 0 .. Len(debugRuns')
        BY DEF DebugCallsOver
    <2>2. QED
        BY <1>6, <2>1 DEF DebugTypes, DebugCallsOver
<1>9. DebugRunIsOwned'
    BY <1>6, <1>7, QuietIsOwned
<1>10. DebugStanding' /\ StopIsTheProviders'
    BY <1>6 DEF DebugStanding, StopIsTheProviders
<1>11. ReleasesAreOld'
    BY <1>3, <1>6, <1>7 DEF ReleasesAreOld
<1>12. DebugMove
    BY <1>1, <1>6 DEF DebugMove, DebugMoves
<1>13. QED
    BY <1>8, <1>9, <1>10, <1>11, <1>12, DebugOverAreCalls DEF DebugInv

(* Only the runs and the watches change, and no run the debugger waits for. *)
LEMMA LateSettleInv ==
    ASSUME DebugInv, NEW n \in DOMAIN debugRuns, n # operation,
           debugRuns' = [debugRuns EXCEPT ![n] = OverRun],
           UNCHANGED <<dbg, watches, operation, debugTarget, mock, releasing>>
    PROVE  DebugInv'
<1>1. DebugTypes /\ operation \in 0 .. Len(debugRuns)
    BY DEF DebugInv, DebugTypes
<1>2. RunFields(OverRun) /\ ~OverRun.timer /\ ~OverRun.out /\ OverRun.aborted
    BY OverRunFacts
<1>3. /\ \E runs : debugRuns' \in Seq(runs)
      /\ Len(debugRuns') = Len(debugRuns) /\ DOMAIN debugRuns' = DOMAIN debugRuns
      /\ debugRuns'[n] = OverRun /\ Len(debugRuns) \in Nat
      /\ \A k \in DOMAIN debugRuns : k # n => debugRuns'[k] = debugRuns[k]
      /\ \A k \in DOMAIN debugRuns' : RunFields(debugRuns'[k])
    BY <1>1, <1>2, DebugRunChanged
<1>4. DebugTypes'
    BY <1>1, <1>3 DEF DebugTypes
<1>5. DebugCalls'
    BY <1>2, <1>3 DEF DebugInv, DebugCalls
<1>6. DebugRunIsOwned'
    <2>1. \A k \in DOMAIN debugRuns' : debugRuns'[k].timer => k = operation'
        BY <1>2, <1>3 DEF DebugInv, DebugRunIsOwned
    <2>2. operation # 0 => debugRuns'[operation] = debugRuns[operation]
        <3>1. PICK runs : debugRuns \in Seq(runs)
            BY <1>1 DEF DebugTypes
        <3>2. operation # 0 => operation \in DOMAIN debugRuns
            BY <1>1, <3>1
        <3>3. QED
            BY <1>3, <3>2
    <2>3. QED
        BY <1>3, <2>1, <2>2 DEF DebugInv, DebugRunIsOwned
<1>7. DebugStanding' /\ ReleasesAreOld'
    BY DEF DebugInv, DebugStanding, ReleasesAreOld
<1>8. StopIsTheProviders'
    BY DEF DebugInv, StopIsTheProviders
<1>9. QED
    BY <1>4, <1>5, <1>6, <1>7, <1>8 DEF DebugInv

-----------------------------------------------------------------------------
(* The debugger's actions: each keeps the invariant, and moves the snapshot *)
(* only as a session may move.                                             *)

DebugStep == DebugInv' /\ (DebugMove \/ UNCHANGED dbg)

LEMMA NoMockTyped == NoMock \in MockRec
BY DEF NoMock, MockRec, Names

LEMMA OutcomeStep ==
    ASSUME DebugInv, NEW n \in DOMAIN debugRuns, NEW outcome \in {"completed", "cancelled", "failed"},
           NEW stop, NEW m, Settle(n, outcome, stop, m), UNCHANGED <<debugTarget, releasing>>,
           mock' \in MockRec, n # operation => UNCHANGED mock
    PROVE  DebugStep
<1>1. CASE n # operation
    <2>1. /\ debugRuns' = [debugRuns EXCEPT ![n] = OverRun]
          /\ UNCHANGED <<dbg, watches, operation>>
        BY <1>1 DEF Settle
    <2>2. QED
        BY <1>1, <2>1, LateSettleInv DEF DebugStep
<1>2. CASE n = operation
    <2>1. n # 0
        BY DEF DebugInv, DebugTypes
    <2>2. ~debugRuns[n].settled /\ Active(dbg.session)
        BY <1>2, <2>1 DEF DebugInv, DebugRunIsOwned
    <2>3. /\ debugRuns' = [debugRuns EXCEPT ![n] = OverRun] /\ operation' = 0
          /\ ApplyOutcome(outcome, stop, m)
        BY <1>2, <2>2 DEF Settle
    <2>4. DebugCallsOver
        BY <1>2, <2>3, OverRunFacts, DebugWaitedForEnds
    <2>5. PICK s : s = Ends[outcome].state
        OBVIOUS
    <2>6. PICK reason : reason = Ends[outcome].reason
        OBVIOUS
    <2>7. s \in {"stopped", "error"} /\ reason \in Endings \ {"none"}
        BY <2>5, <2>6 DEF Ends, Endings
    <2>8. Ended(s, reason)
        BY <2>3, <2>5, <2>6 DEF ApplyOutcome
    <2>9. releasing' \subseteq Nat /\ \A id \in releasing' : id <= dbg.session.id
        BY DEF DebugInv, DebugTypes, ReleasesAreOld
    <2>10. s # "unavailable" /\ dbg.state # "unavailable"
        BY <2>2, <2>7, DbgFacts
    <2>11. debugTarget' \in BOOLEAN /\ (debugTarget' <=> s # "unavailable")
        BY <2>10, DbgFacts
    <2>12. s \in {"stopped", "error", "unavailable"}
        BY <2>7
    <2>13. QED
        BY <2>2, <2>4, <2>7, <2>8, <2>9, <2>11, <2>12, EndedInv DEF DebugStep
<1>3. QED
    BY <1>1, <1>2

(* A stop is shown as the provider stands there.                           *)
LEMMA PausedStep ==
    ASSUME DebugInv, NEW n \in DOMAIN debugRuns, n = operation, NEW line \in 1 .. LineCount,
           NEW stop \in StopRec, stop.session = mock.session, stop.stop = mock.stop + 1,
           stop.line = line, mock.session = debugRuns[n].session,
           NEW stopped, stopped = [mock EXCEPT !.line = line, !.stop = @ + 1, !.pausing = FALSE],
           mock' = stopped, Settle(n, "paused", stop, stopped), UNCHANGED <<debugTarget, releasing>>
    PROVE  DebugStep
<1>1. n # 0
    BY DEF DebugInv, DebugTypes
<1>2. /\ ~debugRuns[n].settled /\ Active(dbg.session) /\ debugRuns[n].session = dbg.session.id
      /\ dbg.state = "running"
    BY <1>1, DbgFacts DEF DebugInv, DebugRunIsOwned
<1>3. /\ debugRuns' = [debugRuns EXCEPT ![n] = OverRun] /\ operation' = 0
      /\ Paused(stop, stopped)
    BY <1>2 DEF Settle, ApplyOutcome
<1>4. DebugCallsOver
    BY <1>3, OverRunFacts, DebugWaitedForEnds
<1>5. /\ stopped \in MockRec /\ stopped.session = dbg.session.id /\ stopped.stop = stop.stop
      /\ stopped.line = line /\ mock.stop \in Nat
    <2>1. mock \in MockRec /\ mock.stop \in Nat /\ line \in 0 .. LineCount
        BY DbgFacts DEF MockRec
    <2>2. PICK k : k = mock.stop + 1
        OBVIOUS
    <2>3. k \in Nat /\ stopped = [mock EXCEPT !.line = line, !.stop = k, !.pausing = FALSE]
        BY <2>1, <2>2
    <2>4. stopped \in MockRec /\ stopped.session = mock.session /\ stopped.stop = k /\ stopped.line = line
        BY <2>1, <2>3 DEF MockRec
    <2>5. QED
        BY <1>2, <2>1, <2>2, <2>4
<1>6. PICK top : top = TopFrame(stop)
    OBVIOUS
<1>7. /\ top \in FrameRec /\ top.session = dbg.session.id /\ top.stop = stop.stop
      /\ Read(stopped, top) = top
    BY <1>2, <1>5, <1>6 DEF TopFrame, FrameRec, StopRec, Read
<1>8. /\ dbg' = [dbg EXCEPT !.state = "paused", !.busy = FALSE, !.pausing = FALSE, !.stack = stop,
                            !.frame = top, !.locals = top]
      /\ watches' = [e \in DOMAIN watches |-> top]
    BY <1>3, <1>6, <1>7 DEF Paused, ReadAll
<1>9. /\ dbg' \in DbgRec /\ dbg'.state = "paused" /\ dbg'.busy = FALSE /\ dbg'.pausing = FALSE
      /\ dbg'.stack = stop /\ dbg'.frame = top /\ dbg'.locals = top /\ dbg'.session = dbg.session
    BY <1>7, <1>8, DbgFacts DEF DbgRec, DebugStates
<1>10. DebugTypes'
    <2>1. operation' \in 0 .. Len(debugRuns')
        BY <1>4 DEF DebugCallsOver
    <2>2. QED
        BY <1>4, <1>5, <1>9, <2>1 DEF DebugTypes, DebugCallsOver, DebugInv
<1>11. DebugRunIsOwned'
    BY <1>2, <1>4, <1>9, QuietIsOwned
<1>12. DebugStanding'
    BY <1>2, <1>9, DbgFacts DEF DebugStanding
<1>13. ReleasesAreOld'
    BY <1>2, <1>9 DEF DebugInv, ReleasesAreOld
<1>14. top \in Frames(stop)
    <2>1. stop # NoStop
        BY <1>5 DEF NoStop
    <2>2. Depth[line] \in Nat /\ Depth[line] >= 1
        BY LinesHaveDepth
    <2>3. 0 \in 0 .. Depth[line] - 1
        BY <2>2
    <2>4. QED
        BY <1>6, <2>1, <2>3 DEF Frames, TopFrame
<1>15. StopIsTheProviders'
    <2>1. \A e \in DOMAIN watches' : watches'[e] = top
        BY <1>8
    <2>2. QED
        BY <1>2, <1>5, <1>9, <1>14, <2>1 DEF StopIsTheProviders
<1>16. DebugMove
    BY <1>2, <1>9 DEF DebugMove, DebugMoves
<1>17. QED
    BY <1>4, <1>10, <1>11, <1>12, <1>13, <1>15, <1>16, DebugOverAreCalls DEF DebugInv, DebugStep

LEMMA DebugAnsweredStep ==
    ASSUME DebugInv, NEW n \in DOMAIN debugRuns, DebugAnswered(n)
    PROVE  DebugStep
<1> DEFINE run == debugRuns[n]
           line == IF run.kind = "start" THEN 1 ELSE NextLine(mock, run.mode, run.enabled)
           stop == [ session |-> run.session, stop |-> mock.stop + 1, line |-> line,
                     reason |-> ReasonFor(mock, line, run.mode, run.enabled) ]
           stopped == [mock EXCEPT !.line = line, !.stop = @ + 1, !.pausing = FALSE]
<1>1. run.out /\ UNCHANGED <<debugTarget, releasing>> /\ mock \in MockRec
    BY DbgFacts DEF DebugAnswered
<1>2. CASE run.aborted
    <2>1. UNCHANGED mock /\ Settle(n, "cancelled", NoStop, mock)
        BY <1>2 DEF DebugAnswered
    <2>2. QED
        BY <1>1, <2>1, OutcomeStep
<1>3. CASE ~run.aborted
    <2>1. n = operation
        BY <1>1, <1>3 DEF DebugInv, DebugCalls
    <2>2. CASE mock.session # run.session
        <3>1. UNCHANGED mock /\ Settle(n, "failed", NoStop, mock)
            BY <1>3, <2>2 DEF DebugAnswered
        <3>2. QED
            BY <1>1, <3>1, OutcomeStep
    <2>3. CASE mock.session = run.session /\ line = 0
        <3>1. mock' = NoMock /\ Settle(n, "completed", NoStop, NoMock)
            BY <1>3, <2>3 DEF DebugAnswered
        <3>2. NoMock \in MockRec
            BY NoMockTyped
        <3>3. QED
            BY <1>1, <2>1, <3>1, <3>2, OutcomeStep
    <2>4. CASE mock.session = run.session /\ line # 0
        <3>1. mock' = stopped /\ Settle(n, "paused", stop, stopped)
            BY <1>3, <2>4 DEF DebugAnswered
        <3>2. NextLine(mock, run.mode, run.enabled) \in 0 .. LineCount
            BY <1>1, NextLineLands DEF MockRec
        <3>3. line \in 1 .. LineCount
            BY <2>4, <3>2
        <3>4. PICK reason : reason = ReasonFor(mock, line, run.mode, run.enabled)
            OBVIOUS
        <3>5. reason \in {"none", "pause", "breakpoint", "entry", "step"}
            BY <3>4 DEF ReasonFor
        <3>6. PICK l : l = line
            OBVIOUS
        <3>7. PICK t : t = [session |-> run.session, stop |-> mock.stop + 1, line |-> l, reason |-> reason]
            OBVIOUS
        <3>8. /\ t \in StopRec /\ t.session = mock.session /\ t.stop = mock.stop + 1 /\ t.line = l
              /\ l \in 1 .. LineCount
            BY <1>1, <2>4, <3>3, <3>5, <3>6, <3>7 DEF StopRec, MockRec
        <3>9. PICK m : m = [mock EXCEPT !.line = l, !.stop = @ + 1, !.pausing = FALSE]
            OBVIOUS
        <3>10. mock' = m /\ Settle(n, "paused", t, m)
            BY <3>1, <3>4, <3>6, <3>7, <3>9
        <3>11. mock.session = debugRuns[n].session
            BY <2>4
        <3> HIDE DEF run, line, stop, stopped
        <3>12. QED
            BY <1>1, <2>1, <3>8, <3>9, <3>10, <3>11, PausedStep
    <2>5. QED
        BY <2>2, <2>3, <2>4
<1>4. QED
    BY <1>2, <1>3

LEMMA DebugRefusedStep ==
    ASSUME DebugInv, NEW n \in DOMAIN debugRuns, DebugRefused(n)
    PROVE  DebugStep
BY OutcomeStep, DbgFacts DEF DebugRefused

LEMMA DebugTimesOutStep ==
    ASSUME DebugInv, NEW n \in DOMAIN debugRuns, DebugTimesOut(n)
    PROVE  DebugStep
<1>1. n = operation /\ n # 0
    BY DEF DebugTimesOut, DebugInv, DebugRunIsOwned, DebugTypes
<1>2. Active(dbg.session)
    BY <1>1 DEF DebugInv, DebugRunIsOwned
<1>3. PICK run : run = [OverRun EXCEPT !.out = TRUE]
    OBVIOUS
<1>4. RunFields(run) /\ ~run.timer /\ run.aborted
    BY <1>3, OverRunFacts
<1>5. debugRuns' = [debugRuns EXCEPT ![n] = run] /\ operation' = 0
    BY <1>1, <1>3 DEF DebugTimesOut, Aborted
<1>6. DebugCallsOver
    BY <1>1, <1>4, <1>5, DebugWaitedForEnds
<1>7. PICK s : s = "error"
    OBVIOUS
<1>8. PICK reason : reason = "failed"
    OBVIOUS
<1>9. Ended(s, reason) /\ UNCHANGED <<debugTarget, mock, releasing>>
    BY <1>7, <1>8 DEF DebugTimesOut
<1>10. s \in {"stopped", "error", "unavailable"} /\ reason \in Endings \ {"none"}
    BY <1>7, <1>8 DEF Endings
<1>11. debugTarget' \in BOOLEAN /\ (debugTarget' <=> s # "unavailable")
    BY <1>2, <1>7, <1>9, DbgFacts
<1>12. mock' \in MockRec /\ releasing' \subseteq Nat /\ \A id \in releasing' : id <= dbg.session.id
    BY <1>9, DbgFacts DEF DebugInv, DebugTypes, ReleasesAreOld
<1>13. QED
    BY <1>2, <1>6, <1>9, <1>10, <1>11, <1>12, EndedInv DEF DebugStep

(* A run begun while none is waited for is the only one that is owned.     *)
LEMMA BegunIsOwned ==
    ASSUME DebugInv, operation = 0, NEW kind, NEW session \in Nat, NEW mode, NEW enabled,
           BeginRun(kind, session, mode, enabled),
           dbg'.busy = TRUE, dbg'.pausing = FALSE, dbg'.state = "running",
           dbg'.session.id = session, Active(dbg'.session)
    PROVE  /\ \E runs : debugRuns' \in Seq(runs)
           /\ \A n \in DOMAIN debugRuns' : RunFields(debugRuns'[n])
           /\ operation' \in 0 .. Len(debugRuns')
           /\ DebugCalls' /\ DebugRunIsOwned'
<1>1. /\ \E runs : debugRuns' \in Seq(runs)
      /\ operation' = Len(debugRuns') /\ operation' # 0 /\ operation' \in Nat
      /\ \A n \in DOMAIN debugRuns : debugRuns'[n] = debugRuns[n] /\ n # operation' /\ n # 0
      /\ \A n \in DOMAIN debugRuns' : n = operation' \/ n \in DOMAIN debugRuns
      /\ LET run == debugRuns'[operation']
         IN  run.session = session /\ run.timer /\ ~run.settled /\ ~run.aborted /\ RunFields(run)
    BY BeginRunFacts DEF DebugInv
<1>2. operation' \in 0 .. Len(debugRuns')
    BY <1>1
<1>3. \A n \in DOMAIN debugRuns : /\ RunFields(debugRuns[n]) /\ ~debugRuns[n].timer
                                  /\ debugRuns[n].out => debugRuns[n].aborted
    BY <1>1 DEF DebugInv, DebugTypes, DebugCalls, DebugRunIsOwned
<1>4. \A n \in DOMAIN debugRuns' : RunFields(debugRuns'[n]) /\ (debugRuns'[n].timer => n = operation')
    BY <1>1, <1>3
<1>5. DebugCalls'
    BY <1>1, <1>3 DEF DebugCalls
<1>6. DebugRunIsOwned'
    <2>1. dbg'.busy = (operation' # 0) /\ dbg'.busy = (dbg'.state = "running")
        BY <1>1
    <2>2. Active(dbg'.session) = (dbg'.state \in {"running", "paused"})
        BY DEF Active
    <2>3. QED
        BY <1>1, <1>4, <2>1, <2>2 DEF DebugRunIsOwned
<1>7. QED
    BY <1>1, <1>2, <1>4, <1>5, <1>6

LEMMA StartDebugStep ==
    ASSUME DebugInv, NEW script \in Scripts, StartDebug(script)
    PROVE  DebugStep
<1>1. /\ dbg \in DbgRec /\ dbg.session.id \in Nat /\ operation = 0 /\ dbg.state \in Startable
      /\ debugTarget /\ ~Active(dbg.session)
    BY DbgFacts DEF StartDebug, StartRefused, Startable
<1>2. PICK id : id = dbg.session.id + 1
    OBVIOUS
<1>3. id \in Nat /\ id > dbg.session.id /\ id # 0
    BY <1>1, <1>2
<1>4. PICK session : session = [id |-> id, script |-> script, ended |-> "none"]
    OBVIOUS
<1>5. session \in SessionRec /\ session.id = id /\ Active(session)
    BY <1>3, <1>4 DEF SessionRec, Names, Endings, Active
<1>6. /\ dbg' = [dbg EXCEPT !.state = "running", !.busy = TRUE, !.pausing = FALSE,
                            !.session = session,
                            !.stack = NoStop, !.frame = NoFrame, !.locals = NoFrame]
      /\ BeginRun("start", id, "none", EnabledSpots(ResetHitCounts(breakpoints)))
      /\ mock' = [NoMock EXCEPT !.session = id, !.script = script]
      /\ UNCHANGED <<watches, debugTarget, releasing>>
    BY <1>2, <1>4 DEF StartDebug
<1>7. NoStop \in StopRec /\ NoFrame \in FrameRec
    BY DEF NoStop, NoFrame, StopRec, FrameRec
<1>8. /\ dbg' \in DbgRec /\ dbg'.state = "running" /\ dbg'.busy = TRUE /\ dbg'.pausing = FALSE
      /\ dbg'.session = session
    BY <1>1, <1>5, <1>6, <1>7 DEF DbgRec, DebugStates
<1>9. mock' \in MockRec
    <2>1. script \in Names
        BY DEF Names
    <2>2. [NoMock EXCEPT !.session = id, !.script = script] \in MockRec
        BY <1>3, <2>1, NoMockTyped DEF MockRec
    <2>3. QED
        BY <1>6, <2>2
<1>10. /\ \E runs : debugRuns' \in Seq(runs)
       /\ \A n \in DOMAIN debugRuns' : RunFields(debugRuns'[n])
       /\ operation' \in 0 .. Len(debugRuns')
       /\ DebugCalls' /\ DebugRunIsOwned'
    BY <1>1, <1>3, <1>5, <1>6, <1>8, BegunIsOwned
<1>11. DebugTypes'
    BY <1>6, <1>8, <1>9, <1>10 DEF DebugTypes, DebugInv
<1>12. DebugStanding'
    BY <1>1, <1>6, <1>8 DEF DebugStanding
<1>13. ReleasesAreOld'
    <2>1. \A r \in releasing : r \in Nat /\ r <= dbg.session.id
        BY DEF DebugInv, DebugTypes, ReleasesAreOld
    <2>2. \A r \in releasing : r <= id /\ r # id
        BY <1>1, <1>2, <2>1
    <2>3. QED
        BY <1>5, <1>6, <1>8, <2>2 DEF ReleasesAreOld
<1>14. StopIsTheProviders'
    BY <1>8 DEF StopIsTheProviders
<1>15. DebugMove
    BY <1>1, <1>3, <1>5, <1>8 DEF DebugMove, DebugMoves, Startable
<1>16. QED
    BY <1>10, <1>11, <1>12, <1>13, <1>14, <1>15 DEF DebugInv, DebugStep

LEMMA ResumeStep ==
    ASSUME DebugInv, NEW mode \in Modes, Resume(mode)
    PROVE  DebugStep
<1>1. /\ dbg \in DbgRec /\ dbg.session.id \in Nat /\ operation = 0 /\ dbg.state = "paused"
      /\ Active(dbg.session) /\ debugTarget
    BY DbgFacts DEF Resume, ResumeRefused
<1>2. /\ dbg' = [dbg EXCEPT !.state = "running", !.busy = TRUE, !.pausing = FALSE]
      /\ BeginRun("resume", dbg.session.id, mode, EnabledSpots(breakpoints))
      /\ UNCHANGED <<watches, debugTarget, mock, releasing>>
    BY DEF Resume
<1>3. /\ dbg' \in DbgRec /\ dbg'.state = "running" /\ dbg'.busy = TRUE /\ dbg'.pausing = FALSE
      /\ dbg'.session = dbg.session
    BY <1>1, <1>2 DEF DbgRec, DebugStates
<1>4. /\ \E runs : debugRuns' \in Seq(runs)
      /\ \A n \in DOMAIN debugRuns' : RunFields(debugRuns'[n])
      /\ operation' \in 0 .. Len(debugRuns')
      /\ DebugCalls' /\ DebugRunIsOwned'
    BY <1>1, <1>2, <1>3, BegunIsOwned
<1>5. DebugTypes'
    BY <1>2, <1>3, <1>4 DEF DebugTypes, DebugInv
<1>6. DebugStanding'
    BY <1>1, <1>2, <1>3 DEF DebugStanding
<1>7. ReleasesAreOld'
    BY <1>2, <1>3 DEF DebugInv, ReleasesAreOld
<1>8. StopIsTheProviders'
    BY <1>3 DEF StopIsTheProviders
<1>9. DebugMove
    BY <1>1, <1>3 DEF DebugMove, DebugMoves
<1>10. QED
    BY <1>4, <1>5, <1>6, <1>7, <1>8, <1>9 DEF DebugInv, DebugStep

LEMMA PauseDebugStep == ASSUME DebugInv, PauseDebug PROVE DebugStep
<1>1. /\ dbg \in DbgRec /\ mock \in MockRec /\ dbg.state = "running"
      /\ dbg' = [dbg EXCEPT !.pausing = TRUE]
      /\ UNCHANGED <<watches, debugRuns, operation, debugTarget, releasing>>
    BY DbgFacts DEF PauseDebug, PauseRefused, runVars
<1>2. /\ dbg' \in DbgRec /\ dbg'.state = "running" /\ dbg'.busy = dbg.busy /\ dbg'.pausing = TRUE
      /\ dbg'.session = dbg.session
    BY <1>1 DEF DbgRec
<1>3. mock' \in MockRec
    <2>1. [mock EXCEPT !.pausing = TRUE] \in MockRec
        BY <1>1 DEF MockRec
    <2>2. QED
        BY <1>1, <2>1 DEF PauseDebug
<1>4. DebugTypes'
    BY <1>1, <1>2, <1>3 DEF DebugInv, DebugTypes
<1>5. DebugCalls' /\ DebugStanding' /\ ReleasesAreOld'
    <2>1. DebugCalls'
        BY <1>1 DEF DebugInv, DebugCalls
    <2>2. DebugStanding'
        BY <1>1, <1>2, DbgFacts DEF DebugStanding
    <2>3. ReleasesAreOld'
        BY <1>1, <1>2 DEF DebugInv, ReleasesAreOld
    <2>4. QED
        BY <2>1, <2>2, <2>3
<1>6. DebugRunIsOwned'
    <2>1. dbg'.busy
        BY <1>1, <1>2 DEF DebugInv, DebugRunIsOwned
    <2>2. QED
        BY <1>1, <1>2, <2>1 DEF DebugInv, DebugRunIsOwned
<1>7. StopIsTheProviders' /\ DebugMove
    BY <1>1, <1>2 DEF StopIsTheProviders, DebugMove
<1>8. QED
    BY <1>4, <1>5, <1>6, <1>7 DEF DebugInv, DebugStep

(* The provider lets go of a session that no longer is live.               *)
LEMMA ReleaseFacts ==
    ASSUME DebugInv, Release(dbg.session.id)
    PROVE  releasing' \subseteq Nat /\ \A id \in releasing' : id <= dbg.session.id
<1>1. dbg.session.id \in Nat /\ \A id \in releasing : id \in Nat /\ id <= dbg.session.id
    BY DbgFacts DEF DebugInv, DebugTypes, ReleasesAreOld
<1>2. QED
    BY <1>1 DEF Release

LEMMA StopDebugStep == ASSUME DebugInv, StopDebug PROVE DebugStep
<1>1. /\ Active(dbg.session) /\ Abandon /\ Ended("stopped", "stopped") /\ Release(dbg.session.id)
      /\ UNCHANGED <<debugTarget, mock>>
    BY DEF StopDebug
<1>2. DebugCallsOver
    BY <1>1, AbandonFacts
<1>3. PICK s : s = "stopped"
    OBVIOUS
<1>4. s \in {"stopped", "error", "unavailable"} /\ s \in Endings \ {"none"} /\ Ended(s, s)
    BY <1>1, <1>3 DEF Endings
<1>5. debugTarget' \in BOOLEAN /\ (debugTarget' <=> s # "unavailable") /\ mock' \in MockRec
    BY <1>1, <1>3, DbgFacts
<1>6. releasing' \subseteq Nat /\ \A id \in releasing' : id <= dbg.session.id
    BY <1>1, ReleaseFacts
<1>7. QED
    BY <1>1, <1>2, <1>4, <1>5, <1>6, EndedInv DEF DebugStep

(* A change of the state alone, of a session that is not live.             *)
LEMMA IdleStateStep ==
    ASSUME DebugInv, ~Active(dbg.session), NEW s \in {"ready", "unavailable", "stopped", "error"},
           dbg' = [dbg EXCEPT !.state = s],
           s \in {dbg.state} \cup DebugMoves[dbg.state],
           debugTarget' \in BOOLEAN, debugTarget' <=> s # "unavailable",
           UNCHANGED <<watches, debugRuns, operation, mock, releasing>>
    PROVE  DebugStep
<1>1. /\ dbg \in DbgRec /\ operation = 0 /\ dbg.state \notin {"running", "paused"}
    BY DbgFacts
<1>2. dbg.busy = FALSE /\ dbg.pausing = FALSE
    BY <1>1 DEF DebugInv, DebugRunIsOwned, DbgRec
<1>3. /\ dbg' \in DbgRec /\ dbg'.state = s /\ dbg'.busy = FALSE /\ dbg'.pausing = FALSE
      /\ dbg'.session = dbg.session
    BY <1>1, <1>2 DEF DbgRec, DebugStates
<1>4. DebugTypes'
    BY <1>3 DEF DebugInv, DebugTypes
<1>5. DebugCalls'
    BY DEF DebugInv, DebugCalls
<1>6. ReleasesAreOld'
    BY <1>3 DEF DebugInv, ReleasesAreOld
<1>7. DebugStanding' /\ StopIsTheProviders' /\ DebugMove
    BY <1>3 DEF DebugStanding, StopIsTheProviders, DebugMove
<1>8. DebugRunIsOwned'
    <2>1. dbg'.busy = (operation' # 0) /\ dbg'.busy = (dbg'.state = "running")
        BY <1>1, <1>3
    <2>2. Active(dbg'.session) = (dbg'.state \in {"running", "paused"})
        BY <1>3 DEF Active
    <2>3. \A n \in DOMAIN debugRuns : debugRuns[n].timer => n = operation
        BY DEF DebugInv, DebugRunIsOwned
    <2>4. QED
        BY <1>1, <1>3, <2>1, <2>2, <2>3 DEF DebugRunIsOwned
<1>9. QED
    BY <1>4, <1>5, <1>6, <1>7, <1>8 DEF DebugInv, DebugStep

LEMMA DismissDebugStep == ASSUME DebugInv, DismissDebug PROVE DebugStep
<1>1. /\ ~Active(dbg.session)
      /\ dbg' = [dbg EXCEPT !.state = IF debugTarget THEN "ready" ELSE "unavailable"]
      /\ UNCHANGED <<watches, debugRuns, operation, debugTarget, mock, releasing>>
    BY DEF DismissDebug, runVars
<1>2. PICK s : s = IF debugTarget THEN "ready" ELSE "unavailable"
    OBVIOUS
<1>3. s \in {"ready", "unavailable", "stopped", "error"} /\ dbg' = [dbg EXCEPT !.state = s]
    BY <1>1, <1>2
<1>4. debugTarget' \in BOOLEAN /\ (debugTarget' <=> s # "unavailable")
    BY <1>1, <1>2, DbgFacts
<1>5. s \in {dbg.state} \cup DebugMoves[dbg.state]
    <2>1. CASE debugTarget
        <3>1. dbg.state \in {"ready", "stopped", "error"} /\ s = "ready"
            BY <1>1, <1>2, <2>1, DbgFacts DEF DebugStates
        <3>2. QED
            BY <3>1 DEF DebugMoves
    <2>2. CASE ~debugTarget
        BY <1>2, <2>2, DbgFacts
    <2>3. QED
        BY <2>1, <2>2
<1>6. QED
    BY <1>1, <1>3, <1>4, <1>5, IdleStateStep

LEMMA DebugTargetFoundStep == ASSUME DebugInv, DebugTargetFound PROVE DebugStep
<1>1. dbg.state = "unavailable" /\ ~Active(dbg.session)
    BY DbgFacts DEF DebugTargetFound
<1>2. PICK s : s = "ready"
    OBVIOUS
<1>3. /\ dbg' = [dbg EXCEPT !.state = s] /\ debugTarget' = TRUE
      /\ UNCHANGED <<watches, debugRuns, operation, mock, releasing>>
    BY <1>1, <1>2 DEF DebugTargetFound, runVars
<1>4. debugTarget' \in BOOLEAN /\ (debugTarget' <=> s # "unavailable")
    BY <1>2, <1>3
<1>5. s \in {"ready", "unavailable", "stopped", "error"} /\ s \in {dbg.state} \cup DebugMoves[dbg.state]
    BY <1>1, <1>2 DEF DebugMoves
<1>6. QED
    BY <1>1, <1>3, <1>4, <1>5, IdleStateStep

LEMMA DebugTargetLostStep == ASSUME DebugInv, DebugTargetLost PROVE DebugStep
<1>1. debugTarget /\ debugTarget' = FALSE /\ UNCHANGED mock
    BY DEF DebugTargetLost
<1>2. CASE Active(dbg.session)
    <2>1. Abandon /\ Ended("unavailable", "target-lost") /\ Release(dbg.session.id)
        BY <1>2 DEF DebugTargetLost
    <2>2. DebugCallsOver
        BY <2>1, AbandonFacts
    <2>3. PICK s : s = "unavailable"
        OBVIOUS
    <2>4. PICK reason : reason = "target-lost"
        OBVIOUS
    <2>5. s \in {"stopped", "error", "unavailable"} /\ reason \in Endings \ {"none"} /\ Ended(s, reason)
        BY <2>1, <2>3, <2>4 DEF Endings
    <2>6. debugTarget' \in BOOLEAN /\ (debugTarget' <=> s # "unavailable") /\ mock' \in MockRec
        BY <1>1, <2>3, DbgFacts
    <2>7. releasing' \subseteq Nat /\ \A id \in releasing' : id <= dbg.session.id
        BY <2>1, ReleaseFacts
    <2>8. QED
        BY <1>2, <2>2, <2>5, <2>6, <2>7, EndedInv DEF DebugStep
<1>3. CASE ~Active(dbg.session)
    <2>1. /\ dbg' = [dbg EXCEPT !.state = "unavailable", !.busy = FALSE, !.pausing = FALSE]
          /\ UNCHANGED <<watches, debugRuns, operation, releasing>>
        BY <1>3 DEF DebugTargetLost, runVars
    <2>2. dbg \in DbgRec /\ dbg.state \in {"ready", "stopped", "error"}
        BY <1>1, <1>3, DbgFacts DEF DebugStates
    <2>3. dbg.busy = FALSE /\ dbg.pausing = FALSE
        BY <2>2 DEF DebugInv, DebugRunIsOwned, DbgRec
    <2>4. PICK s : s = "unavailable"
        OBVIOUS
    <2>5. dbg' = [dbg EXCEPT !.state = s]
        BY <2>1, <2>2, <2>3, <2>4 DEF DbgRec
    <2>6. debugTarget' \in BOOLEAN /\ (debugTarget' <=> s # "unavailable")
        BY <1>1, <2>4
    <2>7. /\ s \in {"ready", "unavailable", "stopped", "error"}
          /\ s \in {dbg.state} \cup DebugMoves[dbg.state]
        BY <2>2, <2>4 DEF DebugMoves
    <2>8. QED
        BY <1>1, <1>3, <2>1, <2>5, <2>6, <2>7, IdleStateStep
<1>4. QED
    BY <1>2, <1>3

LEMMA ReleasedStep ==
    ASSUME DebugInv, NEW id \in releasing, Released(id)
    PROVE  DebugStep
<1>1. /\ releasing' = releasing \ {id} /\ mock' = IF mock.session = id THEN NoMock ELSE mock
      /\ UNCHANGED <<dbg, watches, debugRuns, operation, debugTarget>>
    BY DEF Released, runVars
<1>2. mock' \in MockRec
    <2>1. NoMock \in MockRec /\ mock \in MockRec
        BY DbgFacts, NoMockTyped
    <2>2. QED
        BY <1>1, <2>1
<1>3. DebugTypes'
    BY <1>1, <1>2 DEF DebugInv, DebugTypes
<1>4. DebugCalls' /\ DebugRunIsOwned'
    BY <1>1 DEF DebugInv, DebugCalls, DebugRunIsOwned
<1>5. DebugStanding'
    BY <1>1 DEF DebugInv, DebugStanding
<1>6. ReleasesAreOld'
    BY <1>1 DEF DebugInv, ReleasesAreOld
<1>7. StopIsTheProviders'
    <2>1. SUFFICES ASSUME dbg.state = "paused" PROVE UNCHANGED mock
        BY <1>1 DEF DebugInv, StopIsTheProviders
    <2>2. Active(dbg.session) /\ mock.session = dbg.session.id
        BY <2>1, DbgFacts DEF DebugInv, StopIsTheProviders
    <2>3. id # dbg.session.id
        BY <2>2 DEF DebugInv, ReleasesAreOld
    <2>4. QED
        BY <1>1, <2>2, <2>3
<1>8. QED
    BY <1>1, <1>3, <1>4, <1>5, <1>6, <1>7 DEF DebugInv, DebugStep

(* What is read while paused is read from the stop the provider is at.     *)
LEMMA ReadWhilePaused ==
    ASSUME DebugInv, dbg.state = "paused", NEW frame \in Frames(dbg.stack)
    PROVE  Read(mock, frame) = frame /\ frame \in FrameRec
<1>1. /\ dbg.stack.session = mock.session /\ mock.stop = dbg.stack.stop /\ mock.line = dbg.stack.line
    BY DEF DebugInv, StopIsTheProviders
<1>2. PICK p \in 0 .. Depth[dbg.stack.line] - 1 :
          frame = [session |-> dbg.stack.session, stop |-> dbg.stack.stop, position |-> p]
    BY DEF Frames
<1>3. dbg.stack.session \in Nat /\ dbg.stack.stop \in Nat /\ p \in Nat
    BY DbgFacts, <1>1, <1>2 DEF MockRec
<1>4. QED
    BY <1>1, <1>2, <1>3 DEF Read, FrameRec

LEMMA SelectFrameStep ==
    ASSUME DebugInv, NEW frame \in Frames(dbg.stack), SelectFrame(frame)
    PROVE  DebugStep
<1>1. /\ dbg.state = "paused"
      /\ dbg' = [dbg EXCEPT !.frame = frame, !.locals = frame]
      /\ watches' = [e \in DOMAIN watches |-> frame]
      /\ UNCHANGED <<debugRuns, operation, debugTarget, mock, releasing>>
      /\ frame \in FrameRec
    BY ReadWhilePaused DEF SelectFrame, ReadAll, runVars
<1>2. /\ dbg' \in DbgRec /\ dbg'.state = dbg.state /\ dbg'.busy = dbg.busy
      /\ dbg'.pausing = dbg.pausing /\ dbg'.session = dbg.session /\ dbg'.stack = dbg.stack
      /\ dbg'.frame = frame /\ dbg'.locals = frame
    BY <1>1, DbgFacts DEF DbgRec
<1>3. DebugTypes'
    BY <1>1, <1>2 DEF DebugInv, DebugTypes
<1>4. DebugCalls' /\ DebugRunIsOwned'
    BY <1>1, <1>2 DEF DebugInv, DebugCalls, DebugRunIsOwned
<1>5. DebugStanding'
    BY <1>1, <1>2, DbgFacts DEF DebugStanding
<1>6. ReleasesAreOld'
    BY <1>1, <1>2 DEF DebugInv, ReleasesAreOld
<1>7. StopIsTheProviders'
    <2>1. \A e \in DOMAIN watches' : watches'[e] = frame
        BY <1>1
    <2>2. QED
        BY <1>1, <1>2, <2>1 DEF DebugInv, StopIsTheProviders
<1>8. DebugMove
    BY <1>2 DEF DebugMove
<1>9. QED
    BY <1>3, <1>4, <1>5, <1>6, <1>7, <1>8 DEF DebugInv, DebugStep

(* The lists around a session: what is watched shows the frame selected.   *)
LEMMA ListsStep ==
    ASSUME DebugInv, UNCHANGED <<dbg, debugRuns, operation, debugTarget, mock, releasing>>,
           dbg.state = "paused" => \A e \in DOMAIN watches' : watches'[e] = dbg.frame
    PROVE  DebugStep
<1>1. DebugTypes'
    BY DEF DebugInv, DebugTypes
<1>2. DebugCalls' /\ DebugRunIsOwned'
    BY DEF DebugInv, DebugCalls, DebugRunIsOwned
<1>3. DebugStanding' /\ ReleasesAreOld'
    BY DEF DebugInv, DebugStanding, ReleasesAreOld
<1>4. StopIsTheProviders'
    BY DEF DebugInv, StopIsTheProviders
<1>5. QED
    BY <1>1, <1>2, <1>3, <1>4 DEF DebugInv, DebugStep

LEMMA WatchesStep ==
    ASSUME DebugInv,
           \/ \E e \in Expressions : AddWatch(e) \/ RemoveWatch(e)
           \/ ClearWatches \/ RefreshWatches
    PROVE  DebugStep
<1>1. UNCHANGED <<dbg, debugRuns, operation, debugTarget, mock, releasing>>
    BY DEF AddWatch, RemoveWatch, ClearWatches, RefreshWatches, WatchesChange, runVars
<1>2. ASSUME dbg.state = "paused" PROVE \A e \in DOMAIN watches' : watches'[e] = dbg.frame
    <2>1. ShownFrame = dbg.frame
        BY <1>2, ReadWhilePaused DEF DebugInv, StopIsTheProviders, ShownFrame
    <2>2. \A e \in DOMAIN watches : watches[e] = dbg.frame
        BY <1>2 DEF DebugInv, StopIsTheProviders
    <2>3. CASE \E e \in Expressions : AddWatch(e)
        BY <2>1, <2>2, <2>3 DEF AddWatch, WatchesChange
    <2>4. CASE \E e \in Expressions : RemoveWatch(e)
        BY <2>2, <2>4 DEF RemoveWatch, WatchesChange
    <2>5. CASE ClearWatches
        BY <2>5 DEF ClearWatches, WatchesChange
    <2>6. CASE RefreshWatches
        BY <2>1, <2>6 DEF RefreshWatches, WatchesChange
    <2>7. QED
        BY <2>3, <2>4, <2>5, <2>6
<1>3. QED
    BY <1>1, <1>2, ListsStep

LEMMA BreakpointsStep == ASSUME DebugInv, EditBreakpoints PROVE DebugStep
<1>1. UNCHANGED <<dbg, watches, debugRuns, operation, debugTarget, mock, releasing>>
    BY DEF EditBreakpoints, BreakpointsChange, runVars
<1>2. dbg.state = "paused" => \A e \in DOMAIN watches' : watches'[e] = dbg.frame
    BY <1>1 DEF DebugInv, StopIsTheProviders
<1>3. QED
    BY <1>1, <1>2, ListsStep

LEMMA DebuggerStepInv == ASSUME DebugInv, DebugUser \/ DebugProvider PROVE DebugStep
<1>1. CASE DebugProvider
    BY <1>1, DebugAnsweredStep, DebugRefusedStep, DebugTimesOutStep, ReleasedStep DEF DebugProvider
<1>2. CASE DebugUser
    <2>1. CASE \E script \in Scripts : StartDebug(script)
        BY <2>1, StartDebugStep
    <2>2. CASE \E mode \in Modes : Resume(mode)
        BY <2>2, ResumeStep
    <2>3. CASE PauseDebug \/ StopDebug \/ DismissDebug
        BY <2>3, PauseDebugStep, StopDebugStep, DismissDebugStep
    <2>4. CASE \E frame \in Frames(dbg.stack) : SelectFrame(frame)
        BY <2>4, SelectFrameStep
    <2>5. CASE \/ \E e \in Expressions : AddWatch(e) \/ RemoveWatch(e)
               \/ ClearWatches \/ RefreshWatches
        BY <2>5, WatchesStep
    <2>6. CASE EditBreakpoints
        BY <2>6, BreakpointsStep
    <2>7. QED
        BY <1>2, <2>1, <2>2, <2>3, <2>4, <2>5, <2>6 DEF DebugUser
<1>3. QED
    BY <1>1, <1>2

LEMMA DebugInitInv == ASSUME DebugInit PROVE DebugInv
<1>1. /\ dbg = [ state |-> "unavailable", session |-> NoSession, stack |-> NoStop,
                 frame |-> NoFrame, locals |-> NoFrame, busy |-> FALSE, pausing |-> FALSE ]
      /\ debugRuns = <<>> /\ operation = 0 /\ debugTarget = FALSE
      /\ mock = NoMock /\ releasing = {}
    BY DEF DebugInit
<1>2. NoSession \in SessionRec /\ ~Active(NoSession)
    BY DEF NoSession, SessionRec, Names, Endings, Active
<1>3. NoStop \in StopRec /\ NoFrame \in FrameRec /\ mock \in MockRec
    BY <1>1, NoMockTyped DEF NoStop, NoFrame, StopRec, FrameRec
<1>4. /\ dbg \in DbgRec /\ dbg.state = "unavailable" /\ dbg.busy = FALSE /\ dbg.pausing = FALSE
      /\ dbg.session = NoSession
    BY <1>1, <1>2, <1>3 DEF DbgRec, DebugStates
<1>5. debugRuns \in Seq({}) /\ Len(debugRuns) = 0 /\ DOMAIN debugRuns = {}
    BY <1>1
<1>6. DebugTypes
    <2>1. operation \in 0 .. Len(debugRuns)
        BY <1>1, <1>5
    <2>2. \E runs : debugRuns \in Seq(runs)
        BY <1>5
    <2>3. debugTarget \in BOOLEAN /\ releasing \subseteq Nat
        BY <1>1
    <2>4. QED
        BY <1>3, <1>4, <1>5, <2>1, <2>2, <2>3 DEF DebugTypes
<1>7. DebugCalls /\ StopIsTheProviders
    BY <1>4, <1>5 DEF DebugCalls, StopIsTheProviders
<1>8. DebugStanding /\ ReleasesAreOld
    BY <1>1, <1>4 DEF DebugStanding, ReleasesAreOld
<1>9. DebugRunIsOwned
    <2>1. dbg.busy = (operation # 0) /\ dbg.busy = (dbg.state = "running")
        BY <1>1, <1>4
    <2>2. Active(dbg.session) = (dbg.state \in {"running", "paused"})
        BY <1>2, <1>4 DEF Active
    <2>3. QED
        BY <1>1, <1>4, <1>5, <2>1, <2>2 DEF DebugRunIsOwned
<1>10. QED
    BY <1>6, <1>7, <1>8, <1>9 DEF DebugInv

LEMMA DebugStutterInv == ASSUME DebugInv, UNCHANGED debugVars PROVE DebugInv'
<1>1. UNCHANGED <<dbg, watches, debugRuns, operation, debugTarget, mock, releasing>>
    BY DEF debugVars, runVars
<1>2. dbg.state = "paused" => \A e \in DOMAIN watches' : watches'[e] = dbg.frame
    BY <1>1 DEF DebugInv, StopIsTheProviders
<1>3. QED
    BY <1>1, <1>2, ListsStep DEF DebugStep

-----------------------------------------------------------------------------
(* Both tools over one target.                                             *)

(* While the window is open each tool keeps its own invariant; what it has *)
(* promised of the stop and the recording it shows holds after that too.   *)
ToolsInv ==
    /\ StopIsTheProviders /\ RecordingIsHeld
    /\ ~toolsDisposed => DebugInv /\ ProfInv

(* What the buttons offer follows from the states of the two snapshots.    *)
LEMMA OffersFollow == ASSUME ToolsInv PROVE OffersAreAccepted /\ ToolRunsAreOwned
<1>1. SUFFICES ASSUME DebugInv, ProfInv
               PROVE  /\ StartOffered = ~StartRefused /\ ResumeOffered = ~ResumeRefused
                      /\ PauseOffered = ~PauseRefused
                      /\ RecordOffered = ~RecordRefused /\ StopRecordingOffered = ~StopRefused
                      /\ DebugRunIsOwned /\ ProfRunIsOwned
    BY DEF ToolsInv, OffersAreAccepted, ToolRunsAreOwned
<1>2. StartOffered = ~StartRefused
    BY <1>1, DbgFacts DEF StartOffered, StartRefused, Startable, DebugStates
<1>3. ResumeOffered = ~ResumeRefused
    BY <1>1, DbgFacts DEF ResumeOffered, ResumeRefused
<1>4. PauseOffered = ~PauseRefused
    <2>1. dbg.state = "running" => dbg.session.id # 0
        BY <1>1, DbgFacts DEF Active
    <2>2. QED
        BY <2>1 DEF PauseOffered, PauseRefused
<1>5. profTarget <=> prof.state # "unavailable"
    BY <1>1 DEF ProfInv, ProfLinks, ProfStanding
<1>6. recordingId # 0 <=> prof.state = "recording"
    BY <1>1 DEF ProfInv, ProfLinks, ProfStanding
<1>7. prof.state \in ProfStates
    BY <1>1 DEF ProfInv, ProfTypes
<1>8. RecordOffered = ~RecordRefused
    BY <1>5, <1>7 DEF RecordOffered, RecordRefused, ProfStates
<1>9. StopRecordingOffered = ~StopRefused
    BY <1>6 DEF StopRecordingOffered, StopRefused
<1>10. QED
    BY <1>1, <1>2, <1>3, <1>4, <1>8, <1>9 DEF DebugInv, ProfInv

LEMMA ToolsInitInv == ASSUME ToolsInit PROVE ToolsInv
BY DebugInitInv, ProfilerInitInv DEF ToolsInit, ToolsInv, DebugInv, ProfInv

LEMMA ToolsStep ==
    ASSUME ToolsInv, [ToolsNext]_toolsVars
    PROVE  ToolsInv' /\ (DebugMove \/ UNCHANGED dbg)
<1>1. CASE ~toolsDisposed /\ (User \/ Provider) /\ UNCHANGED <<targets, toolsDisposed>>
    <2>1. DebugInv /\ ProfInv
        BY <1>1 DEF ToolsInv
    <2>2. CASE (DebugUser \/ DebugProvider) /\ UNCHANGED profVars
        <3>1. DebugStep /\ ProfInv'
            BY <2>1, <2>2, DebuggerStepInv, ProfilerStutterInv
        <3>2. QED
            BY <3>1 DEF DebugStep, DebugInv, ProfInv, ToolsInv
    <2>3. CASE (ProfilerUser \/ ProfilerProvider) /\ UNCHANGED debugVars
        <3>1. DebugInv' /\ ProfInv' /\ UNCHANGED dbg
            BY <2>1, <2>3, DebugStutterInv, ProfilerStepInv DEF debugVars
        <3>2. QED
            BY <3>1 DEF DebugInv, ProfInv, ToolsInv
    <2>4. QED
        BY <1>1, <2>2, <2>3 DEF User, Provider
<1>2. CASE ~toolsDisposed /\ (TargetFound \/ TargetLost) /\ UNCHANGED toolsDisposed
    <2>1. DebugInv /\ ProfInv
        BY <1>2 DEF ToolsInv
    <2>2. DebugStep
        BY <1>2, <2>1, DebugTargetFoundStep, DebugTargetLostStep DEF TargetFound, TargetLost
    <2>3. ProfInv'
        BY <1>2, <2>1, ProfTargetFoundInv, ProfTargetLostInv DEF TargetFound, TargetLost
    <2>4. QED
        BY <2>2, <2>3 DEF DebugStep, DebugInv, ProfInv, ToolsInv
<1>3. CASE DisposeTools
    <2>1. /\ recordingId' = 0 /\ toolsDisposed' = TRUE
          /\ UNCHANGED <<prof, held, finished, dbg, watches, mock>>
        BY <1>3 DEF DisposeTools
    <2>2. StopIsTheProviders'
        BY <2>1 DEF ToolsInv, StopIsTheProviders
    <2>3. RecordingIsHeld'
        BY <2>1 DEF ToolsInv, RecordingIsHeld
    <2>4. QED
        BY <2>1, <2>2, <2>3 DEF ToolsInv
<1>4. CASE UNCHANGED toolsVars
    <2>1. UNCHANGED debugVars /\ UNCHANGED profVars /\ UNCHANGED toolsDisposed
        BY <1>4 DEF toolsVars
    <2>2. StopIsTheProviders' /\ UNCHANGED dbg
        BY <2>1 DEF debugVars, ToolsInv, StopIsTheProviders
    <2>3. RecordingIsHeld'
        BY <2>1 DEF profVars, ToolsInv, RecordingIsHeld
    <2>4. ~toolsDisposed => DebugInv' /\ ProfInv'
        BY <2>1, DebugStutterInv, ProfilerStutterInv DEF ToolsInv
    <2>5. QED
        BY <2>1, <2>2, <2>3, <2>4 DEF ToolsInv
<1>5. QED
    BY <1>1, <1>2, <1>3, <1>4 DEF ToolsNext

LEMMA ToolsInvariant == ToolsSpec => []ToolsInv
<1>1. ToolsInit => ToolsInv
    BY ToolsInitInv
<1>2. ToolsInv /\ [ToolsNext]_toolsVars => ToolsInv'
    BY ToolsStep
<1>3. QED
    BY <1>1, <1>2, PTL DEF ToolsSpec

(* Whatever order answers, stops, timeouts and losses of the target come   *)
(* in, a call that is waited for is the newest and belongs to the session  *)
(* or recording shown, and no other call keeps a timer that could fail it  *)
(* (debuggerController.ts, profilerController.ts: settle and finish).      *)
THEOREM CallsAreOwned == ToolsSpec => []ToolRunsAreOwned
<1>1. ToolsInv => ToolRunsAreOwned
    BY OffersFollow
<1>2. QED
    BY <1>1, ToolsInvariant, PTL

(* What the buttons and the palette offer, each from fields of its own, is *)
(* exactly what the controllers accept while the window is open.           *)
THEOREM OffersAreWhatIsAccepted == ToolsSpec => []OffersAreAccepted
<1>1. ToolsInv => OffersAreAccepted
    BY OffersFollow
<1>2. QED
    BY <1>1, ToolsInvariant, PTL

(* While a session is paused, the stack, the variables and every watch are *)
(* of the stop the provider is at, for scripts of any length and any       *)
(* number of stops, sessions and releases before it.                       *)
THEOREM StopsAreTheProviders == ToolsSpec => []StopIsTheProviders
<1>1. ToolsInv => StopIsTheProviders
    BY DEF ToolsInv
<1>2. QED
    BY <1>1, ToolsInvariant, PTL

(* The recording that runs is the one the provider holds, and every one    *)
(* that is listed can still be read from it, newest first, each once.      *)
THEOREM RecordingsAreHeld == ToolsSpec => []RecordingIsHeld
<1>1. ToolsInv => RecordingIsHeld
    BY DEF ToolsInv
<1>2. QED
    BY <1>1, ToolsInvariant, PTL

(* A session that ended keeps its end until another is started, and every  *)
(* move of the debugger is one that debuggerState.ts allows.               *)
THEOREM SessionsStayEnded == ToolsSpec => EndedStaysEnded
<1>1. ToolsInv /\ [ToolsNext]_toolsVars => [DebugMove]_dbg
    BY ToolsStep
<1>2. ToolsSpec => [][DebugMove]_dbg
    BY <1>1, ToolsInvariant, PTL DEF ToolsSpec
<1>3. QED
    BY <1>2, PTL DEF EndedStaysEnded, DebugMove
=============================================================================
