------------------------- MODULE DebuggerController -------------------------
(***************************************************************************)
(* The debugger (features/debugger/debuggerController.ts, breakpoints.ts   *)
(* and persistence.ts) over the provider that ships,                       *)
(* providers/MockDebuggerProvider.ts, which walks the lines of a script.   *)
(*                                                                         *)
(* A run is one provider call: its answer, its timeout, a stop and the     *)
(* loss of the target may come in any order.  The provider's own timers    *)
(* and the controller's are not ordered here, and a provider may also fail *)
(* any call, so that the runs checked include those of a provider that is  *)
(* slow or refuses.                                                        *)
(***************************************************************************)
EXTENDS Naturals, Sequences, SequencesExt

CONSTANTS
    Scripts,          \* scripts a session can be started for
    Spots,            \* places a breakpoint can be set: [script, line]
    LineCount,        \* lines of a script
    Expressions,      \* what can be watched
    WatchLimit,       \* WATCH_LIMIT
    BreakpointLimit,  \* BREAKPOINT_LIMIT
    MaxDebugRuns      \* bound on the provider calls of one launch

ASSUME DebuggerBounds ==
    /\ LineCount \in Nat \ {0} /\ WatchLimit \in Nat /\ BreakpointLimit \in Nat \ {0}
    /\ MaxDebugRuns \in Nat
    /\ \A spot \in Spots : spot.line \in Nat \ {0}

VARIABLES
    dbg,           \* the snapshot, without its two lists
    breakpoints,   \* snapshot.breakpoints, oldest first
    watches,       \* snapshot.watches: the frame each was last read in
    debugRuns,     \* every provider call
    operation,     \* the run waited for, 0 for null
    debugTarget,   \* targetPresent
    mock,          \* the provider's session
    releasing      \* sessions whose stop() the provider has not finished

runVars == <<debugRuns, operation>>
debugVars == <<dbg, breakpoints, watches, runVars, debugTarget, mock, releasing>>

-----------------------------------------------------------------------------
DebugStates == {"unavailable", "ready", "running", "paused", "stopped", "error"}
DebugMoves ==
  [ unavailable |-> {"ready"},
    ready       |-> {"running", "error", "unavailable"},
    running     |-> {"paused", "stopped", "error", "unavailable"},
    paused      |-> {"running", "stopped", "error", "unavailable"},
    stopped     |-> {"ready", "running", "error", "unavailable"},
    error       |-> {"ready", "running", "stopped", "unavailable"} ]
Startable == {"ready", "stopped", "error"}

Modes == {"continue", "step-over", "step-into", "step-out"}

(* A frame is named by its session, the stop it belongs to and its place   *)
(* in the stack; a stop by its session and its number within it.           *)
NoFrame == [session |-> 0, stop |-> 0, position |-> 0]
NoStop == [session |-> 0, stop |-> 0, line |-> 0, reason |-> "none"]
NoMock == [session |-> 0, script |-> "", line |-> 0, stop |-> 0, pausing |-> FALSE]

NoSession == [id |-> 0, script |-> "", ended |-> "none"]
Active(session) == session.id # 0 /\ session.ended = "none"

DebugInit ==
    /\ dbg = [ state |-> "unavailable", session |-> NoSession, stack |-> NoStop,
               frame |-> NoFrame, locals |-> NoFrame, busy |-> FALSE, pausing |-> FALSE ]
    /\ breakpoints = <<>>
    /\ watches = [e \in {} |-> NoFrame]
    /\ debugRuns = <<>> /\ operation = 0
    /\ debugTarget = FALSE
    /\ mock = NoMock /\ releasing = {}

-----------------------------------------------------------------------------
(* Breakpoints as data (breakpoints.ts, persistence.ts).                   *)

SpotOf(b) == [script |-> b.script, line |-> b.line]
FindBreakpoint(list, spot) == {i \in DOMAIN list : SpotOf(list[i]) = spot}
SpotsOf(list) == {SpotOf(b) : b \in ToSet(list)}
EnabledSpots(list) == {SpotOf(b) : b \in {c \in ToSet(list) : c.enabled}}

\* Variant: a line may hold two breakpoints.
AddToListTwice(list, spot) ==
    LET next == Append(list, [script |-> spot.script, line |-> spot.line,
                              enabled |-> TRUE, hits |-> 0])
    IN  IF Len(next) > BreakpointLimit THEN Tail(next) ELSE next

\* Variant: nothing is dropped past the limit.
AddPastTheLimit(list, spot) ==
    IF FindBreakpoint(list, spot) # {} THEN list
    ELSE Append(list, [script |-> spot.script, line |-> spot.line, enabled |-> TRUE, hits |-> 0])

(* One breakpoint per line; past the limit the oldest are dropped.         *)
AddToList(list, spot) ==
    LET next == Append(list, [script |-> spot.script, line |-> spot.line,
                              enabled |-> TRUE, hits |-> 0])
    IN  IF FindBreakpoint(list, spot) # {} THEN list
        ELSE IF Len(next) > BreakpointLimit
             THEN SubSeq(next, Len(next) - BreakpointLimit + 1, Len(next))
             ELSE next
RemoveFromList(list, spot) == SelectSeq(list, LAMBDA b : SpotOf(b) # spot)
ClearList(list, script) == SelectSeq(list, LAMBDA b : b.script # script)

\* Variant: a changed breakpoint becomes the newest.
UpdateAtTheEnd(list, spot, b) == Append(RemoveFromList(list, spot), b)

UpdateBreakpoint(list, spot, b) ==
    [i \in DOMAIN list |-> IF SpotOf(list[i]) = spot THEN b ELSE list[i]]
ResetHitCounts(list) == [i \in DOMAIN list |-> [list[i] EXCEPT !.hits = 0]]

SerializeBreakpoints(list) ==
    [i \in DOMAIN list |-> [script |-> list[i].script, line |-> list[i].line,
                            enabled |-> list[i].enabled]]
(* An entry counts when it names a script and a line nothing before it     *)
(* names; the first entries up to the limit are kept.                      *)
ParseBreakpoints(stored) ==
    LET fresh(i) == \A j \in 1 .. i - 1 : SpotOf(stored[j]) # SpotOf(stored[i])
        usable == {i \in DOMAIN stored : stored[i].script # "" /\ stored[i].line >= 1 /\ fresh(i)}
        kept == SetToSortSeq(usable, <)
        parsed == [k \in DOMAIN kept |-> [script |-> stored[kept[k]].script,
                                          line |-> stored[kept[k]].line,
                                          enabled |-> stored[kept[k]].enabled, hits |-> 0]]
    IN  SubSeq(parsed, 1, IF Len(parsed) < BreakpointLimit THEN Len(parsed) ELSE BreakpointLimit)

-----------------------------------------------------------------------------
(* The mock's execution model.                                             *)

(* The call depth of every line, from the length of the script alone.      *)
Depth ==
    LET head == LineCount \div 4
        update == LineCount \div 5
        calculate == head
    IN  [line \in 1 .. LineCount |->
            IF LineCount <= 4 THEN (IF line = 4 THEN 1 ELSE line)
            ELSE IF line <= head \/ line = LineCount THEN 1
            ELSE IF line <= head + update THEN 2
            ELSE IF line <= head + update + calculate THEN 3 ELSE 1]

(* nextIndex: where a run lands, 0 when the program runs to its end.       *)
NextLine(m, mode, enabled) ==
    LET lands(line) ==
            \/ m.pausing \/ mode = "step-into"
            \/ mode = "continue" /\ [script |-> m.script, line |-> line] \in enabled
            \/ mode = "step-over" /\ Depth[line] <= Depth[m.line]
            \/ mode = "step-out" /\ Depth[line] < Depth[m.line]
        landings == {line \in m.line + 1 .. LineCount : lands(line)}
    IN  IF landings = {} THEN 0
        ELSE CHOOSE line \in landings : \A other \in landings : line <= other

ReasonFor(m, line, mode, enabled) ==
    IF m.pausing THEN "pause"
    ELSE IF [script |-> m.script, line |-> line] \in enabled THEN "breakpoint"
    ELSE IF mode = "none" THEN "entry" ELSE "step"

(* getVariables and evaluate: only a frame of the stop the provider is at  *)
(* can be read.                                                            *)
Read(m, frame) ==
    IF m.session = frame.session /\ m.stop = frame.stop THEN frame ELSE NoFrame
ReadAll(m, frame) == [e \in DOMAIN watches |-> Read(m, frame)]

TopFrame(stop) == [session |-> stop.session, stop |-> stop.stop, position |-> 0]
Frames(stop) ==
    IF stop = NoStop THEN {}
    ELSE {[session |-> stop.session, stop |-> stop.stop, position |-> p] :
             p \in 0 .. Depth[stop.line] - 1}

-----------------------------------------------------------------------------
(* Runs.                                                                   *)

(* Of a run that is over, and of one that was aborted, only whether the    *)
(* provider still owes its answer is kept.                                 *)
OverRun == [ session |-> 0, mode |-> "none", enabled |-> {}, kind |-> "over", settled |-> TRUE,
             timer |-> FALSE, out |-> FALSE, aborted |-> TRUE ]
Aborted(n) == [debugRuns EXCEPT ![n] = [OverRun EXCEPT !.out = TRUE]]
BeginRun(kind, session, mode, enabled) ==
    /\ debugRuns' = Append(debugRuns, [ session |-> session, mode |-> mode, enabled |-> enabled,
                                        kind |-> kind, settled |-> FALSE, timer |-> TRUE,
                                        out |-> TRUE, aborted |-> FALSE ])
    /\ operation' = Len(debugRuns) + 1

\* Variant: the call is forgotten, and can still be answered.
AbandonNothing == operation' = 0 /\ UNCHANGED debugRuns

(* abandonOperation.                                                       *)
Abandon ==
    /\ operation' = 0
    /\ debugRuns' = IF operation = 0 THEN debugRuns ELSE Aborted(operation)

(* endSession, after a move to state.                                      *)
Ended(state, reason) ==
    /\ dbg' = [dbg EXCEPT !.state = state, !.busy = FALSE, !.pausing = FALSE,
                          !.session.ended = reason, !.stack = NoStop,
                          !.frame = NoFrame, !.locals = NoFrame]
    /\ watches' = [e \in DOMAIN watches |-> NoFrame]

\* Variant: the watches keep what they showed at the stop before.
PausedUnread(stop, m) ==
    /\ dbg' = [dbg EXCEPT !.state = "paused", !.busy = FALSE, !.pausing = FALSE, !.stack = stop,
                          !.frame = TopFrame(stop), !.locals = Read(m, TopFrame(stop))]
    /\ UNCHANGED watches

(* applyOutcome of a stop: one publish, its hit counted on the breakpoint  *)
(* that is on the line by now.                                             *)
Paused(stop, m) ==
    /\ dbg' = [dbg EXCEPT !.state = "paused", !.busy = FALSE, !.pausing = FALSE, !.stack = stop,
                          !.frame = TopFrame(stop), !.locals = Read(m, TopFrame(stop))]
    /\ watches' = ReadAll(m, TopFrame(stop))
CountHit(stop) ==
    LET spot == [script |-> dbg.session.script, line |-> stop.line]
        hit == FindBreakpoint(breakpoints, spot)
    IN  IF stop.reason = "breakpoint" /\ hit # {}
        THEN LET b == breakpoints[CHOOSE i \in hit : TRUE]
             IN  breakpoints' = UpdateBreakpoint(breakpoints, spot, [b EXCEPT !.hits = @ + 1])
        ELSE UNCHANGED breakpoints

(* applyOutcome.                                                           *)
Ends == [ completed |-> [state |-> "stopped", reason |-> "completed"],
          cancelled |-> [state |-> "stopped", reason |-> "stopped"],
          failed    |-> [state |-> "error",   reason |-> "failed"] ]
ApplyOutcome(outcome, stop, m) ==
    IF outcome = "paused" THEN Paused(stop, m) /\ CountHit(stop)
    ELSE Ended(Ends[outcome].state, Ends[outcome].reason) /\ UNCHANGED breakpoints

\* Variant: an answer is applied whoever waits for it.
SettleAny(n, outcome, stop, m) ==
    /\ debugRuns' = [debugRuns EXCEPT ![n] = OverRun]
    /\ operation' = 0
    /\ IF dbg.state = "running" THEN ApplyOutcome(outcome, stop, m)
                                ELSE UNCHANGED <<dbg, breakpoints, watches>>

(* settle and finish: an answer to a run that is over, or that something   *)
(* else took over, changes nothing.                                        *)
Settle(n, outcome, stop, m) ==
    /\ debugRuns' = [debugRuns EXCEPT ![n] = OverRun]
    /\ IF debugRuns[n].settled \/ operation # n
       THEN UNCHANGED <<dbg, breakpoints, watches, operation>>
       ELSE operation' = 0 /\ ApplyOutcome(outcome, stop, m)

(* The provider answers run n.  An aborted one it answers "cancelled".     *)
DebugAnswered(n) ==
    LET run == debugRuns[n]
        line == IF run.kind = "start" THEN 1 ELSE NextLine(mock, run.mode, run.enabled)
        stop == [ session |-> run.session, stop |-> mock.stop + 1, line |-> line,
                  reason |-> ReasonFor(mock, line, run.mode, run.enabled) ]
        stopped == [mock EXCEPT !.line = line, !.stop = @ + 1, !.pausing = FALSE]
    IN  /\ run.out
        /\ IF run.aborted \/ mock.session # run.session
           THEN /\ Settle(n, IF run.aborted THEN "cancelled" ELSE "failed", NoStop, mock)
                /\ UNCHANGED mock
           ELSE IF line = 0 THEN mock' = NoMock /\ Settle(n, "completed", NoStop, NoMock)
                ELSE mock' = stopped /\ Settle(n, "paused", stop, stopped)
        /\ UNCHANGED <<debugTarget, releasing>>

(* A provider may fail a call.                                             *)
DebugRefused(n) ==
    /\ debugRuns[n].out
    /\ Settle(n, "failed", NoStop, mock)
    /\ UNCHANGED <<debugTarget, mock, releasing>>

(* onTimeout: the provider is told first, then the run has failed.         *)
DebugTimesOut(n) ==
    /\ debugRuns[n].timer
    /\ debugRuns' = Aborted(n)
    /\ operation' = IF operation = n THEN 0 ELSE operation
    /\ Ended("error", "failed")
    /\ UNCHANGED <<breakpoints, debugTarget, mock, releasing>>

-----------------------------------------------------------------------------
(* Sessions.                                                               *)

StartRefused == ~debugTarget \/ dbg.state = "unavailable" \/ dbg.busy \/ dbg.state \notin Startable
StartDebug(script) ==
    LET id == dbg.session.id + 1
        reset == ResetHitCounts(breakpoints)
    IN  /\ ~StartRefused /\ Len(debugRuns) < MaxDebugRuns
        /\ dbg' = [dbg EXCEPT !.state = "running", !.busy = TRUE, !.pausing = FALSE,
                              !.session = [id |-> id, script |-> script, ended |-> "none"],
                              !.stack = NoStop, !.frame = NoFrame, !.locals = NoFrame]
        /\ breakpoints' = reset
        /\ BeginRun("start", id, "none", EnabledSpots(reset))
        /\ mock' = [NoMock EXCEPT !.session = id, !.script = script]
        /\ UNCHANGED <<watches, debugTarget, releasing>>

ResumeRefused == ~Active(dbg.session) \/ dbg.busy \/ dbg.state # "paused"
Resume(mode) ==
    /\ ~ResumeRefused /\ Len(debugRuns) < MaxDebugRuns
    /\ dbg' = [dbg EXCEPT !.state = "running", !.busy = TRUE, !.pausing = FALSE]
    /\ BeginRun("resume", dbg.session.id, mode, EnabledSpots(breakpoints))
    /\ UNCHANGED <<breakpoints, watches, debugTarget, mock, releasing>>

PauseRefused == dbg.session.id = 0 \/ dbg.state # "running" \/ dbg.pausing
PauseDebug ==
    /\ ~PauseRefused
    /\ dbg' = [dbg EXCEPT !.pausing = TRUE]
    /\ mock' = IF mock.session = dbg.session.id THEN [mock EXCEPT !.pausing = TRUE] ELSE mock
    /\ UNCHANGED <<breakpoints, watches, runVars, debugTarget, releasing>>

(* provider.stop: a session it does not hold is nothing to stop.           *)
Release(id) == releasing' = IF mock.session = id THEN releasing \cup {id} ELSE releasing

\* Variant: the provider forgets whichever session it holds by then.
ReleasedAny(id) ==
    /\ id \in releasing
    /\ releasing' = releasing \ {id}
    /\ mock' = NoMock
    /\ UNCHANGED <<dbg, breakpoints, watches, runVars, debugTarget>>
Released(id) ==
    /\ id \in releasing
    /\ releasing' = releasing \ {id}
    /\ mock' = IF mock.session = id THEN NoMock ELSE mock
    /\ UNCHANGED <<dbg, breakpoints, watches, runVars, debugTarget>>

(* stop: ends the session, or dismisses one that has ended.                *)
StopDebug ==
    /\ Active(dbg.session)
    /\ Abandon /\ Ended("stopped", "stopped") /\ Release(dbg.session.id)
    /\ UNCHANGED <<breakpoints, debugTarget, mock>>
DismissDebug ==
    /\ dbg.session.id # 0 /\ ~Active(dbg.session)
    /\ dbg' = [dbg EXCEPT !.state = IF debugTarget THEN "ready" ELSE "unavailable"]
    /\ UNCHANGED <<breakpoints, watches, runVars, debugTarget, mock, releasing>>

(* setTargetPresent: a session does not outlive its target.                *)
DebugTargetFound ==
    /\ ~debugTarget /\ debugTarget' = TRUE
    /\ dbg' = [dbg EXCEPT !.state = IF dbg.state = "unavailable" THEN "ready" ELSE dbg.state]
    /\ UNCHANGED <<breakpoints, watches, runVars, mock, releasing>>
DebugTargetLost ==
    /\ debugTarget /\ debugTarget' = FALSE
    /\ IF Active(dbg.session)
       THEN Abandon /\ Ended("unavailable", "target-lost") /\ Release(dbg.session.id)
       ELSE /\ dbg' = [dbg EXCEPT !.state = "unavailable", !.busy = FALSE, !.pausing = FALSE]
            /\ UNCHANGED <<watches, runVars, releasing>>
    /\ UNCHANGED <<breakpoints, mock>>

-----------------------------------------------------------------------------
(* Frames, watches and the breakpoint list.                                *)

SelectFrame(frame) ==
    /\ dbg.session.id # 0 /\ dbg.state = "paused"
    /\ frame \in Frames(dbg.stack) /\ frame # dbg.frame
    /\ dbg' = [dbg EXCEPT !.frame = frame, !.locals = Read(mock, frame)]
    /\ watches' = ReadAll(mock, frame)
    /\ UNCHANGED <<breakpoints, runVars, debugTarget, mock, releasing>>

ShownFrame == IF dbg.state = "paused" THEN Read(mock, dbg.frame) ELSE NoFrame
WatchesChange(next) ==
    /\ watches' = next
    /\ UNCHANGED <<dbg, breakpoints, runVars, debugTarget, mock, releasing>>
AddWatch(e) ==
    /\ e \notin DOMAIN watches /\ Cardinality(DOMAIN watches) < WatchLimit
    /\ WatchesChange([f \in DOMAIN watches \cup {e} |-> IF f = e THEN ShownFrame ELSE watches[f]])
RemoveWatch(e) ==
    /\ e \in DOMAIN watches
    /\ WatchesChange([f \in DOMAIN watches \ {e} |-> watches[f]])
ClearWatches == WatchesChange([e \in {} |-> NoFrame])
RefreshWatches == WatchesChange([e \in DOMAIN watches |-> ShownFrame])

BreakpointsChange(next) ==
    /\ next # breakpoints
    /\ breakpoints' = next
    /\ UNCHANGED <<dbg, watches, runVars, debugTarget, mock, releasing>>
EditBreakpoints ==
    \/ \E spot \in Spots :
          \/ BreakpointsChange(AddToList(breakpoints, spot))
          \/ BreakpointsChange(RemoveFromList(breakpoints, spot))
          \/ \E i \in FindBreakpoint(breakpoints, spot), enabled \in BOOLEAN :
                BreakpointsChange(UpdateBreakpoint(breakpoints, spot,
                                     [breakpoints[i] EXCEPT !.enabled = enabled]))
          \/ BreakpointsChange(ClearList(breakpoints, spot.script))
    \/ BreakpointsChange(<<>>)

DebugUser ==
    \/ \E script \in Scripts : StartDebug(script)
    \/ \E mode \in Modes : Resume(mode)
    \/ PauseDebug \/ StopDebug \/ DismissDebug
    \/ \E frame \in Frames(dbg.stack) : SelectFrame(frame)
    \/ \E e \in Expressions : AddWatch(e) \/ RemoveWatch(e)
    \/ ClearWatches \/ RefreshWatches
    \/ EditBreakpoints
DebugProvider ==
    \/ \E n \in DOMAIN debugRuns : DebugAnswered(n) \/ DebugRefused(n) \/ DebugTimesOut(n)
    \/ \E id \in releasing : Released(id)

-----------------------------------------------------------------------------
(* A run that is waited for is the newest, has its timer, and belongs to   *)
(* the session shown, which is running; no other run has a timer left that *)
(* could fail a session it knows nothing of.                               *)
DebugRunIsOwned ==
    /\ dbg.busy = (operation # 0) /\ dbg.busy = (dbg.state = "running")
    /\ dbg.pausing => dbg.busy
    /\ operation # 0 =>
          /\ operation = Len(debugRuns) /\ debugRuns[operation].session = dbg.session.id
          /\ debugRuns[operation].timer /\ ~debugRuns[operation].settled
          /\ Active(dbg.session)
    /\ \A n \in DOMAIN debugRuns : debugRuns[n].timer => n = operation
    /\ Active(dbg.session) = (dbg.state \in {"running", "paused"})

(* While a session is paused, what is shown is the stop the provider is    *)
(* at: the stack, the variables of the frame selected in it and every      *)
(* watch, whatever stops, sessions and releases came before.               *)
StopIsTheProviders ==
    dbg.state = "paused" =>
        /\ dbg.stack.session = dbg.session.id /\ mock.session = dbg.session.id
        /\ mock.stop = dbg.stack.stop /\ mock.line = dbg.stack.line
        /\ dbg.frame \in Frames(dbg.stack) /\ dbg.locals = dbg.frame
        /\ \A e \in DOMAIN watches : watches[e] = dbg.frame

(* What the next launch restores is the list this one shows, in its order: *)
(* nothing the parser drops is ever in it.  Only an edit changes what it   *)
(* stores: a start that resets the hits, or a stop counted on a breakpoint *)
(* that was switched off, removed or overtaken while the run was out,      *)
(* moves none and brings none back.  And a line that gains a breakpoint    *)
(* costs the oldest its place when the list is full, and no other.         *)
BreakpointsSurvive ==
    [][ LET kept == SerializeBreakpoints(breakpoints)
            next == SerializeBreakpoints(breakpoints')
        IN  /\ ParseBreakpoints(next) = ResetHitCounts(breakpoints')
            /\ next # kept => EditBreakpoints
            /\ SpotsOf(next) \ SpotsOf(kept) # {} =>
                  SpotsOf(kept) \ SpotsOf(next) =
                      IF Len(kept) = BreakpointLimit THEN {SpotOf(kept[1])} ELSE {}
      ]_breakpoints

(* A session that ended stays ended, for the reason it ended for, until    *)
(* another one is started; and every move is one debuggerState.ts allows,  *)
(* through "stopped" when the target is lost.                              *)
EndedStaysEnded ==
    [][ /\ dbg.session.ended # "none" => dbg'.session = dbg.session \/ dbg'.session.id > dbg.session.id
        /\ dbg'.state \in {dbg.state} \cup DebugMoves[dbg.state]
      ]_dbg
=============================================================================
