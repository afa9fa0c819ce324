--------------------------- MODULE DeveloperTools ---------------------------
(***************************************************************************)
(* The debugger and the profiler over one target, as app/devTools.ts binds *)
(* them: both are told in the same turn whether there is something to work *)
(* against, and neither asks.  NovaServices models where that fact comes   *)
(* from.  The buttons (debugger/DebuggerControls.tsx) and the commands     *)
(* (commands/debuggerCommands.ts, profilerCommands.ts) decide what to      *)
(* offer from the same snapshots by conditions of their own.               *)
(***************************************************************************)
EXTENDS DebuggerController, ProfilerController

CONSTANTS
    MaxCallPairs,      \* bound on the pairs of a debugger and a profiler call
    MaxTargets         \* bound on how often the target is found

ASSUME ToolsBounds == MaxCallPairs \in Nat /\ MaxTargets \in Nat

VARIABLES
    targets,         \* how often the target was found
    toolsDisposed    \* both controllers are disposed

toolsVars == <<debugVars, profVars, targets, toolsDisposed>>

ToolsInit ==
    /\ DebugInit /\ ProfilerInit
    /\ targets = 0 /\ toolsDisposed = FALSE

(* apply: what the binding tells both tools.                               *)
TargetFound ==
    /\ targets < MaxTargets /\ targets' = targets + 1
    /\ DebugTargetFound /\ ProfTargetFound
TargetLost == DebugTargetLost /\ ProfTargetLost /\ UNCHANGED targets

User ==
    /\ \/ DebugUser /\ UNCHANGED profVars
       \/ ProfilerUser /\ UNCHANGED debugVars
    /\ Len(debugRuns') * Len(profRuns') <= MaxCallPairs
Provider ==
    \/ DebugProvider /\ UNCHANGED profVars
    \/ ProfilerProvider /\ UNCHANGED debugVars

(* The window closes: profiler.dispose, then debug.dispose.                *)
DisposeTools ==
    /\ ~toolsDisposed /\ toolsDisposed' = TRUE
    /\ ForgetProfRun /\ recordingId' = 0
    /\ UNCHANGED <<prof, recordings, profTarget, held, finished>>
    /\ Abandon
    /\ IF Active(dbg.session) THEN Release(dbg.session.id) ELSE UNCHANGED releasing
    /\ UNCHANGED <<dbg, breakpoints, watches, debugTarget, mock, targets>>

ToolsNext ==
    \/ ~toolsDisposed /\ (User \/ Provider) /\ UNCHANGED <<targets, toolsDisposed>>
    \/ ~toolsDisposed /\ (TargetFound \/ TargetLost) /\ UNCHANGED toolsDisposed
    \/ DisposeTools

ToolsSpec == ToolsInit /\ [][ToolsNext]_toolsVars

-----------------------------------------------------------------------------
(* What the buttons and the palette offer, of a script that is open.       *)
StartOffered == dbg.state \notin {"unavailable", "running", "paused"} /\ ~dbg.busy
ResumeOffered == dbg.state = "paused" /\ ~dbg.busy
PauseOffered == dbg.state = "running" /\ ~dbg.pausing
RecordOffered == prof.state \notin {"unavailable", "recording"} /\ ~prof.busy
StopRecordingOffered == prof.state = "recording" /\ ~prof.busy

(* "What the palette offers is exactly what the controller would answer":  *)
(* nothing is offered that is refused, and nothing refused that could be   *)
(* done, though each side decides from different fields.                   *)
OffersAreAccepted ==
    ~toolsDisposed =>
        /\ StartOffered = ~StartRefused /\ ResumeOffered = ~ResumeRefused
        /\ PauseOffered = ~PauseRefused
        /\ RecordOffered = ~RecordRefused /\ StopRecordingOffered = ~StopRefused

(* A call that is waited for is the newest and belongs to the session or   *)
(* recording shown, and no other call has a timer that could fail it, in   *)
(* whatever order answers, stops, timeouts and losses came.                *)
ToolRunsAreOwned == ~toolsDisposed => DebugRunIsOwned /\ ProfRunIsOwned
=============================================================================
