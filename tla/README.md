# Nova: a verification project

Nova is a desktop Lua script editor: a Tauri shell around a React front end, with a *developer
backend* that is started and stopped, finds a target, attaches to it and runs scripts. Two
backends ship, a Local Mock and a Local Service (a service inside the Tauri process); both stand
in for real ones, behind lifecycles that are genuinely asynchronous: every operation has a
timeout, may be answered late, may be superseded, and may be interrupted by the application
closing. Around them stand the developer tools, the script workspace with its editor, the updater
and, parked in the repository, a bridge to Roblox Studio. This directory models those parts in
TLA+, checks them with TLC and proves the central ones with TLAPS. Paths below are relative to the
repository; the front end is `src/src/`, the Rust side `src/src-tauri/src/`.

## 1. The system

### Components, their state and what makes them correct

| Component | State | Operations | Hard part | Correct when |
|---|---|---|---|---|
| Backend controller (`features/backend/backendController.ts`) | `state`, error, ready time, the `operation` in flight, a sequence number | start, stop, restart, startup, dispose, timeouts | listeners run inside every state change and call back in; a superseded operation's answer, timer and callers live on | the state is the newest operation's outcome; every caller is answered, truthfully; nothing stays busy |
| Local Service session client (`backends/localService/session.ts`) | session id, generation | open, send, close, forget, abandon | answers that outlive their session, a close and an open crossing | Nova and the service agree on the session |
| Local Service backend (`backends/LocalServiceDeveloperBackend.ts`) | running, health row, health timer, lifecycle guard | start, stop, health check, recovery, repair | a check that outlives the start it belongs to; a lost detach | a ready backend is watched, and what drifted is repaired |
| Local Service target provider (`backends/localService/targetProvider.ts`) | available, attached, generation | detect, inject, cancel, disconnect | an attach that was cancelled, timed out or lost | no attachment outlives Nova's interest in it |
| Local service (`local_service/mod.rs`) | session, attachment | handshake, attach, detach, health, shutdown | one mutex; everything else is the other side of a lossy bridge | one session at most; only its holder changes it |
| Target controller (`features/target/targetController.ts`) | status, detection pass, attempt in flight, pending reconnect | inject, cancel, disconnect, detect, provider announcements, dispose | detection, injection, loss and disconnect overlap | an attempt ends once; what is shown is there |
| Execution controller (`features/execution/executionController.ts`) | phase, run in flight | execute, cancel, interrupt, dispose | a run against its timeout and the loss of its target | no run outlives its target; each ends once |
| Local Mock backend and simulated target (`LocalMockDeveloperBackend.ts`, `LocalTestTargetProvider.ts`) | running, intended and actual availability, the provider's session | start, stop, switch, inject, disconnect timers | the switch and the stop take the target away under everything | no target without a backend |
| Composition (`app/services.tsx`) | the health row, the shutdown | listeners between the controllers, shutdown | listeners fire inside each other's changes | the panels tell one story; a shutdown ends |
| Script workspace persistence (`features/scripts/useScriptWorkspace.ts`, `persistence.ts`) | memory, stored text, backup, hold | load, edit, save, autosave, flush, discard | writes that fail, damaged data, kills | what was reported saved is stored; the only copy is not destroyed |
| Script workspace transitions (`features/scripts/workspace.ts`, `tree.ts`) | scripts, folders, tabs | pure transitions and repairs | repairs of stored references, folder cycles | tabs, folders and names stay consistent |
| Script sidebar, tabs and dialogs (`ScriptManager.tsx`, `ScriptTree.tsx`, `useWorkspaceDialogs.tsx`) | the open dialog, collapsed folders | every command on scripts, folders and tabs | a confirmation about something that changed, a save that fails in a dialog | no unsaved work is lost unasked; what is new is visible |
| Editor (`features/editor/ScriptEditor.tsx`) | models, the attached script, pending jumps | load, attach, type, jump, sync | documents change behind models; loading takes time and may fail | what is shown is the active script's document |
| Debugger (`features/debugger/`) | session, stack, breakpoints, watches, operation in flight | start, resume, pause, step, stop, breakpoints, watches | late stops, loss of the target | one session; a stop is of that session |
| Profiler (`features/profiler/`) | recording, operation in flight, history | start, stop, clear | stop against timeout and target loss | busy ends; what is shown was recorded |
| Explorer (`features/explorer/`) | model, selection, expansion, search | reload, select, expand, search | untrusted hierarchies, and one that changes under a selection | selection and expansion describe objects that exist, and every object can be reached |
| Updates (`features/updates/`) | status, offered release, pass | check, install, dismiss, dispose | a check replaces an offer; late answers and reports | every handle is installed or closed once; no illegal move |
| Window shell and palette (`components/layout/AppShell.tsx`, `features/commands/`) | open dialogs, the palette's query and highlight | shortcuts, Escape, commands | dialogs stack and share a key; a list that changes under the highlight | a confirmation stands alone; Enter runs what is highlighted |
| Studio bridge: connection controller (`experimental/studio-bridge/nova-connection/`) | status, attempt | connect, cancel, disconnect, dismiss | an attempt is given up before its answer | "connected" is listening |
| Studio bridge: session, relay and plugin (`nova-frontend/`, `relay-rust/`, `plugin/`) | token, offer, executions; queue, parked polls, waiting requests; each plugin's key and loop | pair, poll, push, execute, end | three programs, long polls, requests that time out but are still handled | a session's messages and results are its own; only its plugin ends it |
| Settings (`types/settings.ts`, `lib/storage.ts`, `app/store.tsx`, `SettingsDialog.tsx`) | the record, its entry in storage, the effect that saves it | load and repair, change, save, relaunch | read twice over: by the window from its copy, by the controllers' policies from storage; old, damaged and failed entries | both have settings they can work with, and the same ones once a save was taken |
| Logger, diagnostics, errors, console | one record each | read and write | none | |
| Protocol decoding (`local_service/protocol.rs`, `localService/protocol.ts`) | none | decode, validate | malformed input | only well-formed messages pass |
| Release scripts and workflows | none | build time | none | |

How they interact. The **backend controller** calls its backend (`start`, `stop` with an abort
signal) and publishes snapshots. The **Local Service backend** turns those calls into requests
over the bridge; the service answers; the answer, or its loss, decides what the controller is
told. The **target provider** of the active backend announces availability, the **target
controller** turns it into a status, and `services.tsx` connects the rest: losing the target
interrupts the execution, either controller's change refreshes the backend's health row, and
closing the window disconnects, stops and disposes, in that order. The same target is what the
debugger and the profiler work against: `app/devTools.ts` tells both in one turn whether there is
one. The workspace shares nothing with these but the process; its editor has documents of its own
and calls back for every change. The updater and the window meet in the update prompt, which opens
by itself over whatever dialog is there. The Studio bridge is not built, tested or shipped; it is
modelled because it is the one place where three programs really run at once.

Every controller is single-threaded JavaScript. Its races are between *turns* of the event loop:
a promise continuation, a timer and a click are queued separately, and whatever was read before
an `await` may be stale after it. On top of that, a listener runs synchronously inside the turn
that publishes, which is a second, nested kind of interleaving.

## 2. The modules

| Module | Models | Uses |
|---|---|---|
| `BackendLifecycle` | what the backend controller promises: serial operations, one outcome each, callers told once and truthfully, nothing after closing | |
| `BackendController` | `backendController.ts` whole, under any backend and any listeners | refines `BackendLifecycle` |
| `BackendControllerProofs` | its theorems, and the proof that it implements `BackendLifecycle` | `BackendController` |
| `LocalService` | `local_service/mod.rs`, one operator per message | |
| `LocalServiceBackend` | session client, target provider and backend, as operators on what Nova keeps | `LocalService` |
| `LocalServiceSystem` | the two sides with the bridge between, under the backend controller | `BackendController`, `LocalServiceBackend` |
| `LocalServiceSystemProofs` | its theorems, over those of the backend controller | `LocalServiceSystem`, `BackendControllerProofs` |
| `TargetController` | `targetController.ts` whole, under any provider | |
| `TargetControllerProofs` | its theorems | `TargetController` |
| `ExecutionController` | `executionController.ts`, under any provider | |
| `NovaServices` | the three controllers over the Local Mock, with the listeners and the shutdown of `services.tsx` | all three controllers |
| `NovaServicesProofs` | the composition's theorems, over those of the two controllers | `NovaServices`, both `...ControllerProofs` |
| `WorkspacePersistence` | storage, backup, hold, autosave and flush of the script workspace | |
| `WorkspacePersistenceProofs` | its theorems | `WorkspacePersistence` |
| `DebuggerController` | `debuggerController.ts`, `breakpoints.ts`, `persistence.ts` over `MockDebuggerProvider.ts` | |
| `ProfilerController` | `profilerController.ts` over `MockProfilerProvider.ts` | |
| `DeveloperTools` | both over one target, and what their buttons and commands offer | both |
| `DeveloperToolsProofs` | the theorems of both tools | `DeveloperTools` |
| `ExplorerController` | `explorerController.ts`, `explorerModel.ts`, the panel, the tree and the breadcrumb | |
| `UpdateController` | `updateController.ts`, `updateState.ts`, `TauriUpdateProvider.ts` and the prompt | |
| `WindowShell` | the dialogs, shortcuts and Escape of `AppShell.tsx` and the command palette | `UpdateController` |
| `Settings` | the settings, their storage and repair, the dialog's controls and the policies | |
| `WindowShellProofs` | the theorems of the updater, the palette, the window and the settings | `WindowShell`, `Settings` |
| `Workbench` | the four parts that share no state, one of them moving in each behaviour | `DeveloperTools`, `ExplorerController`, `WindowShell`, `Settings` |
| `WorkspaceTransitions` | `workspace.ts` and `tree.ts`, as operators | |
| `ScriptWorkspace` | the commands, dialogs and sidebar over them | `WorkspaceTransitions` |
| `ScriptEditor` | the editor's models over the workspace's documents | `ScriptWorkspace` |
| `ConnectionController` | the bridge's connection controller, as operators | |
| `StudioBridge` | Nova's session layer, the relay and the plugins, under that controller | `ConnectionController` |
| `StudioBridgeProofs` | its theorems | `StudioBridge` |
| `MC*` | constants for TLC | |

Definitions named `...Unguarded`, `...Never`, `...Late` and the like, introduced by "Variant:" in a
comment or standing directly before the definition they vary, are not part of any specification:
they are what a plausible mistake in that definition would look like, and each makes one property
fail.

### State and code

*BackendController.* `state`, `error`, `readySince`, `operation`, `operationSeq` and `disposed` are
the controller's variables of those names; `ops[n]` is the closure of the n-th operation (kind,
settled, timer, and where its body is: announcing, calling, answered, over); `waiting[c]` is the
`await` caller `c` is at. A turn is broken at exactly one kind of place: where the controller
publishes, since a listener may call back in there. So `Begin` publishes "starting" and
`InvokeBackend` goes on with the call, and between the two any request may come; `TimerFires` and
`FinishFailed` are the two halves of a timeout around its publication. `StartAnswered` and
`StopAnswered` are the body of the operation applying the answer, and `Settle` the handler that
runs later, in a microtask. Not modelled: texts, the capabilities of the providers (pure reads of
the state) and the activation of a backend, which happens once.

*LocalService\*.* `client` is what Nova keeps (running, session, generation, attached, available,
health row, timer, and the requests in flight with what each is for and whether it is awaited),
`service` what the service keeps. Requests are handled in the order they were sent, because the
command is synchronous (`commands.rs`); with `InOrder`, answers come back in that order too. A
request may be lost, its answer may be lost, it may pass its deadline, a handshake may be refused,
and the service may end the session; each such event is one of at most `MaxFaults`. Session ids are
reused once nobody refers to them, and generations and lifecycle counters are flags of the
requests in flight ("still of this generation"): both keep the state space finite and lose nothing,
as the code only ever compares them for equality. The target controller is reduced there to what
it asks of the provider, and requests of users come between turns, because no listener of the
application calls `start` or `stop`. The announcement queue of the provider (0 ms) is not modelled:
nothing there listens.

*TargetController.* `attempts[n]` is the n-th `inject()` (settled, timer, result), `attempt` the one
waited for; `asked` holds the detection passes the provider has not answered, `detectPass` the
newest. `known` is the last thing detection said (usable, busy, gone). The user asks, the provider
answers or announces, timers end; each is one action with everything it calls, including the
automatic injection that follows a detection. History, console and texts are left out. In
`capabilities`, `target` is true of every shipped provider, so the branch without it is not
modelled.

*NovaServices.* Each of its actions is an action of one controller together with what the Local
Mock and the listeners do in the same turn. `OnStack` says that a publication is in progress: only
then may the rest of that turn continue, otherwise a queued microtask runs (`Microtasks`) or, with
none queued, a timer or a click (`Quiet`). The execution provider may give any outcome at any time,
a superset of its two timers. `closeWindow`'s own 400 ms deadline, after which the window is
destroyed under whatever is left, and a second shutdown are not modelled. What the developer tools
are told (`app/devTools.ts`) is a function of two modelled facts, `ToolsTold`.

*WorkspacePersistence.* `stored` and `backup` are the two keys; `persisted` is `persistedRaw`,
`unbacked` is `unbackedRaw`, `ws` is `stateRef`. A stored text has one of four forms (written by
Nova; old or repairable; with entries that must be dropped; unusable) and a document; parsing keeps
the document. Every write may fail by itself, and a session may find storage unavailable, in which
case reading fails and so does every write. `Exit` without a `Flush` before it is a kill.
`autosaveFailing` only decides what is logged and is left out. Two history variables, `promised`
and `asked`, record what a save reported and whether the user or a flush replaced dropped text.
Folders, tabs and names are written in the same text and are left to `ScriptWorkspace`.

*DebuggerController, ProfilerController, DeveloperTools.* A run (`debugRuns[n]`, `profRuns[n]`) is
one call to a provider with what it was for and whether it is answered, settled or timed out;
`operation` is the one waited for. `dbg` and `prof` are the snapshots. The provider's side is
`mock` and `releasing` (sessions it is still ending), `held` and `finished`. Stops, frames and
recordings are named by their number. The program debugged is the line walker of the mock: it ends
after `LineCount`, stops at enabled breakpoints and steps as asked. What variables and samples are
worth is left out. `...Offered` are the conditions the buttons and commands compute by themselves.

*ExplorerController.* `report` is the last list a provider returned, `parents` the repaired model.
Names are left out: a query is the set of objects it matches. The depth ceiling is kept, and is at
least the length of a report here, as it is in practice (512).

*UpdateController, WindowShell.* A release is named by the number of its handle; `closed` and
`installed` say what became of each. A report of progress is separate from the answer, since the
Tauri channel is. Only `installing` among the progress stages changes a status. `dialogs` is the
set of open dialogs, `palette` the typed query (how well each command matches) and `activeId`. A
dialog is open or closed; what it does is modelled where its state is.

*Settings.* `settings` is the window's copy (`app/store.tsx`), `entry` what storage holds under
`nova.settings`, `saving` the effect that writes the copy after it changed: the write is taken, or
fails and is not tried again. A stored entry is missing, damaged, or has some of the fields, each
with a type and a value, which `Merge` and `ClampTimeout` repair; a launch reads it, whoever wrote
it. `Policy` is what the controllers' policies get by calling `loadSettings` each time
(`services.tsx`), `Resolve` the backend a launch runs on and `SelectShows` the option the dialog
shows for it. `settingSteps` bounds the changes and launches. Sizes that are not finite are left
out: no build writes one.

*WorkspaceTransitions, ScriptWorkspace, ScriptEditor.* A workspace is its scripts and folders in
creation order, the open tabs and the active one; a name is the sequence of its words, so that
"Old 2" and the copy suffixes are what the code computes with. `dialog` is `pending`, the one open
dialog and what it is about; a command and the effects of its render are one action. `CloseWindow` leaves
what storage holds, `Load` repairs it. A behaviour is about the sidebar or, starting without
folders, about the editor; the two look at different fields of the same workspace.

*ConnectionController, StudioBridge.* `wire` is the relay and the responses on their way: whether
it runs, its token, the queue, the parked polls, the requests it waits to answer. Nova's step and
the relay commands it issues are one action, since nothing else moves the relay between them but a
plugin's request, which is an action of its own. `calls` are the asynchronous `bridge_start` and
`bridge_stop`. A plugin is its connection state, its key, the generation of its loop and the poll
it holds. The staleness timer may fire whenever no poll of the session is parked, because the relay
answers a poll after 20 s and the timer runs 30 s from the poll.

## 3. What is checked

| Run | Specification | Bounds | Shows |
|---|---|---|---|
| `backend` | `BackendController` `FairSpec` | 2 callers, 3 operations | the inductive invariant of the proofs; the state is the newest operation's outcome; callers are told the truth; refinement of `BackendLifecycle`; every operation ends |
| `local_service` | `SysFairSpec` | 2 callers, 3 operations, 2 requests in flight, 2 faults | running and ready mean the same between turns; a ready backend is watched; without faults Nova and the service agree; a late attach attaches nothing; what faults put apart is put together again |
| `restart_is_cancelled` | `SysSpec` | 2 operations, no faults | **violated**: a start nobody abandoned comes back cancelled |
| `target_beside_stopped` | `SysSpec` | 2 operations, no faults | **violated**: a detection answered after the stop brings the target back |
| `target` | `TargetFairSpec` | 3 injections, 2 passes | attempts end once and are owned, stale passes are ignored, no illegal move, a target that is gone is not shown, every injection ends |
| `nova` | `NovaFairSpec` | 3 operations, 2 injections, 1 pass, 2 runs | no execution without its target, no target without its backend, Nova and the provider agree on the session, runs are owned and end once, the tools are told of a target only when there is one; an empty shutdown, which ends |
| `workspace` | `Spec` | 2 scripts, 2 contents | what was reported saved is stored; skipped writes are stored; the hold is exact; the inductive invariant of the proofs |
| `hold_is_released` | `Spec` | the same | **violated**: an autosave overwrites the only copy after a save or a flush that failed |
| `dev_tools` | `BenchSpec` | 3 lines, 3 places for a breakpoint (room for 2), 4 debug calls (2 beside 2 breakpoints), 3 recordings, 5 profiler calls, 2 pairs of calls, 2 targets; every report of 3 entries over 3 objects; 3 checks, 3 installations, 3 queries; 3 changes or launches of the settings, 5 stored entries | runs of both tools are owned and over when they end; a stop is the provider's; breakpoints change by edits only and come back as they were; a recording is held; what is offered is accepted. The updater's handles and moves, dialogs and palette agree. The Explorer's tree is repaired and its selection exists. Window and policies have usable settings, the same ones once saved |
| `script_workspace` | `DeskSpec` | 2 scripts, 4 folders, depth 2, 3 entries, 2 contents; every order of parents of 4 folders, and 72 torn sets of scripts and tabs | repairs mend what is broken and nothing else; no names come to clash once the workspace is loaded; no unsaved work is dropped unasked, and a dialog that is cancelled or whose save failed closes nothing; new entries are shown; the editor mirrors the active script |
| `studio_bridge` | `BridgeSpec` | 2 Studios, 2 tries, 2 offers, 2 Connects, 1 execution, 2 troubles | no live execution without a session, outcomes are true, the queue is the session's; until a start crosses a stop, connected means listening and an attempt given up leaves nothing up, whatever answers late; only its plugin ends a session |
| `studio_bridge_polls` | `BridgeSpec` | the same, 1 trouble | **violated**: a poll of one session receives a script pushed for the next |

Why the bounds are enough. An operation can only meet what an earlier one left behind (its answer,
its timer, its callers) and what supersedes it; three operations give one superseded, one
superseding from inside a publication and one that finds both. Attempts of the target controller
work the same way, and a second detection pass is what makes the first stale. In `local_service`
two requests in flight let a health check, an attach, a detach and a lifecycle request cross in
pairs, and two faults let a repair itself fail. Two scripts let one be saved while the other is
dirty. The proofs remove the bounds for
the backend controller, the target controller, their composition over the Local Mock, the Local
Service under the backend controller, the workspace's persistence, the developer tools, the updater and its window, the settings and the
Studio bridge.
In `dev_tools`, four debug calls are a start, one that times out, one that overtakes it and one
after; a target found twice lets an answer of the first come in the second; a breakpoint list with
room for two and three places has an order, a duplicate to refuse and an oldest entry to drop. It
meets two debugger calls, a start and a resume whose stops are counted while it is edited, and no
recording (`FewBreakpoints`, `FewDebugRuns`). Every cycle, tail into a cycle, repetition and missing parent of
three objects occurs, and four folders also give two disjoint cycles and a cycle with a tail of
two. Three checks and installations let an answer of the first meet the third. Two Studios and two
offers are a session and the one after it, with what the first left in the relay; a trouble is a
connection attempt, a request that Nova handles after its time is up, a closed window or a
transport error, and two of them are the first attempt and one more.

Deadlock is checked except in `backend`, `local_service` and its two siblings, `dev_tools` and the
two of the bridge, where everything may be disposed or the bounded calls used up: the program then
rests.

Fairness. The event loop runs queued microtasks and fires armed timers: `WF` of the controller's own
continuations and timers. Nobody has to click, no fault has to happen, and in `BackendController`,
`TargetController` and `NovaServices` the backend or provider need not answer anything, except that
a disconnect of a provider returns (the controller has no timeout for it; both shipped providers
resolve it from a timer of their own). In `LocalServiceSystem` the bridge delivers what a fault did
not lose. The workspace, the tools, the window and the Studio bridge are checked for safety only.

### Disagreements found

* `restart_is_cancelled`. `close()` forgets the session only when its shutdown is *answered*
  (`session.ts:395`), which moves the generation a handshake sent meanwhile has captured. Stop while
  starting, start again, and the second start can come back cancelled; `backendController.ts:87`
  says "Stops the backend and starts it again".
* `target_beside_stopped`. `detect()` has no lifecycle guard (`targetProvider.ts:203`), so an answer
  in flight across a stop makes the target available again beside a stopped backend, which
  `LocalServiceDeveloperBackend.test.ts:404` says must never be shown.
* `hold_is_released`. `guardUnbacked` drops the hold when a save or flush *goes ahead*, not when it
  has replaced anything (`useScriptWorkspace.ts:213`). If that write fails too, the next unattended
  autosave overwrites the only copy without trying the backup again, against `README.md:391-393`.
* `studio_bridge_polls`. The relay compares the token when a poll arrives and not when it answers
  it (`relay-rust/mod.rs:305`): a window that pressed Disconnect and still holds its poll receives
  the script pushed for the window that paired next. `mod.rs:15` says the poll channel is gated on
  the session token, `nova-frontend/session.ts:174` that "nothing can poll this session's queue any
  more".

Observed while modelling, without a run of their own.

*Backends and persistence*: a handshake answered after its deadline leaves
a session on the service until the next handshake (`session.ts:221`, `281-285`); a second handshake
may be in the air with the first (`session.ts:287-288`); an attach answered after the stop leaves
the provider attached until it is asked again (`targetProvider.ts:161-163`); a health row set
between a stop and its answer (`LocalServiceDeveloperBackend.ts:246-249`); a repair may detach with
no detach lost, while an attach is in flight (`LocalServiceDeveloperBackend.ts:233-241`); with Auto
detect off, a target that comes back while the backend is ready is not republished, so the panel's
health row stays unavailable (`services.tsx:195-200`); and the hold on an autosave does not lift "by
itself as soon as storage has room" (`useScriptWorkspace.ts:196-201`) but at the next edit or flush,
because the timer fires once per state change. While a target that has gone is being disconnected
the developer tools are still told of it, until the disconnect ends (`targetController.ts`).
`closeWindow` destroys the window after 400 ms even if the shutdown has not ended.

*Updates*: after "Later", the release is kept but the status goes back to idle, and Show Update
reopens a prompt that offers only Close, since `install()` refuses from idle; the comment at
`dismiss`, `updateController.test.ts:341` and `updateState.ts:23` suggest it could still be
installed. A startup check closes the prompt that shows the answer of a manual one.

*Window*: `modalOpen` does not count the update prompt, so shortcuts act beneath it although
"Dialogs own the keyboard while open" (`AppShell.tsx`); Ctrl+, opens the settings over the
execution confirmation and the diagnostics; one Escape closes the prompt and any other open dialog
together. `ConfirmationsStandAlone` therefore excepts the prompt. In the palette a highlight that
nobody chose is the first command that can run and slides when an earlier one becomes able to
(typing "update" and pressing Enter as a download fails), against `commands.ts:56-63`, "keeps the
highlight still"; the property holds a command that was chosen.

*Explorer and editor*: `ExplorerPanel.tsx:140` says nothing can be expanded or collapsed underneath
a search, but the twistie, a double click, the row's menu and the palette can. `explorerModel.ts:19`
calls the depth ceiling unreachable; a hierarchy deeper than 512 would have its paths cut. A stored
document with CRLF line ends stays dirty after a discard, because syncing the model writes LF text
back (`ScriptEditor.tsx:389-398`).

*Bridge*: a connection attempt that is cancelled or times out, and is then retried, can end
"connected" but deaf, when the first attempt's stop removes the listeners of the second
(`connectionController.ts:137`). It takes a start asked for before the last stop is answered, or a
stop while the listeners are being registered (`crossed`); the clauses of `BridgeInv` about the link
and the relay's token are stated until that happens. Attempts that are given up without it, with the
late answers of their starts and stops, and the attempts after them are inside those clauses.

## 4. What is proved

Every theorem is about the specification the run checks, or, for the parts of `Workbench`
(`ToolsSpec`, `ShellSpec`, `SettingsSpec`), about the part's own: in a behaviour of `BenchSpec` one
part moves, by its own next-state relation, and the others stand still. All hold for every value of
the constants. What they assume of those is named in the modules: bounds are natural numbers (at
least one for a script's lines, the breakpoints and recordings kept, and the tries of a code), a stored entry has typed fields, a query scores each command
from 0 to 4, the first script and the blank contents are a script and contents, and Nova's callers
are its launcher, its panel and its shutdown.

The properties the runs check are seldom inductive. They say what is shown and not why a late
answer cannot change it. So each proof first finds the invariant that says where every call that is
still out can be, shows that each action keeps it, in a lemma per action, and reads the properties
off it.

**Backend controller** (`BackendControllerProofs`). From the inductive invariant `LifecycleInv`: the
types, `BusyIsOwned`, `SingleFlight`, `StateIsNewestOutcome`, `SnapshotAgrees`, and the action
properties `TransitionsAreLegal`, `DisposedIsFrozen` and `ResultsAreTrue`. `LifecycleInv` adds to
`StateIsNewestOutcome`, for every operation, where it can be (`OperationInv`: an unsettled one is
the one waited for, or has its answer applied, or its failure published) and, for the one waited
for, that it is the newest, unsettled, and that the state is the busy state it announced
(`CurrentInv`). An answer then either belongs to the operation waited for, whose state it may
change, or finds it settled. `ControllerImplementsLifecycle` is the refinement of
`BackendLifecycle`. A step begins an operation, gives one its outcome, answers a caller, or changes
nothing the abstract lifecycle shows; what makes it go through is that an operation that was given
up has its outcome before another can begin.

**Local Service** (`LocalServiceSystemProofs`). A step of the system is a step of the backend
controller or leaves its variables alone, so `LifecycleInv` holds of it. `SysCore` is inductive over
it and says of every request that is out who it is for. `ClientOk`: its kind fits the continuation
that waits for it, an awaited one of the current generation names the session Nova holds, and
requests are handled, and pass their generation, in their order. `LinkInv`: the requests of starts
and stops of the backend belong to operations that have not returned, at most one of them to the
operation the controller waits for. `RunInv`: a running backend is one the controller shows or
starts, and one shown as ready has its health timer, a check or a recovery. `SysInv`
(`ControllerAndBackendAgree`) follows; without `LinkInv` the answer to a start that was given up
could set the backend running beside a controller that has gone on. `LateAttachesAreDropped` is
`LateAttachIsDropped`: Nova believes in an attachment only by the answer to an injection that is
still awaited, sent in the session Nova holds.

`SessionsComeToAgree` is `SessionsAgree`, for runs without faults. That the two sides agree once
nothing is in flight says nothing of how; `Sess` says what keeps them on the way there. A session
Nova holds is being closed (`Closing`: a shutdown of the current generation is awaited) or owned
(`Owned`: the service holds it, Nova runs, no shutdown names it and no handshake that would replace
it is unanswered); a session only the service holds is about to end (`Ending`: an unanswered
handshake replaces it, its own handshake's answer is on its way, or its shutdown is); the session of
a handshake's answer is in no other request (`Apart`), and behind a handshake that still counts
stands no other (`Newest`).

`AttachmentsAreNovas` is `AttachmentIsNovas`, over `Sess` and for `InOrder`, the setting of the run
that checks it. `Single`: Nova asks for one attachment at a time and only without one, and a session
it has yet to hear of has none. `Traced`: in the session both sides hold, an attach that nobody
awaits any more has a detach behind it (`Undoing`), and an attachment of the service's is about to
be undone (`Undone`), on its way to Nova (`Arriving`), or Nova's, with no health answer on its way
that would make Nova give it up (`After`). The last part is why the order matters. Let an attach be
answered before a health check that was sent ahead of it: Nova attaches, the older answer says that
nothing is attached, and Nova forgets the attachment until the next check looks again. The other
theorems about the Local Service hold with answers in any order.

Finding these invariants showed two places where the model was not what the code does; both are
corrected. A start that waits for `close()` after its first health check failed is not ended by an
abort, since nothing it awaits listens to the signal (`Starts`). And an answer that nobody awaits is
dropped, whether it was there when its request was given up (`GiveUp`) or comes later, as the
refusal of a handshake (`Reply`).

**Target controller** (`TargetControllerProofs`). `TargetInv` and `GoneIsNotShown` are inductive
together and not apart: that a target which is gone is not shown rests on who may be injecting, and
who may be injecting on what a loss did. The proof keeps them as `StepInv`, in three parts by the
variables that change together. From it follow `EveryMoveIsLegal` (`transitionTarget` never throws)
and `OnlyLiveAnswersInject`. `PanelInv` adds when a disconnect and a cancellation are shown, which
the composition needs.

**Composition** (`NovaServicesProofs`). A step of Nova is a step of the backend controller or leaves
its variables alone, and the same of the target controller, so their invariants hold of the
composition without being proved again. On top of them, `MockInv` follows a call into the Local Mock
through its timers and announcements, `ProviderInv` and `SessionInv` what the provider was asked
and holds, `StageInv` the shutdown, `RowInv` the health row, `ExecInv` the runs. Together
(`WholeInv`) they give `NovaInv`, `ExecutionNeedsTarget`, `SessionIsHeld` and
`ShutdownLeavesNothing`.

**Workspace persistence** (`WorkspacePersistenceProofs`). From `WorkspaceInv`: `SavedIsStored` and
`SkippedWritesAreStored`; and `HoldIsExact`, which is inductive as it stands. `SavedIsStored` is
not: it speaks of storage, and the next write replaces storage by what is in memory. `WorkspaceInv`
adds that what was promised is in memory too, while storage is usable, and that a session without
storage never believes anything stored. The proof has a lemma for one write whatever its outcome
(`WriteFacts`), one for when a write keeps the promises (`WriteKeepsPromises`), and one for each of
the three ways an action uses it: a change in memory, a guarded write, and a save that commits only
what was written.

**Developer tools** (`DeveloperToolsProofs`). While the window is open `DebugInv` and `ProfInv` hold:
for each tool the types, what each status says of the session or recording and of the call waited
for, and where every other call is; of the debugger also that a session still being released is an
older one. The stop shown and the recordings listed (`StopIsTheProviders`, `RecordingIsHeld`) stay
true after the window closes, `ToolRunsAreOwned` and `OffersAreAccepted` are promises of the open
window. `EndedStaysEnded` follows from what one step may do to the snapshot (`DebugMove`).

**Updater, palette and window** (`WindowShellProofs`). `UpdInv` adds to the updater's invariants the
links between its variables (`UpdLinks`: the check without an answer is the newest, a check has let
go of the offer, an installation shows what it installs). That Enter runs the highlight and that Up
and Down undo each other (`EnterRunsTheHighlight`) does not depend on how a list came about: it is
proved of every list, whatever can run in it, from the least number of steps that reaches a command
that can. That `FilterCommands` is a list of commands is proved by counting, for each match, the
matches before it.

**Settings** (`WindowShellProofs`). `SettingsInv`: the entry is typed, the copy usable, and once the
save was taken the entry is what the copy serializes to. What it rests on is that reading back what
was written changes nothing that is in its limits, and that every control asks for a value that is.

**Studio bridge** (`StudioBridgeProofs`). `BridgeInv` is inductive as it stands: the handshakes, the
way of an execution through the relay and the states of the link are in it because the three
promises (no live execution without its session, true outcomes, a queue that is the session's) are
not inductive without them. Its link clause, which holds until a start crosses a stop, says what is
still to be answered in each state of the connection controller: at most the start of an attempt and
the stop that ended it, in that order. From it `OnlyItsPluginEndsIt`.

Only model-checked, and why:

* Liveness, `OperationsEnd`, `InjectionEnds`, `ShutdownEnds` and `LossesAreRepaired`: fairness and
  ENABLED are beyond TLAPS here.
* `BreakpointsSurvive`, `ExplorerIsSound` and the properties of `script_workspace` (`DeskIsSound`,
  `RepairsOnlyTheBroken`, `NoNewClash`, `UnsavedWorkIsKept`, `NewEntriesAreShown`): they are about
  sorting, selecting and walking lists and trees, which the provers do not expand or which need
  induction over the data.

## 5. Not modelled

Left out of the modelled components: keyboard focus, favourites, scrolling and the layout of views;
the caret, view states, decorations, options and line ends of the editor, and Monaco itself; the
Explorer's inspector and its grouping of properties; the profiler's aggregation of samples
(`profilerModel.ts`), a function of data no model holds; the updater's restart, byte counts and the
builds that cannot update themselves; the announcement queue of the Local Service target provider;
the Local Test provider's map of simulations; `closeWindow`'s own deadline.

Of the Studio bridge: heartbeats and output (they move only the staleness timer), cancellation
(which the plugin always declines), size and in-flight limits, HTTP parsing, and the controller's
dispose. Its liveness is not checked: under fairness of three programs the graph of even one Studio
with retries is larger than a run allows.

Of the settings: which section of the dialog is shown, the theme's media query, and sizes that are
not finite. A timeout reaches the controllers' models as a timer that may fire at any time, whatever
its setting.

Not modelled at all: console, diagnostics, logger and error texts, the capability tables, which hold
no state these properties depend on; message decoding on both sides
of the Local Service, where the models exchange decoded messages and a malformed one is an error
answer; the Tauri shell, which registers plugins and two commands; release scripts and workflows,
which run at build time.

## 6. Plan

1. *Done.* Backend controller, its abstract lifecycle and its proofs; Local Service and its backend,
   composed with the controller; target and execution controllers; the composition over the Local
   Mock; workspace persistence and its proofs.
2. *Done.* Debugger and profiler over one target; Explorer; updater, window and palette; workspace
   transitions, sidebar, dialogs and editor; the Studio bridge.
3. *Done.* The settings. Proofs of the target controller, of `NovaServices` over it and the backend
   controller, of the Local Service under the backend controller, of the refinement of
   `BackendLifecycle`, of the developer tools, the updater with its window and palette, the settings
   and the Studio bridge.
4. *Next, proofs.* `ExplorerController`: the selection exists, which needs facts about paths in a
   repaired hierarchy. `ScriptWorkspace`: `UnsavedWorkIsKept`, over what a transition
   does to tabs and documents.
