------------------------------ MODULE Workbench ------------------------------
(***************************************************************************)
(* The services of app/services.tsx that no other service calls: the       *)
(* debugger and the profiler together, the Explorer, the updater with the  *)
(* window's dialogs, and the settings. The four parts share no state (a    *)
(* debug session copies the name of the selected object, and the policies  *)
(* read settings that the other models leave open) and call nothing of     *)
(* each other, so a behaviour moves one of them and leaves the others      *)
(* where they began.                                                       *)
(***************************************************************************)
EXTENDS DeveloperTools, ExplorerController, WindowShell, Settings

CONSTANTS
    FewBreakpoints,  \* bound on the breakpoints beside any calls, recordings and watches
    FewDebugRuns     \* bound on the debugger calls beside more of them

VARIABLE part    \* the part that moves

benchVars == <<toolsVars, explVars, shellVars, settingVars, part>>

BenchInit ==
    /\ part \in {"tools", "explorer", "window", "settings"}
    /\ ToolsInit /\ ShellInit
    /\ IF part = "settings" THEN SettingsInit ELSE SettingsFresh
    /\ IF part = "explorer" THEN ExplorerInit ELSE ExplorerEmpty

(* A longer list of breakpoints meets a few debugger calls and no others.  *)
ListsAreBounded ==
    Len(breakpoints') > FewBreakpoints =>
        Len(debugRuns') <= FewDebugRuns /\ profRuns' = <<>> /\ DOMAIN watches' = {}

BenchNext == UNCHANGED part /\
    \/ part = "tools" /\ ToolsNext /\ ListsAreBounded /\ UNCHANGED <<explVars, shellVars, settingVars>>
    \/ part = "explorer" /\ ExplorerNext /\ UNCHANGED <<toolsVars, shellVars, settingVars>>
    \/ part = "window" /\ ShellNext /\ UNCHANGED <<toolsVars, explVars, settingVars>>
    \/ part = "settings" /\ SettingsNext /\ UNCHANGED <<toolsVars, explVars, shellVars>>

BenchSpec == BenchInit /\ [][BenchNext]_benchVars
=============================================================================
