----------------------------- MODULE WindowShell -----------------------------
(***************************************************************************)
(* The dialogs of the window (components/layout/AppShell.tsx), the command *)
(* palette (features/commands) and the updater, whose prompt opens by      *)
(* itself.  Every open dialog listens for Escape; a key reaches the window *)
(* before any of them, so each shortcut asks for itself what is open, and  *)
(* modalOpen, which most ask, does not count the update prompt.            *)
(*                                                                         *)
(* A dialog is open or not: what it says and does is modelled where its    *)
(* state is.  The keyboard and the pointer may be in any open dialog.  Of  *)
(* the commands stand the ones that open a dialog or ask the updater, and  *)
(* New Script for the others; which of them match a query, and how well,   *)
(* is a number for each.  Disposing the services ends the behaviour.       *)
(***************************************************************************)
EXTENDS UpdateController, SequencesExt

CONSTANT Queries    \* what can be typed: how well each command matches it

VARIABLES
    dialogs,    \* the dialogs open, the update prompt not among them
    palette     \* the query and activeId, "" for null, of the palette

shellVars == <<updVars, dialogs, palette>>

Commands == <<"new-script", "new-folder", "backend-status", "updates-check", "updates-show", "open-settings">>
CommandIds == ToSet(Commands)
Everything == [c \in CommandIds |-> 1]    \* the empty query

ASSUME QueriesAssumption == Everything \in Queries /\ Queries \subseteq [CommandIds -> 0 .. 4]

Dialogs == {"settings", "diagnostics", "palette", "workspace", "execution"}
Closed == [query |-> Everything, active |-> ""]

ShellTypeOK ==
    /\ dialogs \subseteq Dialogs
    /\ palette \in [query : Queries, active : CommandIds \cup {""}]
    /\ "palette" \notin dialogs => palette = Closed

ShellInit == UpdInit /\ dialogs = {} /\ palette = Closed

-----------------------------------------------------------------------------
(* The list of commands (commands.ts).                                     *)

(* A command without a disabledReason.                                     *)
Enabled(c) ==
    CASE c = "updates-check" -> upd.status \in Checkable
      [] c = "updates-show"  -> upd.release # 0 \/ upd.status = "ready"
      [] OTHER               -> TRUE

(* filterCommands: the better match first, then the declared order, every *)
(* entry behind the ones that go before it.                                *)
Scored(query) == {k \in DOMAIN Commands : query[Commands[k]] > 0}
ListedBefore(query, k) ==
    LET score(n) == query[Commands[n]]
    IN  {n \in Scored(query) : score(n) > score(k) \/ (score(n) = score(k) /\ n < k)}
FilterCommands(query) ==
    [i \in 1 .. Cardinality(Scored(query)) |->
        Commands[CHOOSE k \in Scored(query) : Cardinality(ListedBefore(query, k)) = i - 1]]

(* nextCommandIndex, whose indices begin at 0 and end the search at -1.    *)
NextCommandIndex(list, current, delta) ==
    LET n == Len(list)
        start == IF current \in 0 .. n - 1 THEN current ELSE IF delta > 0 THEN -1 ELSE 0
        at(step) == (start + delta * step + n * step) % n
        found == {step \in 1 .. n : Enabled(list[at(step) + 1])}
    IN  IF found = {} THEN -1 ELSE at(CHOOSE step \in found : \A other \in found : step <= other)

(* Variant: the highlight is the command that was chosen, enabled or not.  *)
ResolveChosen(list, id) ==
    LET index == SelectInSeq(list, LAMBDA c : c = id)
    IN  IF index # 0 THEN index - 1 ELSE NextCommandIndex(list, -1, 1)

(* resolveActiveIndex: the command that was chosen while it can run, and   *)
(* otherwise the first that can.                                           *)
ResolveActiveIndex(list, id) ==
    LET index == SelectInSeq(list, LAMBDA c : c = id)
    IN  IF index # 0 /\ Enabled(id) THEN index - 1 ELSE NextCommandIndex(list, -1, 1)

Matching == FilterCommands(palette.query)
Highlight == ResolveActiveIndex(Matching, palette.active)

-----------------------------------------------------------------------------
(* What the palette and the shortcuts do.                                  *)

ModalOpen == dialogs # {}
Unmoved == UNCHANGED updVars
UpdatesAsked == UNCHANGED <<installVars, updDisposed>>
PromptAsked == UNCHANGED <<handleVars, checkVars, installVars, updDisposed>>

Show(next) == dialogs' = next /\ palette' = IF "palette" \in dialogs \cap next THEN palette ELSE Closed
Stays == UNCHANGED <<dialogs, palette>>

(* open: nothing is asked of what is open already.                         *)
ShowUpdatePrompt == IF upd.prompt THEN Unmoved ELSE OpenPrompt /\ PromptAsked

(* runCommandAt: the palette closes, then the command runs.                *)
RunCommand(c) ==
    /\ Enabled(c)
    /\ LET rest == dialogs \ {"palette"}
       IN  CASE c = "new-folder"     -> Show(rest \cup {"workspace"}) /\ Unmoved
             [] c = "backend-status" -> Show(rest \cup {"diagnostics"}) /\ Unmoved
             [] c = "open-settings"  -> Show(rest \cup {"settings"}) /\ Unmoved
             [] c = "updates-check"  -> Show(rest) /\ CheckNow /\ UpdatesAsked
             [] c = "updates-show"   -> Show(rest) /\ ShowUpdatePrompt
             [] c = "new-script"     -> Show(rest) /\ Unmoved

(* The arrow keys, the pointer, the query, and Enter or a click.           *)
PaletteUse ==
    /\ "palette" \in dialogs
    /\ \/ /\ \/ \E delta \in {-1, 1} :
                  LET next == NextCommandIndex(Matching, Highlight, delta)
                  IN  palette' = [palette EXCEPT !.active = IF next < 0 THEN "" ELSE Matching[next + 1]]
             \/ \E c \in {d \in ToSet(Matching) : Enabled(d)} : palette' = [palette EXCEPT !.active = c]
             \/ \E query \in Queries : palette' = [palette EXCEPT !.query = query]
          /\ UNCHANGED dialogs /\ Unmoved
       \/ Highlight >= 0 /\ RunCommand(Matching[Highlight + 1])
       \/ \E c \in ToSet(Matching) : RunCommand(c)

(* Variant: Ctrl+, asks for nothing.                                       *)
SettingsKeyAlways == Show(dialogs \cup {"settings"})

(* Ctrl+, opens the settings over the diagnostics and the execution        *)
(* confirmation, not over the palette or a dialog of the workspace.        *)
SettingsKey == dialogs \cap {"workspace", "palette"} = {} /\ Show(dialogs \cup {"settings"})

(* Ctrl+Shift+P, Ctrl+, , and Ctrl+W and Ctrl+Enter when they ask.         *)
Shortcut ==
    /\ \/ IF "palette" \in dialogs THEN Show(dialogs \ {"palette"})
                                   ELSE ~ModalOpen /\ Show({"palette"})
       \/ SettingsKey
       \/ ~ModalOpen /\ \E d \in {"workspace", "execution"} : Show({d})
    /\ Unmoved

(* Escape closes every dialog that listens, the prompt among them.         *)
Escape ==
    /\ Show({})
    /\ IF upd.prompt THEN Dismiss /\ PromptAsked ELSE ModalOpen /\ Unmoved

(* A dialog's own buttons, its backdrop and its cross.                     *)
CloseDialog == Unmoved /\ \E d \in dialogs : Show(dialogs \ {d})

(* runErrorAction, from the diagnostics: the others leave them open.       *)
RunErrorAction ==
    /\ "diagnostics" \in dialogs /\ Unmoved
    /\ \E opened \in {{"settings"}, {}} : Show((dialogs \ {"diagnostics"}) \cup opened)

(* The title bar, the sidebar, the tabs and the execute bar.               *)
WindowClick ==
    /\ ~ModalOpen /\ ~upd.prompt /\ Unmoved
    /\ \E d \in Dialogs \ {"palette"} : Show({d})

(* Settings' Check Now, the prompt's Check Again or Try Again.             *)
CheckClick ==
    /\ "settings" \in dialogs \/ (upd.prompt /\ upd.status \in {"up-to-date", "error"} /\ upd.release = 0)
    /\ CheckNow /\ UpdatesAsked /\ Stays

PromptClick ==
    /\ Stays
    /\ \/ Dismiss /\ PromptAsked
       \/ Install /\ UNCHANGED <<checkVars, updDisposed>>

(* What comes by itself.                                                   *)
UpdaterMoves ==
    /\ Stays
    /\ \/ UpdCheckSteps /\ UpdatesAsked
       \/ UpdInstallSteps /\ UNCHANGED <<checkVars, updDisposed>>

ShellNext ==
    \/ ~updDisposed /\ (PaletteUse \/ Shortcut \/ Escape \/ CloseDialog \/ RunErrorAction
                        \/ WindowClick \/ CheckClick \/ PromptClick)
    \/ UpdaterMoves
    \/ DisposeUpdates /\ Stays

ShellSpec == ShellInit /\ [][ShellNext]_shellVars

-----------------------------------------------------------------------------
(* "A workspace confirmation, prompt or the command palette must be        *)
(* answered first; stacking settings on one would share Escape between     *)
(* them" (AppShell.tsx): whatever was open, opened by itself or was called *)
(* for by a command, they share it with the update prompt alone.           *)
ConfirmationsStandAlone ==
    \A d \in {"workspace", "palette"} : d \in dialogs => dialogs = {d}

(* The highlight is a command that can run, whatever became of the updater *)
(* since it was chosen, and there is none only when nothing can.  Up takes *)
(* back what Down did, so the keys reach every command that can run, round *)
(* the ends and over the ones that cannot (commands.ts).                   *)
EnterRunsTheHighlight ==
    LET list == Matching
        highlight == ResolveActiveIndex(list, palette.active)
        able == {i \in 0 .. Len(list) - 1 : Enabled(list[i + 1])}
        down(i) == NextCommandIndex(list, i, 1)
    IN  /\ IF able = {} THEN highlight = -1 ELSE highlight \in able
        /\ palette.active # "" /\ palette.active \in {list[i + 1] : i \in able}
              => list[highlight + 1] = palette.active
        /\ {down(i) : i \in able} = able
        /\ \A i \in able : NextCommandIndex(list, down(i), -1) = i

(* The window's dialogs, its palette and its updater agree.                *)
WindowIsSound ==
    /\ ShellTypeOK /\ UpdatesAreSound
    /\ ConfirmationsStandAlone
    /\ "palette" \in dialogs => EnterRunsTheHighlight
=============================================================================
