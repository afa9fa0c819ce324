--------------------------- MODULE ScriptWorkspace ---------------------------
(***************************************************************************)
(* The script workspace as its user works with it: the transitions of      *)
(* WorkspaceTransitions behind the sidebar, the tab bar, the keyboard and  *)
(* the confirmation dialogs (useScriptWorkspace.ts, ScriptManager.tsx,     *)
(* ScriptTree.tsx, TabBar.tsx, useWorkspaceDialogs.tsx).                   *)
(*                                                                         *)
(* It starts with whatever storage holds, which may be damaged in every    *)
(* way normalizeWorkspace repairs, and may be closed and loaded again.     *)
(* One dialog is open at a time and owns pointer and keyboard while it is. *)
(* How the workspace reaches storage is WorkspacePersistence's subject;    *)
(* here a save may fail, and a closed window leaves what it held.          *)
(***************************************************************************)
EXTENDS WorkspaceTransitions

CONSTANTS
    Contents,     \* what a buffer may hold
    Typed,        \* names a user types; <<>> is not acceptable as one
    Stored,       \* the workspaces storage may hold at first
    MaxEntries    \* bound: no new entry when there are this many

VARIABLES
    loaded,       \* whether the window is up
    ws,           \* stateRef: the workspace; what is stored while not loaded
    dialog,       \* pending: the open dialog and what it is about
    collapsed     \* folders whose contents the sidebar hides

vars == <<loaded, ws, dialog, collapsed>>

NoDialog == [kind |-> "none", about |-> Root]
Ask(kind, about) == dialog' = [kind |-> kind, about |-> about]

Init ==
    /\ loaded = FALSE
    /\ ws \in Stored
    /\ dialog = NoDialog
    /\ collapsed = {}

(* bootWorkspace: repaired before it is shown, every folder expanded.      *)
Load ==
    /\ ~loaded
    /\ loaded' = TRUE
    /\ ws' = NormalizeWorkspace(ws)
    /\ UNCHANGED <<dialog, collapsed>>

-----------------------------------------------------------------------------

HasScript(s) == s \in Ids(ws.scripts)
HasFolder(f) == f \in Ids(ws.folders)
HasRoom == Len(ws.scripts) + Len(ws.folders) < MaxEntries
RoomForScript == HasRoom /\ Ids(ws.scripts) # Scripts
(* createWorkspaceId: an identity no entry has.                            *)
Fresh(ids, entries) == CHOOSE id \in ids : id \notin Ids(entries)
Command == loaded /\ dialog = NoDialog

(* The reveal effect of the sidebar: the folders above every new or moved  *)
(* script and above every new folder are expanded.  An identity may be     *)
(* taken again here, so a folder that is gone is forgotten.                *)
RevealNewOnly(next) ==
    collapsed' = (collapsed \cap Ids(next.folders)) \
        UNION {FolderAncestorIds(next.folders, s.folder) :
                   s \in {t \in ToSet(next.scripts) : t.id \notin Ids(ws.scripts)}}
Reveal(next) ==
    LET newScripts == {s \in ToSet(next.scripts) :
            s.id \notin Ids(ws.scripts) \/ Find(ws.scripts, s.id).folder # s.folder}
        newFolders == {f \in ToSet(next.folders) : f.id \notin Ids(ws.folders)}
    IN  collapsed' = (collapsed \cap Ids(next.folders)) \
            (UNION {FolderAncestorIds(next.folders, s.folder) : s \in newScripts}
             \cup UNION {FolderAncestorIds(next.folders, f.parent) : f \in newFolders})
Commit(next) == ws' = next /\ Reveal(next) /\ UNCHANGED loaded
Direct(next) == Commit(next) /\ UNCHANGED dialog

(* The operations of useScriptWorkspace that a row or a dialog asks for: a *)
(* transition on what stateRef holds now, committed.                       *)
Renames(s, name) == Commit(RenameScript(ws, s, name))
RenamesFolder(f, name) == Commit(RenameFolder(ws, f, name))
Moves(s, folder) == Commit(MoveScript(ws, s, folder))
Deletes(s) == Commit(DeleteScript(ws, s))
DeletesFolder(f) == Commit(DeleteFolder(ws, f))
Discards(s) == Commit(DiscardChanges(ws, s))
CreatesFolder(name, parent) ==
    /\ CanCreateFolder(ws, name, parent)
    /\ Commit(CreateFolder(ws, Fresh(Folders, ws.folders), name, parent))

(* Commands of the tab bar, the rows and their menus that need no dialog.  *)
NewScript(folder) ==
    /\ Command /\ RoomForScript /\ (folder = Root \/ HasFolder(folder))
    /\ Direct(CreateScript(ws, Fresh(Scripts, ws.scripts), folder))
Duplicate(s) ==
    /\ Command /\ HasScript(s) /\ RoomForScript
    /\ Direct(DuplicateScript(ws, s, Fresh(Scripts, ws.scripts)))
Open(s) == Command /\ HasScript(s) /\ Direct(OpenScript(ws, s))
SelectTab(s) == Command /\ HasScript(s) /\ Direct(SetActiveScript(ws, s))
Edit(c) ==
    /\ Command /\ ws.active # NoScript
    /\ Direct(UpdateScriptContent(ws, ws.active, c))
Save(s) ==
    /\ Command /\ HasScript(s)
    /\ Direct(SaveScript(ws, s))
SubmitName(entry, name) ==
    /\ Command
    /\ \/ HasScript(entry) /\ Renames(entry, name)
       \/ HasFolder(entry) /\ RenamesFolder(entry, name)
    /\ UNCHANGED dialog
ToggleFolder(f) ==
    /\ Command /\ HasFolder(f)
    /\ collapsed' = IF f \in collapsed THEN collapsed \ {f} ELSE collapsed \cup {f}
    /\ UNCHANGED <<loaded, ws, dialog>>

(* Closing asks about unsaved changes, when the setting is on; with it off *)
(* a dirty tab closes and its buffer stays in the workspace.               *)
RequestCloseScript(s, confirm) ==
    /\ Command /\ HasScript(s)
    /\ IF Dirty(Find(ws.scripts, s)) /\ confirm
       THEN Ask("close-script", s) /\ UNCHANGED <<loaded, ws, collapsed>>
       ELSE Direct(CloseScript(ws, s))
CloseWindow == loaded' = FALSE /\ collapsed' = {} /\ dialog' = NoDialog
RequestCloseWindow(confirm) ==
    /\ Command
    /\ IF confirm /\ \E s \in ToSet(ws.scripts) : Dirty(s)
       THEN Ask("close-window", Root) /\ UNCHANGED <<loaded, collapsed>>
       ELSE CloseWindow
    /\ UNCHANGED ws

(* The other requests open their dialog on an entry that exists.           *)
RequestDeleteScript(s) == HasScript(s) /\ Ask("delete-script", s)
RequestDeleteFolder(f) == HasFolder(f) /\ Ask("delete-folder", f)
RequestDiscardChanges(s) == HasScript(s) /\ Dirty(Find(ws.scripts, s)) /\ Ask("discard-changes", s)
RequestMoveScript(s) ==
    /\ HasScript(s) /\ (ws.folders # <<>> \/ Find(ws.scripts, s).folder # Root)
    /\ Ask("move-script", s)
RequestNewFolder(parent) ==
    /\ parent = Root \/ (HasFolder(parent) /\ FolderDepth(ws.folders, parent) < MaxFolderDepth)
    /\ Ask("new-folder", parent)
Request ==
    /\ Command
    /\ \/ \E s \in Scripts : RequestDeleteScript(s) \/ RequestDiscardChanges(s) \/ RequestMoveScript(s)
       \/ \E f \in Folders : RequestDeleteFolder(f) \/ RequestNewFolder(f)
       \/ RequestNewFolder(Root)
    /\ UNCHANGED <<loaded, ws, collapsed>>

-----------------------------------------------------------------------------
(* The answers of the dialogs.                                             *)

About == dialog.about
Dismiss == dialog' = NoDialog
Confirm(next) == Dismiss /\ Commit(next)

Cancel == dialog # NoDialog /\ Dismiss /\ UNCHANGED <<loaded, ws, collapsed>>

\* Variant: the tab closes whether or not the script could be saved.
SaveThenClose(wrote) ==
    /\ dialog.kind = "close-script"
    /\ Confirm(CloseScript(IF wrote THEN SaveScript(ws, About) ELSE ws, About))

SaveAndClose(wrote) ==
    /\ dialog.kind = "close-script"
    /\ Confirm(IF wrote THEN CloseScript(SaveScript(ws, About), About) ELSE ws)
DiscardAndClose ==
    /\ dialog.kind = "close-script"
    /\ Confirm(CloseScript(DiscardChanges(ws, About), About))

\* Variant: the window closes whether or not the scripts could be saved.
SaveAllThenClose(wrote) ==
    /\ dialog.kind = "close-window"
    /\ ws' = (IF wrote THEN SaveAllScripts(ws) ELSE ws) /\ CloseWindow

SaveAllAndClose(wrote) ==
    /\ dialog.kind = "close-window"
    /\ IF wrote THEN ws' = SaveAllScripts(ws) /\ CloseWindow ELSE Confirm(ws)
CloseWithoutSaving == dialog.kind = "close-window" /\ CloseWindow /\ UNCHANGED ws
ConfirmDeleteScript == dialog.kind = "delete-script" /\ Deletes(About) /\ Dismiss
ConfirmDeleteFolder == dialog.kind = "delete-folder" /\ DeletesFolder(About) /\ Dismiss
ConfirmDiscard == dialog.kind = "discard-changes" /\ Discards(About) /\ Dismiss
ChooseDestination(folder) ==
    /\ dialog.kind = "move-script" /\ folder # Find(ws.scripts, About).folder
    /\ folder = Root \/ HasFolder(folder)
    /\ Moves(About, folder) /\ Dismiss
(* A name that is refused leaves the dialog open with the reason.          *)
SubmitNewFolder(name) ==
    /\ dialog.kind = "new-folder" /\ HasRoom
    /\ CreatesFolder(name, About) /\ Dismiss

Answer ==
    \/ Cancel
    \/ \E wrote \in BOOLEAN : SaveAndClose(wrote) \/ SaveAllAndClose(wrote)
    \/ DiscardAndClose \/ CloseWithoutSaving
    \/ ConfirmDeleteScript \/ ConfirmDeleteFolder
    \/ \E f \in Folders \cup {Root} : ChooseDestination(f)
    \/ \E name \in Typed \cup {NextFolderName(ws.folders, About)} : SubmitNewFolder(name)

(* What a row of the sidebar, its menu and the keys on it can ask for.     *)
ScriptCommand(s) ==
    \/ Open(s) \/ SelectTab(s) \/ Save(s) \/ Duplicate(s)
    \/ \E name \in Typed : SubmitName(s, name)
    \/ \E confirm \in BOOLEAN : RequestCloseScript(s, confirm)
FolderCommand(f) ==
    \/ ToggleFolder(f)
    \/ \E name \in Typed : SubmitName(f, name)
    \/ NewScript(f)

(* What the editor takes no part in, but to show what comes of it.         *)
Elsewhere ==
    \/ Load
    \/ \E s \in Scripts : ScriptCommand(s)
    \/ \E f \in Folders : FolderCommand(f)
    \/ \E confirm \in BOOLEAN : RequestCloseWindow(confirm)
    \/ Request
    \/ Answer

Next == Elsewhere \/ NewScript(Root) \/ ConfirmDiscard \/ \E c \in Contents : Edit(c)

Spec == Init /\ [][Next]_vars

-----------------------------------------------------------------------------

(* Reference definitions the properties compare the code's against.        *)
Above(parents) ==
    LET pairs[n \in Nat] ==
            IF n = 0 THEN parents
            ELSE LET r == pairs[n - 1]
                 IN  r \cup {<<p[1], q[2]>> : <<p, q>> \in {x \in r \X r : x[1][2] = x[2][1]}}
    IN  pairs[Cardinality(parents)]
ParentPairs(w) == {<<f.id, f.parent>> : f \in {g \in ToSet(w.folders) : g.parent # Root}}
AncestorsOf(above, parent) ==
    IF parent = Root THEN {} ELSE {parent} \cup {p[2] : p \in {q \in above : q[1] = parent}}
Depth(above, f) == Cardinality(AncestorsOf(above, f))
NameOf(w, e) == IF e \in Folders THEN Find(w.folders, e).name ELSE Find(w.scripts, e).name
ParentOf(w, e) == IF e \in Folders THEN Find(w.folders, e).parent ELSE Find(w.scripts, e).folder
Entries(w) == Ids(w.folders) \cup Ids(w.scripts)
SameName(w, clashing) == {p \in clashing \X clashing : p[1] # p[2] /\ NameOf(w, p[1]) = NameOf(w, p[2])}
Clashes(w) ==
    SameName(w, Ids(w.scripts))
        \cup {p \in SameName(w, Ids(w.folders)) : ParentOf(w, p[1]) = ParentOf(w, p[2])}

TypeOK ==
    /\ loaded \in BOOLEAN
    /\ collapsed \subseteq Folders
    /\ dialog = NoDialog \/ dialog.about \in Scripts \cup Folders \cup {Root}
    /\ \A s \in ToSet(ws.scripts) : s.id \in Scripts /\ s.saved \in Contents /\ s.buffer \in Contents

(* The tabs are existing scripts, each once, and one of them is active     *)
(* unless there are none.                                                  *)
TabsAreSound ==
    /\ IsInjective(ws.open) /\ ToSet(ws.open) \subseteq Ids(ws.scripts)
    /\ IF ws.open = <<>> THEN ws.active = NoScript ELSE ws.active \in ToSet(ws.open)

(* Everything is in an existing folder and no folder is above itself; so   *)
(* the tree lists every entry, and a search lists exactly what matches,    *)
(* what lies inside a match, and the folders that lead there.              *)
TreeIsWhole ==
    LET above == Above(ParentPairs(ws))
        path == [e \in Entries(ws) |-> AncestorsOf(above, ParentOf(ws, e))]
    IN  /\ \A e \in Entries(ws) : ParentOf(ws, e) \in Ids(ws.folders) \cup {Root}
        /\ \A f \in Ids(ws.folders) : <<f, f>> \notin above
        /\ Rows(ws, {}) = Entries(ws)
        /\ \A word \in {"b", "2"} :
              LET hits == {e \in Entries(ws) : word \in ToSet(NameOf(ws, e))}
                  found == {e \in Entries(ws) : ({e} \cup path[e]) \cap hits # {}}
              IN  FilteredRows(ws, word) = found \cup UNION {path[e] : e \in found}

(* What a loaded workspace always is, however damaged the stored one was   *)
(* and whatever is created, moved, closed and deleted in whatever order;   *)
(* an open dialog is about something that exists.                          *)
WorkspaceIsSound ==
    loaded => /\ TypeOK /\ TabsAreSound /\ TreeIsWhole
              /\ dialog.about \in Entries(ws) \cup {Root}

(* resolveFolderParents: of every cycle exactly the folder created first   *)
(* moves to the root, and a folder whose parent does not exist does; no    *)
(* other folder moves, whatever the order in which they are visited, no    *)
(* script is lost, and a sound workspace comes back as it was, with its    *)
(* tabs and names.                                                         *)
RepairsOnlyTheBroken ==
    [][Load =>
        LET parent == [f \in Ids(ws.folders) |->
                LET p == Find(ws.folders, f).parent
                IN  IF p \in Ids(ws.folders) \ {f} THEN p ELSE Root]
            above == Above({<<f, parent[f]>> : f \in Ids(ws.folders)} \ (Ids(ws.folders) \X {Root}))
            OldestOfCycle(f) ==
                /\ <<f, f>> \in above
                /\ \A g \in Ids(ws.folders) :
                      {<<f, g>>, <<g, f>>} \subseteq above => Position(ws.folders, f) <= Position(ws.folders, g)
        IN  /\ \A f \in Ids(ws.folders) :
                  Find(ws'.folders, f).parent = IF OldestOfCycle(f) THEN Root ELSE parent[f]
            /\ Ids(ws'.scripts) = Ids(ws.scripts)
            /\ \A s \in ToSet(ws.scripts) :
                  HasFolder(s.folder) \/ s.folder = Root => s \in ToSet(ws'.scripts)
            /\ TabsAreSound /\ TreeIsWhole => UNCHANGED ws]_vars

(* Names stay distinct while the window is up: no step gives two scripts,  *)
(* or two folders of one parent, the same name, unless they came so from   *)
(* loading, whose repair may put two of a name together at the root; and   *)
(* no folder comes to lie deeper than the limit unless it was so loaded.   *)
NoNewClash ==
    [][loaded =>
        /\ Clashes(ws') \subseteq Clashes(ws)
        /\ LET above == Above(ParentPairs(ws))
                above2 == Above(ParentPairs(ws'))
            IN  \A f \in Ids(ws'.folders) :
                    \/ Depth(above2, f) <= MaxFolderDepth
                    \/ HasFolder(f) /\ Depth(above2, f) <= Depth(above, f)]_ws

(* Unsaved work goes only where it is typed over in the editor, or where a *)
(* dialog about that very script was answered by discarding, or deleting,  *)
(* it: closing tabs and windows, moving, renaming and deleting folders     *)
(* keep every dirty buffer.  A dialog that is cancelled, or answered by a  *)
(* save that fails, changes nothing and closes nothing; and a tab, or the  *)
(* window, that a dialog did close leaves nothing of it unsaved behind,    *)
(* but for the window that was asked to close without saving.              *)
UnsavedWorkIsKept ==
    [][ /\ \A s \in ToSet(ws.scripts) : Dirty(s) =>
            \/ \E t \in ToSet(ws'.scripts) : t.id = s.id /\ t.buffer = s.buffer
            \/ s.id = ws.active /\ \E c \in Contents : Edit(c)
            \/ s.id = About /\ (DiscardAndClose \/ ConfirmDeleteScript \/ ConfirmDiscard)
        /\ Cancel \/ SaveAndClose(FALSE) \/ SaveAllAndClose(FALSE) => UNCHANGED <<loaded, ws>>
        /\ dialog.kind = "close-script" /\ About \in ToSet(ws.open) \ ToSet(ws'.open) =>
              ~Dirty(Find(ws'.scripts, About))
        /\ dialog.kind = "close-window" /\ loaded /\ ~loaded' =>
              CloseWithoutSaving \/ \A t \in ToSet(ws'.scripts) : ~Dirty(t)
      ]_vars

(* A script that is new or was moved, and a folder that is new, is a row   *)
(* of the tree afterwards, however many of the folders above it the user   *)
(* had collapsed.                                                          *)
NewEntriesAreShown ==
    [][loaded /\ loaded' =>
        \A e \in Entries(ws') :
            (e \notin Entries(ws) \/ (e \in Scripts /\ ParentOf(ws', e) # ParentOf(ws, e)))
                => e \in Rows(ws', collapsed')]_vars

=============================================================================
