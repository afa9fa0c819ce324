------------------------- MODULE WorkspaceTransitions -------------------------
(***************************************************************************)
(* The pure transitions of the script workspace and the views built from   *)
(* it (features/scripts/workspace.ts, tree.ts).  Every operator takes a    *)
(* workspace and returns the next one, the same one when it refuses.       *)
(*                                                                         *)
(* A workspace is its scripts and folders in the order they were created,  *)
(* the open tabs and the active one.  A name is the sequence of its words, *)
(* compared without case as the code does: "Old 2" is <<"old", "2">>.      *)
(* Lengths, time stamps, favourites and the alphabetical order of rows are *)
(* left out.                                                               *)
(***************************************************************************)
EXTENDS Naturals, FiniteSets, SequencesExt

CONSTANTS
    Scripts,         \* identities of scripts
    Folders,         \* identities of folders
    Blank,           \* the contents of a new script
    MaxFolderDepth   \* MAX_FOLDER_DEPTH

Root == "root"       \* the null parent: the workspace itself
NoScript == "none"   \* the null active script

Ids(entries) == {entries[i].id : i \in DOMAIN entries}
Find(entries, id) == entries[CHOOSE i \in DOMAIN entries : entries[i].id = id]
Position(entries, id) == CHOOSE i \in DOMAIN entries : entries[i].id = id
Update(entries, new) ==
    [i \in DOMAIN entries |-> IF entries[i].id = new.id THEN new ELSE entries[i]]
Without(entries, id) == SelectSeq(entries, LAMBDA e : e.id # id)

-----------------------------------------------------------------------------
(* Names.                                                                  *)

Numerals == <<"1", "2", "3", "4", "5", "6">>
NumberedName(root, label, index) ==
    root \o label \o (IF index = 1 THEN <<>> ELSE <<Numerals[index]>>)

(* The first of root, root 2, root 3, ... that is not taken.               *)
FirstFree(root, label, taken) ==
    LET free == {i \in 1..(Cardinality(taken) + 1) : NumberedName(root, label, i) \notin taken}
    IN  NumberedName(root, label, CHOOSE i \in free : \A j \in free : i <= j)

ScriptNames(scripts, ignored) == {s.name : s \in {t \in ToSet(scripts) : t.id # ignored}}
FolderNames(folders, parent, ignored) ==
    {f.name : f \in {g \in ToSet(folders) : g.parent = parent /\ g.id # ignored}}

NextScriptName(scripts) == FirstFree(<<"script">>, <<>>, ScriptNames(scripts, NoScript))
NextFolderName(folders, parent) ==
    FirstFree(<<"new folder">>, <<>>, FolderNames(folders, parent, Root))

(* An existing copy suffix is dropped, unless it is the whole name.        *)
CopyRoot(name) ==
    LET n == Len(name)
    IN  CASE n > 1 /\ name[n] = "copy" -> SubSeq(name, 1, n - 1)
          [] n > 2 /\ name[n - 1] = "copy" /\ name[n] \in ToSet(Numerals) -> SubSeq(name, 1, n - 2)
          [] OTHER -> name
DuplicateScriptName(scripts, name) ==
    FirstFree(CopyRoot(name), <<"copy">>, ScriptNames(scripts, NoScript))

(* checkBaseName: the empty name stands for every unacceptable one.        *)
Acceptable(input) == input # <<>>
ValidScriptName(input, scripts, ignored) ==
    Acceptable(input) /\ input \notin ScriptNames(scripts, ignored)
ValidAnywhere(input, folders, parent, ignored) == Acceptable(input)
ValidFolderName(input, folders, parent, ignored) ==
    Acceptable(input) /\ input \notin FolderNames(folders, parent, ignored)

-----------------------------------------------------------------------------
(* The folder hierarchy.                                                   *)

FolderDepth(folders, id) ==
    LET up[f \in Folders \cup {Root}, depth \in Nat] ==
            IF f \notin Ids(folders) \/ depth > Len(folders) THEN depth
            ELSE up[Find(folders, f).parent, depth + 1]
    IN  up[id, 0]

FolderAncestorIds(folders, id) ==
    LET up[f \in Folders \cup {Root}, seen \in SUBSET Folders] ==
            IF f \notin Ids(folders) \/ f \in seen THEN seen
            ELSE up[Find(folders, f).parent, seen \cup {f}]
    IN  up[id, {}]

(* The first pass of resolveFolderParents: a parent that is missing, or    *)
(* the folder itself, is the root.                                         *)
ExistingParents(folders) ==
    [f \in Ids(folders) |->
        LET p == Find(folders, f).parent IN IF p \in Ids(folders) \ {f} THEN p ELSE Root]

(* Its second pass: from every folder upwards, along the parents repaired  *)
(* so far; the oldest folder of the cycle that is met moves to the root.   *)
FirstMet(folders, cycle) == cycle[1]
Oldest(folders, cycle) ==
    CHOOSE f \in ToSet(cycle) : \A g \in ToSet(cycle) : Position(folders, f) <= Position(folders, g)
ResolveFolderParents(folders) ==
    LET Break(parents, folder) ==
            LET walk[path \in Seq(Folders)] ==
                    LET current == parents[Last(path)]
                        seenAt == SelectInSeq(path, LAMBDA f : f = current)
                    IN  IF current = Root THEN parents
                        ELSE IF seenAt = 0 THEN walk[Append(path, current)]
                        ELSE LET cycle == SubSeq(path, seenAt, Len(path))
                             IN  [parents EXCEPT ![Oldest(folders, cycle)] = Root]
            IN  walk[<<folder.id>>]
    IN  FoldLeft(Break, ExistingParents(folders), folders)

-----------------------------------------------------------------------------
(* Scripts and tabs.                                                       *)

(* The tab that slides into the place of the active one becomes active.    *)
WithoutTabStale(w, id) == [w EXCEPT !.open = SelectSeq(w.open, LAMBDA t : t # id)]
WithoutTab(w, id) ==
    LET index == SelectInSeq(w.open, LAMBDA t : t = id)
        open == SelectSeq(w.open, LAMBDA t : t # id)
        next == IF index <= Len(open) THEN index ELSE Len(open)
    IN  IF index = 0 THEN w
        ELSE [w EXCEPT !.open = open,
                       !.active = IF w.active # id THEN w.active
                                  ELSE IF open = <<>> THEN NoScript ELSE open[next]]

AddScript(w, id, name, content, folder) ==
    [w EXCEPT !.scripts = Append(@, [id |-> id, name |-> name, saved |-> content,
                                     buffer |-> content, folder |-> folder]),
              !.open = Append(@, id), !.active = id]
CreateScript(w, id, folder) ==
    IF folder \in Ids(w.folders) \cup {Root}
    THEN AddScript(w, id, NextScriptName(w.scripts), Blank, folder) ELSE w
DuplicateScript(w, source, id) ==
    LET s == Find(w.scripts, source)
    IN  AddScript(w, id, DuplicateScriptName(w.scripts, s.name), s.buffer, s.folder)

SetActiveScript(w, id) == IF id \in ToSet(w.open) THEN [w EXCEPT !.active = id] ELSE w
OpenScript(w, id) ==
    IF id \in ToSet(w.open) THEN SetActiveScript(w, id)
    ELSE [w EXCEPT !.open = Append(@, id), !.active = id]
CloseScript(w, id) == WithoutTab(w, id)
DeleteScript(w, id) == [WithoutTab(w, id) EXCEPT !.scripts = Without(@, id)]

Dirty(script) == script.buffer # script.saved
UpdateScriptContent(w, id, content) ==
    [w EXCEPT !.scripts = Update(@, [Find(@, id) EXCEPT !.buffer = content])]
SaveScript(w, id) ==
    LET s == Find(w.scripts, id) IN [w EXCEPT !.scripts = Update(@, [s EXCEPT !.saved = s.buffer])]
SaveAllScripts(w) == FoldLeft(LAMBDA next, s : SaveScript(next, s.id), w, w.scripts)
DiscardChanges(w, id) ==
    LET s == Find(w.scripts, id) IN [w EXCEPT !.scripts = Update(@, [s EXCEPT !.buffer = s.saved])]

RenameScript(w, id, input) ==
    IF ValidScriptName(input, w.scripts, id)
    THEN [w EXCEPT !.scripts = Update(@, [Find(@, id) EXCEPT !.name = input])] ELSE w
MoveScript(w, id, folder) ==
    IF folder \in Ids(w.folders) \cup {Root}
    THEN [w EXCEPT !.scripts = Update(@, [Find(@, id) EXCEPT !.folder = folder])] ELSE w

-----------------------------------------------------------------------------
(* Folders.                                                                *)

CanCreateFolder(w, input, parent) ==
    /\ parent \in Ids(w.folders) \cup {Root}
    /\ FolderDepth(w.folders, parent) < MaxFolderDepth
    /\ ValidFolderName(input, w.folders, parent, Root)
CreateFolder(w, id, input, parent) ==
    [w EXCEPT !.folders = Append(@, [id |-> id, name |-> input, parent |-> parent])]

RenameFolder(w, id, input) ==
    LET f == Find(w.folders, id)
    IN  IF ValidFolderName(input, w.folders, f.parent, id)
        THEN [w EXCEPT !.folders = Update(@, [f EXCEPT !.name = input])] ELSE w

(* Its scripts and subfolders move up to its parent; a subfolder whose     *)
(* name is taken there, by a sibling or by one moved before it, gets a     *)
(* number.                                                                 *)
DeleteFolderAndContents(w, id) ==
    [w EXCEPT !.folders = Without(@, id), !.scripts = SelectSeq(@, LAMBDA s : s.folder # id)]
DeleteFolder(w, id) ==
    LET up == Find(w.folders, id).parent
        Step(done, f) ==
            IF f.parent # id THEN [done EXCEPT !.folders = Append(@, f)]
            ELSE LET name == FirstFree(f.name, <<>>, done.taken)
                 IN  [folders |-> Append(done.folders, [f EXCEPT !.parent = up, !.name = name]),
                      taken |-> done.taken \cup {name}]
        lifted == FoldLeft(Step, [folders |-> <<>>, taken |-> FolderNames(w.folders, up, id)],
                           Without(w.folders, id))
    IN  [w EXCEPT !.folders = lifted.folders,
                  !.scripts = [i \in DOMAIN @ |->
                                  IF @[i].folder = id THEN [@[i] EXCEPT !.folder = up] ELSE @[i]]]

-----------------------------------------------------------------------------
(* Integrity: what loading repairs.                                        *)

NormalizeWorkspace(w) ==
    LET parents == ResolveFolderParents(w.folders)
        folders == [i \in DOMAIN w.folders |-> [w.folders[i] EXCEPT !.parent = parents[w.folders[i].id]]]
        Placed(s) == IF s.folder \in Ids(folders) THEN s ELSE [s EXCEPT !.folder = Root]
        scripts == [i \in DOMAIN w.scripts |-> Placed(w.scripts[i])]
        Keep(tabs, id) ==
            IF id \in Ids(scripts) /\ id \notin ToSet(tabs) THEN Append(tabs, id) ELSE tabs
        open == FoldLeft(Keep, <<>>, w.open)
    IN  [scripts |-> scripts, folders |-> folders, open |-> open,
         active |-> IF w.active \in ToSet(open) THEN w.active
                    ELSE IF open = <<>> THEN NoScript ELSE open[1]]

-----------------------------------------------------------------------------
(* The navigation tree.                                                    *)

FoldersIn(w, id) == {f.id : f \in {g \in ToSet(w.folders) : g.parent = id}}
ScriptsIn(w, id) == {s.id : s \in {t \in ToSet(w.scripts) : t.folder = id}}

(* What is listed below a folder: its entries, and unless a folder is      *)
(* collapsed what is in it.  The tree is what is listed below the root, so *)
(* a folder that cannot be reached from there is left out.                 *)
Below(w, id, collapsed) ==
    LET inside[f \in Folders \cup {Root}] ==
            ScriptsIn(w, f) \cup FoldersIn(w, f)
                \cup UNION {inside[g] : g \in FoldersIn(w, f) \ collapsed}
    IN  inside[id]
Rows(w, collapsed) == Below(w, Root, collapsed)

(* filterWorkspaceTree: a matching folder keeps everything inside it, any  *)
(* other only what matches in it or below, and goes when nothing does.     *)
Matches(name, word) == word \in ToSet(name)
FilteredRows(w, word) ==
    LET within[id \in Folders \cup {Root}] ==
            LET Kept(f) ==
                    IF Matches(Find(w.folders, f).name, word) THEN {f} \cup Below(w, f, {})
                    ELSE IF within[f] = {} THEN {} ELSE {f} \cup within[f]
            IN  UNION {Kept(f) : f \in FoldersIn(w, id)}
                    \cup {s \in ScriptsIn(w, id) : Matches(Find(w.scripts, s).name, word)}
    IN  within[Root]

=============================================================================
