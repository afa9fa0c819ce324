---------------------------- MODULE ScriptEditor ----------------------------
(***************************************************************************)
(* The editor over the script workspace (features/editor/ScriptEditor.tsx, *)
(* and the handlers of AppShell.tsx that drive it).  The workspace owns    *)
(* the documents; the editor has one model for each open tab that was      *)
(* shown, made from the document the first time and never pushed to again  *)
(* but by syncContent, and shows the model of the active script.           *)
(*                                                                         *)
(* A handler and the effects of its render are one action: React runs them *)
(* before the next event.  Edit stands for typing, undo and redo alike.    *)
(* Loading Monaco takes its time and may fail, and so may creating the     *)
(* editor.  Where the caret is left out but for the jumps that wait until  *)
(* their script is shown; decorations, options and line ends are left out. *)
(*                                                                         *)
(* The editor knows no folders and the sidebar shows no contents, so a     *)
(* behaviour is about one of them; in one about the editor, which starts   *)
(* without folders, none is created.                                       *)
(***************************************************************************)
EXTENDS ScriptWorkspace

VARIABLES
    shown,   \* "sidebar" or "editor": what the behaviour is about
    editor   \* load, attachedId, models, cursorToEndFor, revealFor

deskVars == <<vars, shown, editor>>

Text(w, id) == Find(w.scripts, id).buffer

Unmounted ==
    [load |-> "loading", attached |-> NoScript, models |-> <<>>, toEnd |-> NoScript, reveal |-> NoScript]

DeskInit ==
    /\ Init
    /\ shown \in {"sidebar", "editor"}
    /\ shown = "editor" => ws.folders = <<>>
    /\ editor = Unmounted

-----------------------------------------------------------------------------
(* What becomes of the editor e, over the workspace w.                     *)

(* The models of tabs that closed are disposed.                            *)
DisposeClosed(e, w) ==
    [e EXCEPT !.models = Restrict(e.models, DOMAIN e.models \cap ToSet(w.open))]

(* The active script's model is created when it has none, then attached,   *)
(* and a jump that waited for this script is made.                         *)
AttachActive(e, w) ==
    [e EXCEPT !.attached = w.active,
              !.models = IF w.active = NoScript THEN @ ELSE @ @@ (w.active :> Text(w, w.active)),
              !.toEnd = IF @ = w.active THEN NoScript ELSE @,
              !.reveal = IF @ = w.active THEN NoScript ELSE @]

(* The effect that follows every change of the tabs.  An identity may be   *)
(* taken again here, so a jump to a script that is gone is forgotten.      *)
Follow(e, w) ==
    LET known == [e EXCEPT !.toEnd = IF @ \in Ids(w.scripts) THEN @ ELSE NoScript,
                           !.reveal = IF @ \in Ids(w.scripts) THEN @ ELSE NoScript]
        kept == DisposeClosed(known, w)
    IN  IF e.load # "ready" THEN known
        ELSE IF w.active = e.attached THEN kept ELSE AttachActive(kept, w)

PlaceCursorAtEnd(e, s) == IF e.attached = s THEN e ELSE [e EXCEPT !.toEnd = s]
RevealLine(e, s) == IF e.attached = s THEN e ELSE [e EXCEPT !.reveal = s]

(* Variant: only the model on screen is synced.                            *)
SyncShown(e, w, s) == IF s = e.attached THEN [e EXCEPT !.models[s] = Text(w, s)] ELSE e

(* syncContent: a script without a model needs nothing.                    *)
SyncContent(e, w, s) ==
    IF s \in DOMAIN e.models THEN [e EXCEPT !.models[s] = Text(w, s)] ELSE e

Shows(e) == editor' = IF loaded' THEN Follow(e, ws') ELSE Unmounted

-----------------------------------------------------------------------------
Ready == loaded /\ editor.load = "ready"

(* loadMonaco resolves and the editor is created, or one of them fails.    *)
EditorLoads(ok) ==
    /\ loaded /\ editor.load = "loading"
    /\ editor' = Follow([editor EXCEPT !.load = IF ok THEN "ready" ELSE "error"], ws)
    /\ UNCHANGED vars

TryAgain ==
    /\ loaded /\ editor.load = "error"
    /\ editor' = [editor EXCEPT !.load = "loading"]
    /\ UNCHANGED vars

(* The content of a model changes: it is the document's from then on.      *)
Types(c) ==
    /\ Ready /\ editor.attached # NoScript
    /\ Edit(c)
    /\ Shows([editor EXCEPT !.models[editor.attached] = c])

(* newScriptIn: the caret goes to the end once the script is shown.        *)
CreatesScript == NewScript(Root) /\ Shows(PlaceCursorAtEnd(editor, ws'.active))

(* openScriptAtLine, from a stack frame or a breakpoint.                   *)
OpensAtLine(s) == Open(s) /\ Shows(RevealLine(editor, s))

(* onContentReset follows the discard, before anything renders.            *)
Discarded == ConfirmDiscard /\ Shows(SyncContent(editor, ws', About))

EditorNext ==
    /\ \/ \E ok \in BOOLEAN : EditorLoads(ok)
       \/ TryAgain
       \/ \E c \in Contents : Types(c)
       \/ CreatesScript
       \/ \E s \in Scripts : OpensAtLine(s)
       \/ Discarded
       \/ Elsewhere /\ Shows(editor)
    /\ ws'.folders = <<>>

DeskNext ==
    /\ \/ shown = "sidebar" /\ Next /\ UNCHANGED editor
       \/ shown = "editor" /\ EditorNext
    /\ UNCHANGED shown

DeskSpec == DeskInit /\ [][DeskNext]_deskVars

-----------------------------------------------------------------------------

(* "The workspace owns documents; this component only mirrors them": the   *)
(* editor that is ready shows the active script, so the selection that is  *)
(* executed and the line a breakpoint is set on are that script's; every   *)
(* model holds its document's text, also one that is not on screen; no     *)
(* model outlives its tab, and no jump waits for what is shown.            *)
EditorMirrors ==
    LET models == DOMAIN editor.models IN
    /\ editor.load \in {"loading", "ready", "error"}
    /\ ~Ready => editor.attached = NoScript /\ models = {}
    /\ Ready => editor.attached = ws.active
    /\ editor.attached # NoScript => editor.attached \in models
    /\ models \subseteq ToSet(ws.open)
    /\ \A s \in models : editor.models[s] = Text(ws, s)
    /\ editor.attached # NoScript => editor.attached \notin {editor.toEnd, editor.reveal}

(* The workspace, its dialogs and its editor are consistent.               *)
DeskIsSound == WorkspaceIsSound /\ (shown = "editor" => EditorMirrors)
=============================================================================
