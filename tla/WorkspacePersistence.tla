------------------------ MODULE WorkspacePersistence ------------------------
(***************************************************************************)
(* How the script workspace reaches local storage and comes back           *)
(* (features/scripts/useScriptWorkspace.ts over persistence.ts).           *)
(*                                                                         *)
(* The workspace is kept in memory, autosaved 750 ms after it last         *)
(* changed, written through by an explicit save, and flushed when the      *)
(* window is hidden or closed.  Two storage keys are involved: the         *)
(* workspace, and a backup that receives the original text when loading    *)
(* had to drop some of it.  Any write may fail (a full storage), and a     *)
(* session may find storage unavailable altogether; the window may be      *)
(* killed between any two steps.                                           *)
(*                                                                         *)
(* A stored text is one of four forms; the document is what parsing it     *)
(* yields.  Folders, tabs and names are part of the same document and are  *)
(* left out: they are written and read with the scripts.                   *)
(***************************************************************************)
EXTENDS Naturals

CONSTANTS
    Scripts,    \* identities of scripts
    Contents,   \* what a script's buffer may hold
    Main,       \* the script a first run creates
    Blank       \* the contents of a new script

ASSUME ScriptsAssumption == Main \in Scripts /\ Blank \in Contents

VARIABLES
    stored,     \* the text under nova.workspace
    backup,     \* the text under nova.workspace.backup
    storage,    \* whether this session can use storage at all
    open,       \* whether the window is up
    ws,         \* stateRef: the workspace in memory
    persisted,  \* persistedRaw: the text last read or written whole
    unbacked,   \* unbackedRaw: dropped text whose backup failed
    armed,      \* whether the autosave timer is pending
    promised,   \* history: what a save that succeeded last reported of a script
    asked       \* history: this session, a save or a flush replaced dropped text

session == <<storage, open, armed>>
vars == <<stored, backup, session, ws, persisted, unbacked, promised, asked>>

-----------------------------------------------------------------------------

(* A script is clean when its buffer is what was saved; the serialized     *)
(* form stores the saved contents and, for a dirty script, the draft.      *)
Script == [saved : Contents, buffer : Contents]
Workspaces == UNION {[S -> Script] : S \in SUBSET Scripts}
NoScripts == [s \in {} |-> [saved |-> Blank, buffer |-> Blank]]
FirstRun == [s \in {Main} |-> [saved |-> Blank, buffer |-> Blank]]
Dirty(w, s) == w[s].buffer # w[s].saved

(* "whole": what Nova writes.  "old": an earlier schema, or repairs that   *)
(* keep every script.  "damaged": some entries cannot be used and are      *)
(* dropped.  "broken": nothing can be used.                                *)
Forms == {"whole", "old", "damaged", "broken"}
NoText == [form |-> "missing", doc |-> NoScripts]
Texts == {t \in [form : Forms, doc : Workspaces] : t.form = "broken" => t.doc = NoScripts}

SerializeWithoutDrafts(w) ==
    [form |-> "whole", doc |-> [s \in DOMAIN w |-> [saved |-> w[s].saved]]]
SerializeWorkspace(w) == [form |-> "whole", doc |-> w]
DiscardsData(t) == t.form \in {"damaged", "broken"}
ParseWorkspace(t) == IF t = NoText THEN FirstRun ELSE t.doc

NothingPromised == [s \in Scripts |-> {}]

Init ==
    /\ stored \in Texts \cup {NoText}
    /\ backup = NoText
    /\ storage = TRUE /\ open = FALSE /\ armed = FALSE
    /\ ws = NoScripts /\ persisted = NoText /\ unbacked = NoText
    /\ promised = NothingPromised
    /\ asked = FALSE

-----------------------------------------------------------------------------

(* The outcome of one write: any write may fail, and all do where storage  *)
(* is unavailable.                                                         *)
WriteOutcomes == IF storage THEN BOOLEAN ELSE {FALSE}

(* saveWorkspace: a text equal to the last one known to be stored is not   *)
(* written again.                                                          *)
Saves(w, wrote) == SerializeWorkspace(w) = persisted \/ wrote
WriteAssumed(w, wrote) ==
    /\ stored' = IF wrote THEN SerializeWorkspace(w) ELSE stored
    /\ persisted' = SerializeWorkspace(w)
SaveWorkspace(w, wrote) ==
    IF SerializeWorkspace(w) # persisted /\ wrote
    THEN stored' = SerializeWorkspace(w) /\ persisted' = SerializeWorkspace(w)
    ELSE UNCHANGED <<stored, persisted>>

(* guardUnbacked: tries the failed backup again; a flush or an explicit    *)
(* save goes ahead without it, the autosave does not.                      *)
MayWrite(trigger, copied) == unbacked = NoText \/ copied \/ trigger = "flush"
GuardUnbacked(trigger, copied) ==
    /\ backup' = IF unbacked # NoText /\ copied THEN unbacked ELSE backup
    /\ unbacked' = IF MayWrite(trigger, copied) THEN NoText ELSE unbacked
    /\ asked' = (asked \/ (unbacked # NoText /\ ~copied /\ trigger = "flush"))

(* persist: the guarded write of the workspace w, which is the one in      *)
(* memory by then.                                                         *)
Persist(trigger, w) ==
    \E copied \in WriteOutcomes, wrote \in WriteOutcomes :
        /\ GuardUnbacked(trigger, copied)
        /\ IF MayWrite(trigger, copied)
           THEN SaveWorkspace(w, wrote)
           ELSE UNCHANGED <<stored, persisted>>

(* The autosave effect reruns with every new state: the timer starts over. *)
Rearm(w) == armed' = (armed \/ w # ws)

(* commitPersisted: writes first and commits only what was written.        *)
CommitThenWrite(next, reports) ==
    \E copied \in WriteOutcomes, wrote \in WriteOutcomes :
        /\ GuardUnbacked("flush", copied)
        /\ SaveWorkspace(next, wrote)
        /\ ws' = next /\ promised' = reports /\ Rearm(next)
CommitPersisted(next, reports) ==
    \E copied \in WriteOutcomes, wrote \in WriteOutcomes :
        /\ GuardUnbacked("flush", copied)
        /\ SaveWorkspace(next, wrote)
        /\ IF Saves(next, wrote)
           THEN ws' = next /\ promised' = reports /\ Rearm(next)
           ELSE UNCHANGED <<ws, promised, armed>>

-----------------------------------------------------------------------------

(* bootWorkspace and reportLoad: the first render reads, the first effect  *)
(* backs up what parsing dropped, and the autosave is armed.               *)
BootUnheld ==
    /\ ~open
    /\ open' = TRUE /\ armed' = TRUE /\ asked' = FALSE
    /\ storage' = TRUE
    /\ ws' = ParseWorkspace(stored)
    /\ persisted' = IF stored.form = "whole" THEN stored ELSE NoText
    /\ \E copied \in BOOLEAN : backup' = IF DiscardsData(stored) /\ copied THEN stored ELSE backup
    /\ unbacked' = NoText
    /\ UNCHANGED <<stored, promised>>
Boot ==
    /\ ~open
    /\ open' = TRUE /\ armed' = TRUE /\ asked' = FALSE
    /\ \/ /\ storage' = TRUE
          /\ ws' = ParseWorkspace(stored)
          /\ persisted' = IF stored.form = "whole" THEN stored ELSE NoText
          /\ \E copied \in BOOLEAN :
                /\ backup' = IF DiscardsData(stored) /\ copied THEN stored ELSE backup
                /\ unbacked' = IF DiscardsData(stored) /\ ~copied THEN stored ELSE NoText
       \/ /\ storage' = FALSE
          /\ ws' = NoScripts /\ persisted' = NoText /\ unbacked' = NoText
          /\ UNCHANGED backup
    /\ UNCHANGED <<stored, promised>>

(* commit: a change in memory only.                                        *)
Commit(next) ==
    /\ ws' = next /\ Rearm(next)
    /\ UNCHANGED <<stored, backup, storage, open, persisted, unbacked, asked>>

CreateScript(s) ==
    /\ open /\ s \notin DOMAIN ws
    /\ Commit([r \in DOMAIN ws \cup {s} |->
                  IF r = s THEN [saved |-> Blank, buffer |-> Blank] ELSE ws[r]])
    /\ UNCHANGED promised

UpdateContent(s, c) ==
    /\ open /\ s \in DOMAIN ws
    /\ Commit([ws EXCEPT ![s].buffer = c])
    /\ UNCHANGED promised

DeleteScript(s) ==
    /\ open /\ s \in DOMAIN ws
    /\ Commit([r \in DOMAIN ws \ {s} |-> ws[r]])
    /\ promised' = [promised EXCEPT ![s] = {}]

(* saveScript and saveAll: return true, or leave the editor as it was.     *)
SaveScript(s) ==
    /\ open /\ s \in DOMAIN ws
    /\ CommitPersisted([ws EXCEPT ![s].saved = ws[s].buffer],
                       [promised EXCEPT ![s] = {ws[s].buffer}])
    /\ UNCHANGED <<storage, open>>

SaveAll ==
    /\ open /\ \E s \in DOMAIN ws : Dirty(ws, s)
    /\ CommitPersisted([s \in DOMAIN ws |-> [ws[s] EXCEPT !.saved = ws[s].buffer]],
                       [s \in Scripts |-> IF s \in DOMAIN ws /\ Dirty(ws, s)
                                          THEN {ws[s].buffer} ELSE promised[s]])
    /\ UNCHANGED <<storage, open>>

(* discardChanges: commits, then flushes at once.                          *)
DiscardChanges(s) ==
    /\ open /\ s \in DOMAIN ws /\ Dirty(ws, s)
    /\ LET next == [ws EXCEPT ![s].buffer = ws[s].saved]
       IN  ws' = next /\ Rearm(next) /\ Persist("flush", next)
    /\ UNCHANGED <<storage, open, promised>>

(* The timer fires once; only a new state arms it again.                   *)
Autosave ==
    /\ open /\ armed
    /\ Persist("autosave", ws)
    /\ armed' = FALSE
    /\ UNCHANGED <<storage, open, ws, promised>>

(* The page is hidden: pagehide, beforeunload or visibilitychange.         *)
Flush ==
    /\ open
    /\ Persist("flush", ws)
    /\ UNCHANGED <<session, ws, promised>>

(* The window goes, after a Flush or, when killed, without one.            *)
Exit ==
    /\ open
    /\ open' = FALSE /\ armed' = FALSE /\ storage' = TRUE
    /\ ws' = NoScripts /\ persisted' = NoText /\ unbacked' = NoText
    /\ UNCHANGED <<stored, backup, promised, asked>>

Next ==
    \/ Boot
    \/ \E s \in Scripts : \/ CreateScript(s) \/ DeleteScript(s)
                          \/ SaveScript(s) \/ DiscardChanges(s)
                          \/ \E c \in Contents : UpdateContent(s, c)
    \/ SaveAll
    \/ Autosave
    \/ Flush
    \/ Exit

Spec == Init /\ [][Next]_vars

-----------------------------------------------------------------------------

(* Every variable has the values the program gives it.                     *)
TypeOK ==
    /\ stored \in Texts \cup {NoText}
    /\ storage \in BOOLEAN /\ open \in BOOLEAN /\ armed \in BOOLEAN /\ asked \in BOOLEAN
    /\ ws \in Workspaces
    /\ promised \in [Scripts -> SUBSET Contents]

(* A write is skipped only when storage already holds exactly that text:   *)
(* persistedRaw never runs ahead of storage, whatever writes failed before.*)
SkippedWritesAreStored == persisted # NoText => stored = persisted

(* "So saved always means persisted": what a save reported of a script is  *)
(* in storage until the script is saved again or deleted, through failed   *)
(* writes, kills, restarts and sessions without storage.                   *)
SavedIsStored ==
    \A s \in Scripts : promised[s] # {} =>
        /\ ~DiscardsData(stored)
        /\ s \in DOMAIN stored.doc
        /\ stored.doc[s].saved \in promised[s]

(* What is held is exactly the text that has no copy.  Dropped text whose  *)
(* backup failed stays held until the user saves or the window flushes, no *)
(* matter how many edits, autosaves and failed backups come between; and   *)
(* while it is held nothing replaces it in storage.                        *)
HoldIsExact ==
    /\ unbacked # NoText => stored = unbacked
    /\ (open /\ storage /\ ~asked /\ DiscardsData(stored) /\ backup # stored) => unbacked = stored

(* The strengthening of SavedIsStored that one step preserves.  What was   *)
(* promised is in memory as well as in storage, so that whatever is        *)
(* written next keeps it; only a session that cannot use storage may have  *)
(* it in storage alone, and nothing it does is written.                    *)
WorkspaceInv ==
    /\ TypeOK
    /\ SkippedWritesAreStored
    /\ SavedIsStored
    /\ ~storage => persisted = NoText
    /\ open /\ storage =>
          \A s \in Scripts : promised[s] # {} => s \in DOMAIN ws /\ ws[s].saved \in promised[s]

(* What the README says of the hold: when the copy fails, the unattended   *)
(* autosave holds off rather than overwrite what may be the only copy.     *)
(* The code releases the hold when an explicit save goes ahead, also when  *)
(* that save then fails and replaces nothing.                              *)
AutosaveSparesTheOnlyCopy ==
    [][(Autosave /\ DiscardsData(stored) /\ stored' # stored) => backup' = stored]_vars

=============================================================================
