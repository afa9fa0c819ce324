--------------------- MODULE WorkspacePersistenceProofs ---------------------
(***************************************************************************)
(* Proofs about WorkspacePersistence, for any scripts and any contents:    *)
(* what a save reported stays in storage, a skipped write skips nothing,   *)
(* and the text that has no copy is held, through any writes that fail.    *)
(***************************************************************************)
EXTENDS WorkspacePersistence, TLAPS

(* The two kinds of text are told apart by their form.                     *)
LEMMA TextFacts ==
  ASSUME NEW w \in Workspaces
  PROVE  /\ SerializeWorkspace(w) \in Texts
         /\ SerializeWorkspace(w) # NoText
         /\ SerializeWorkspace(w).doc = w
         /\ ~DiscardsData(SerializeWorkspace(w))
         /\ ~DiscardsData(NoText)
BY DEF SerializeWorkspace, Texts, Forms, NoText, DiscardsData

LEMMA Documents == NoScripts \in Workspaces /\ FirstRun \in Workspaces
<1>1. [saved |-> Blank, buffer |-> Blank] \in Script
  BY ScriptsAssumption DEF Script
<1>2. NoScripts \in [{} -> Script] /\ FirstRun \in [{Main} -> Script]
  BY <1>1 DEF NoScripts, FirstRun
<1>3. {} \in SUBSET Scripts /\ {Main} \in SUBSET Scripts
  BY ScriptsAssumption
<1>4. QED
  BY <1>2, <1>3 DEF Workspaces

LEMMA DocumentOf ==
  ASSUME NEW t \in Texts \cup {NoText} PROVE t.doc \in Workspaces
BY Documents DEF Texts, NoText

(* Replacing one script of a workspace leaves a workspace.                 *)
LEMMA Replaced ==
  ASSUME NEW w \in Workspaces, NEW s \in DOMAIN w, NEW r \in Script
  PROVE  /\ [w EXCEPT ![s] = r] \in Workspaces
         /\ DOMAIN [w EXCEPT ![s] = r] = DOMAIN w
         /\ [w EXCEPT ![s] = r][s] = r
         /\ \A q \in DOMAIN w : q # s => [w EXCEPT ![s] = r][q] = w[q]
<1>1. PICK S \in SUBSET Scripts : w \in [S -> Script]
  BY DEF Workspaces
<1>2. [w EXCEPT ![s] = r] \in [S -> Script]
  BY <1>1
<1>3. QED
  BY <1>1, <1>2 DEF Workspaces

LEMMA ScriptsOf ==
  ASSUME NEW w \in Workspaces
  PROVE  /\ DOMAIN w \subseteq Scripts
         /\ \A s \in DOMAIN w : w[s] \in Script
BY DEF Workspaces

(* What one write does, whatever its outcome.                              *)
LEMMA WriteFacts ==
  ASSUME WorkspaceInv, NEW w \in Workspaces, NEW wrote \in WriteOutcomes, SaveWorkspace(w, wrote)
  PROVE  /\ stored' \in Texts \cup {NoText}
         /\ SkippedWritesAreStored'
         /\ stored' = stored \/ stored' = SerializeWorkspace(w)
         /\ Saves(w, wrote) => stored' = SerializeWorkspace(w)
         /\ ~storage => stored' = stored /\ persisted' = NoText /\ ~Saves(w, wrote)
<1>1. stored \in Texts \cup {NoText} /\ SkippedWritesAreStored
      /\ (~storage => persisted = NoText)
  BY DEF WorkspaceInv, TypeOK
<1>2. SerializeWorkspace(w) \in Texts /\ SerializeWorkspace(w) # NoText
  BY TextFacts
<1>3. ~storage => ~wrote
  BY DEF WriteOutcomes
<1>4. CASE SerializeWorkspace(w) # persisted /\ wrote
  BY <1>1, <1>2, <1>3, <1>4 DEF SaveWorkspace, SkippedWritesAreStored, Saves
<1>5. CASE ~(SerializeWorkspace(w) # persisted /\ wrote)
  BY <1>1, <1>2, <1>3, <1>5 DEF SaveWorkspace, SkippedWritesAreStored, Saves
<1>6. QED
  BY <1>4, <1>5

(* A write keeps every promise when the workspace it writes does, and when *)
(* a new promise is only made of a write that succeeded.                   *)
LEMMA WriteKeepsPromises ==
  ASSUME WorkspaceInv, NEW w \in Workspaces, NEW wrote \in WriteOutcomes, SaveWorkspace(w, wrote),
         storage => \A s \in Scripts : promised'[s] # {} =>
                       s \in DOMAIN w /\ w[s].saved \in promised'[s],
         Saves(w, wrote) \/ \A s \in Scripts : promised'[s] \in {promised[s], {}}
  PROVE  SavedIsStored'
<1>1. CASE stored' = SerializeWorkspace(w) /\ storage
  BY <1>1, TextFacts DEF SavedIsStored
<1>2. CASE stored' = stored /\ \A s \in Scripts : promised'[s] \in {promised[s], {}}
  BY <1>2 DEF WorkspaceInv, SavedIsStored
<1>3. QED
  BY <1>1, <1>2, WriteFacts

-----------------------------------------------------------------------------

LEMMA InitInv == Init => WorkspaceInv /\ HoldIsExact
<1> SUFFICES ASSUME Init PROVE WorkspaceInv /\ HoldIsExact
  OBVIOUS
<1>1. TypeOK
  BY Documents DEF Init, TypeOK, NothingPromised
<1>2. SavedIsStored /\ SkippedWritesAreStored /\ HoldIsExact
  BY DEF Init, SavedIsStored, SkippedWritesAreStored, HoldIsExact, NothingPromised
<1>3. QED
  BY <1>1, <1>2 DEF Init, WorkspaceInv

LEMMA BootInv == WorkspaceInv /\ Boot => WorkspaceInv'
<1> SUFFICES ASSUME WorkspaceInv, Boot PROVE WorkspaceInv'
  OBVIOUS
<1> USE DEF WorkspaceInv
<1>1. stored' = stored /\ promised' = promised /\ open' = TRUE /\ armed' = TRUE /\ asked' = FALSE
  BY DEF Boot
<1>2. SavedIsStored'
  BY <1>1 DEF SavedIsStored
<1>3. CASE storage' = TRUE /\ ws' = ParseWorkspace(stored)
           /\ persisted' = IF stored.form = "whole" THEN stored ELSE NoText
  <2>1. ws' \in Workspaces
    BY <1>3, Documents, DocumentOf DEF ParseWorkspace, TypeOK
  <2>2. TypeOK'
    BY <1>1, <1>3, <2>1 DEF TypeOK
  <2>3. SkippedWritesAreStored'
    BY <1>1, <1>3 DEF SkippedWritesAreStored
  <2>4. ASSUME NEW s \in Scripts, promised'[s] # {}
        PROVE  s \in DOMAIN ws' /\ ws'[s].saved \in promised'[s]
    <3>1. s \in DOMAIN stored.doc /\ stored.doc[s].saved \in promised[s]
      BY <1>1, <2>4 DEF SavedIsStored
    <3>2. stored # NoText
      BY <3>1 DEF NoText, NoScripts
    <3>3. QED
      BY <1>1, <1>3, <3>1, <3>2 DEF ParseWorkspace
  <2>5. QED
    BY <1>2, <1>3, <2>2, <2>3, <2>4
<1>4. CASE storage' = FALSE /\ ws' = NoScripts /\ persisted' = NoText
  <2>1. TypeOK'
    BY <1>1, <1>4, Documents DEF TypeOK
  <2>2. QED
    BY <1>1, <1>2, <1>4, <2>1 DEF SkippedWritesAreStored
<1>5. QED
  BY <1>3, <1>4 DEF Boot

(* A change in memory that keeps the promises in memory keeps them all.    *)
LEMMA CommitInv ==
  ASSUME WorkspaceInv, NEW next \in Workspaces, Commit(next),
         promised' \in [Scripts -> SUBSET Contents],
         \A s \in Scripts : promised'[s] \in {promised[s], {}},
         storage => \A s \in Scripts : promised'[s] # {} =>
                       s \in DOMAIN next /\ next[s].saved \in promised'[s]
  PROVE  WorkspaceInv'
<1> USE DEF WorkspaceInv
<1>1. ws' = next /\ stored' = stored /\ persisted' = persisted /\ storage' = storage
      /\ open' = open /\ asked' = asked /\ armed' \in BOOLEAN
  BY DEF Commit, Rearm, TypeOK
<1>2. TypeOK'
  BY <1>1 DEF TypeOK
<1>3. SkippedWritesAreStored' /\ SavedIsStored'
  BY <1>1 DEF SkippedWritesAreStored, SavedIsStored
<1>4. QED
  BY <1>1, <1>2, <1>3

LEMMA MemoryInv ==
  ASSUME WorkspaceInv, NEW s \in Scripts,
         CreateScript(s) \/ DeleteScript(s) \/ \E c \in Contents : UpdateContent(s, c)
  PROVE  WorkspaceInv'
<1>1. ws \in Workspaces /\ promised \in [Scripts -> SUBSET Contents]
  BY DEF WorkspaceInv, TypeOK
<1>2. open /\ storage => \A q \in Scripts : promised[q] # {} =>
                            q \in DOMAIN ws /\ ws[q].saved \in promised[q]
  BY DEF WorkspaceInv
<1>3. DOMAIN ws \subseteq Scripts /\ \A q \in DOMAIN ws : ws[q] \in Script
  BY <1>1, ScriptsOf
<1>4. CASE CreateScript(s)
  <2> DEFINE new  == [saved |-> Blank, buffer |-> Blank]
             next == [r \in DOMAIN ws \cup {s} |-> IF r = s THEN new ELSE ws[r]]
  <2>1. open /\ s \notin DOMAIN ws /\ Commit(next) /\ promised' = promised
    BY <1>4 DEF CreateScript
  <2>2. next \in Workspaces
    <3>1. new \in Script
      BY ScriptsAssumption DEF Script
    <3>2. next \in [DOMAIN ws \cup {s} -> Script]
      BY <1>3, <3>1
    <3>3. DOMAIN ws \cup {s} \in SUBSET Scripts
      BY <1>3
    <3> HIDE DEF next
    <3>4. QED
      BY <3>2, <3>3 DEF Workspaces
  <2>3. storage => \A q \in Scripts : promised'[q] # {} =>
                      q \in DOMAIN next /\ next[q].saved \in promised'[q]
    BY <1>2, <2>1
  <2> HIDE DEF next
  <2>4. QED
    BY <1>1, <2>1, <2>2, <2>3, CommitInv
<1>5. CASE DeleteScript(s)
  <2> DEFINE next == [r \in DOMAIN ws \ {s} |-> ws[r]]
  <2>1. open /\ Commit(next) /\ promised' = [promised EXCEPT ![s] = {}]
    BY <1>5 DEF DeleteScript
  <2>2. next \in Workspaces
    <3>1. next \in [DOMAIN ws \ {s} -> Script]
      BY <1>3
    <3>2. DOMAIN ws \ {s} \in SUBSET Scripts
      BY <1>3
    <3> HIDE DEF next
    <3>3. QED
      BY <3>1, <3>2 DEF Workspaces
  <2>3. /\ promised' \in [Scripts -> SUBSET Contents]
        /\ \A q \in Scripts : promised'[q] = IF q = s THEN {} ELSE promised[q]
    BY <1>1, <2>1
  <2>4. storage => \A q \in Scripts : promised'[q] # {} =>
                      q \in DOMAIN next /\ next[q].saved \in promised'[q]
    BY <1>2, <2>1, <2>3
  <2> HIDE DEF next
  <2>5. QED
    BY <2>1, <2>2, <2>3, <2>4, CommitInv
<1>6. ASSUME NEW c \in Contents, UpdateContent(s, c) PROVE WorkspaceInv'
  <2> DEFINE script == [ws[s] EXCEPT !.buffer = c]
             next   == [ws EXCEPT ![s] = script]
  <2>1. open /\ s \in DOMAIN ws /\ Commit(next) /\ promised' = promised
    BY <1>6 DEF UpdateContent
  <2>2. script \in Script /\ script.saved = ws[s].saved
    BY <1>3, <2>1 DEF Script
  <2> HIDE DEF script
  <2>3. /\ next \in Workspaces /\ DOMAIN next = DOMAIN ws /\ next[s] = script
        /\ \A q \in DOMAIN ws : q # s => next[q] = ws[q]
    BY <1>1, <2>1, <2>2, Replaced
  <2> HIDE DEF next
  <2>4. storage => \A q \in Scripts : promised'[q] # {} =>
                      q \in DOMAIN next /\ next[q].saved \in promised'[q]
    BY <1>2, <2>1, <2>2, <2>3
  <2>5. QED
    BY <1>1, <2>1, <2>3, <2>4, CommitInv
<1>7. QED
  BY <1>4, <1>5, <1>6

-----------------------------------------------------------------------------

(* A guarded write of what is in memory, reported to nobody.               *)
LEMMA PersistInv ==
  ASSUME WorkspaceInv, NEW next \in Workspaces, NEW trigger, Persist(trigger, next),
         ws' = next, promised' = promised, open, open' = open, storage' = storage,
         armed' \in BOOLEAN,
         storage => \A s \in Scripts : promised[s] # {} =>
                       s \in DOMAIN next /\ next[s].saved \in promised[s]
  PROVE  WorkspaceInv'
<1>1. PICK copied \in WriteOutcomes, wrote \in WriteOutcomes :
         /\ GuardUnbacked(trigger, copied)
         /\ IF MayWrite(trigger, copied)
            THEN SaveWorkspace(next, wrote)
            ELSE UNCHANGED <<stored, persisted>>
  BY DEF Persist
<1>2. asked' \in BOOLEAN
  BY <1>1 DEF GuardUnbacked, WorkspaceInv, TypeOK
<1>3. /\ stored' \in Texts \cup {NoText} /\ SkippedWritesAreStored' /\ SavedIsStored'
      /\ ~storage => persisted' = NoText
  <2>1. CASE MayWrite(trigger, copied)
    <3>1. SaveWorkspace(next, wrote)
      BY <1>1, <2>1
    <3>2. SavedIsStored'
      BY <3>1, WriteKeepsPromises
    <3>3. QED
      BY <3>1, <3>2, WriteFacts
  <2>2. CASE ~MayWrite(trigger, copied)
    <3>1. stored' = stored /\ persisted' = persisted
      BY <1>1, <2>2
    <3>2. QED
      BY <3>1 DEF WorkspaceInv, TypeOK, SkippedWritesAreStored, SavedIsStored
  <2>3. QED
    BY <2>1, <2>2
<1>4. TypeOK'
  BY <1>2, <1>3 DEF WorkspaceInv, TypeOK
<1>5. QED
  BY <1>3, <1>4 DEF WorkspaceInv

(* A save commits and reports what was written, or changes neither.        *)
LEMMA CommitPersistedInv ==
  ASSUME WorkspaceInv, NEW next \in Workspaces, NEW reports \in [Scripts -> SUBSET Contents],
         CommitPersisted(next, reports), open, open' = open, storage' = storage,
         storage => \A s \in Scripts : reports[s] # {} =>
                       s \in DOMAIN next /\ next[s].saved \in reports[s]
  PROVE  WorkspaceInv'
<1>1. PICK copied \in WriteOutcomes, wrote \in WriteOutcomes :
         /\ GuardUnbacked("flush", copied)
         /\ SaveWorkspace(next, wrote)
         /\ IF Saves(next, wrote)
            THEN ws' = next /\ promised' = reports /\ Rearm(next)
            ELSE UNCHANGED <<ws, promised, armed>>
  BY DEF CommitPersisted
<1>2. asked' \in BOOLEAN
  BY <1>1 DEF GuardUnbacked, WorkspaceInv, TypeOK
<1>3. /\ stored' \in Texts \cup {NoText} /\ SkippedWritesAreStored'
      /\ ~storage => persisted' = NoText /\ ~Saves(next, wrote)
  BY <1>1, WriteFacts
<1>4. CASE Saves(next, wrote)
  <2>1. ws' = next /\ promised' = reports /\ armed' \in BOOLEAN
    BY <1>1, <1>4 DEF Rearm, WorkspaceInv, TypeOK
  <2>2. SavedIsStored'
    BY <1>1, <1>4, <2>1, WriteKeepsPromises
  <2>3. TypeOK'
    BY <1>2, <1>3, <2>1 DEF WorkspaceInv, TypeOK
  <2>4. QED
    BY <1>3, <2>1, <2>2, <2>3 DEF WorkspaceInv
<1>5. CASE ~Saves(next, wrote)
  <2>1. ws' = ws /\ promised' = promised /\ armed' = armed
    BY <1>1, <1>5
  <2>2. stored' = stored
    BY <1>1, <1>5 DEF Saves, SaveWorkspace
  <2>3. QED
    BY <1>2, <1>3, <2>1, <2>2 DEF WorkspaceInv, TypeOK, SavedIsStored
<1>6. QED
  BY <1>4, <1>5

LEMMA SaveInv ==
  ASSUME WorkspaceInv, NEW s \in Scripts, SaveScript(s) \/ DiscardChanges(s)
  PROVE  WorkspaceInv'
<1>1. ws \in Workspaces /\ promised \in [Scripts -> SUBSET Contents] /\ armed \in BOOLEAN
  BY DEF WorkspaceInv, TypeOK
<1>2. open /\ s \in DOMAIN ws /\ open' = open /\ storage' = storage
  BY DEF SaveScript, DiscardChanges
<1>3. /\ \A q \in DOMAIN ws : ws[q] \in Script
      /\ ws[s].buffer \in Contents /\ ws[s].saved \in Contents
  BY <1>1, <1>2, ScriptsOf DEF Script
<1>4. storage => \A q \in Scripts : promised[q] # {} =>
                    q \in DOMAIN ws /\ ws[q].saved \in promised[q]
  BY <1>2 DEF WorkspaceInv
<1>5. CASE SaveScript(s)
  <2> DEFINE script  == [ws[s] EXCEPT !.saved = ws[s].buffer]
             next    == [ws EXCEPT ![s] = script]
             reports == [promised EXCEPT ![s] = {ws[s].buffer}]
  <2>1. CommitPersisted(next, reports)
    BY <1>5 DEF SaveScript
  <2>2. script \in Script /\ script.saved = ws[s].buffer
    BY <1>2, <1>3 DEF Script
  <2> HIDE DEF script
  <2>3. /\ next \in Workspaces /\ DOMAIN next = DOMAIN ws /\ next[s] = script
        /\ \A q \in DOMAIN ws : q # s => next[q] = ws[q]
    BY <1>1, <1>2, <2>2, Replaced
  <2>4. /\ reports \in [Scripts -> SUBSET Contents]
        /\ \A q \in Scripts : reports[q] = IF q = s THEN {ws[s].buffer} ELSE promised[q]
    BY <1>1, <1>3
  <2> HIDE DEF next, reports
  <2>5. storage => \A q \in Scripts : reports[q] # {} =>
                      q \in DOMAIN next /\ next[q].saved \in reports[q]
    BY <1>2, <1>4, <2>2, <2>3, <2>4
  <2>6. QED
    BY <1>2, <2>1, <2>3, <2>4, <2>5, CommitPersistedInv
<1>6. CASE DiscardChanges(s)
  <2> DEFINE script == [ws[s] EXCEPT !.buffer = ws[s].saved]
             next   == [ws EXCEPT ![s] = script]
  <2>1. ws' = next /\ Rearm(next) /\ Persist("flush", next) /\ promised' = promised
    BY <1>6 DEF DiscardChanges
  <2>2. script \in Script /\ script.saved = ws[s].saved
    BY <1>2, <1>3 DEF Script
  <2> HIDE DEF script
  <2>3. /\ next \in Workspaces /\ DOMAIN next = DOMAIN ws /\ next[s] = script
        /\ \A q \in DOMAIN ws : q # s => next[q] = ws[q]
    BY <1>1, <1>2, <2>2, Replaced
  <2> HIDE DEF next
  <2>4. armed' \in BOOLEAN
    BY <1>1, <2>1 DEF Rearm
  <2>5. storage => \A q \in Scripts : promised[q] # {} =>
                      q \in DOMAIN next /\ next[q].saved \in promised[q]
    BY <1>4, <2>2, <2>3
  <2>6. QED
    BY <1>2, <2>1, <2>3, <2>4, <2>5, PersistInv
<1>7. QED
  BY <1>5, <1>6

(* A clean script already has in memory, as saved, what saving it would    *)
(* store: saving all of them keeps what was promised of it.                *)
LEMMA SaveAllInv == WorkspaceInv /\ SaveAll => WorkspaceInv'
<1> SUFFICES ASSUME WorkspaceInv, SaveAll PROVE WorkspaceInv'
  OBVIOUS
<1> DEFINE next    == [s \in DOMAIN ws |-> [ws[s] EXCEPT !.saved = ws[s].buffer]]
           reports == [s \in Scripts |-> IF s \in DOMAIN ws /\ Dirty(ws, s)
                                         THEN {ws[s].buffer} ELSE promised[s]]
<1>1. open /\ open' = open /\ storage' = storage /\ CommitPersisted(next, reports)
  BY DEF SaveAll
<1>2. ws \in Workspaces /\ promised \in [Scripts -> SUBSET Contents]
  BY DEF WorkspaceInv, TypeOK
<1>3. /\ DOMAIN ws \in SUBSET Scripts
      /\ \A s \in DOMAIN ws : ws[s] \in Script
      /\ \A s \in DOMAIN ws : ws[s].buffer \in Contents
  BY <1>2, ScriptsOf DEF Script
<1>4. \A s \in DOMAIN ws : /\ next[s] \in Script
                           /\ next[s].saved = ws[s].buffer
  BY <1>3 DEF Script
<1>5. next \in Workspaces
  <2>1. next \in [DOMAIN ws -> Script]
    BY <1>4
  <2> HIDE DEF next
  <2>2. QED
    BY <1>3, <2>1 DEF Workspaces
<1>6. DOMAIN next = DOMAIN ws
  OBVIOUS
<1>7. reports \in [Scripts -> SUBSET Contents]
  BY <1>2, <1>3
<1>8. \A s \in Scripts : reports[s] = IF s \in DOMAIN ws /\ Dirty(ws, s)
                                      THEN {ws[s].buffer} ELSE promised[s]
  OBVIOUS
<1> HIDE DEF next, reports
<1>9. storage => \A s \in Scripts : reports[s] # {} =>
                    s \in DOMAIN next /\ next[s].saved \in reports[s]
  <2>1. storage => \A s \in Scripts : promised[s] # {} =>
                      s \in DOMAIN ws /\ ws[s].saved \in promised[s]
    BY <1>1 DEF WorkspaceInv
  <2>2. QED
    BY <1>4, <1>6, <1>8, <2>1 DEF Dirty
<1>10. QED
  BY <1>1, <1>5, <1>7, <1>9, CommitPersistedInv

LEMMA QuietInv == WorkspaceInv /\ (Autosave \/ Flush) => WorkspaceInv'
<1> SUFFICES ASSUME WorkspaceInv, Autosave \/ Flush PROVE WorkspaceInv'
  OBVIOUS
<1>1. PICK trigger \in {"autosave", "flush"} : Persist(trigger, ws)
  BY DEF Autosave, Flush
<1>2. /\ ws' = ws /\ promised' = promised /\ open /\ open' = open /\ storage' = storage
      /\ armed' \in BOOLEAN
  BY DEF Autosave, Flush, session, WorkspaceInv, TypeOK
<1>3. /\ ws \in Workspaces
      /\ storage => \A s \in Scripts : promised[s] # {} =>
                       s \in DOMAIN ws /\ ws[s].saved \in promised[s]
  BY <1>2 DEF WorkspaceInv, TypeOK
<1>4. QED
  BY <1>1, <1>2, <1>3, PersistInv

LEMMA ExitInv == WorkspaceInv /\ Exit => WorkspaceInv'
BY Documents DEF Exit, WorkspaceInv, TypeOK, SkippedWritesAreStored, SavedIsStored

(* What is promised is in storage and in memory: no step undoes it.        *)
THEOREM WorkspaceInvariant == Spec => []WorkspaceInv
<1>1. WorkspaceInv /\ [Next]_vars => WorkspaceInv'
  <2> SUFFICES ASSUME WorkspaceInv, [Next]_vars PROVE WorkspaceInv'
    OBVIOUS
  <2>1. CASE Boot
    BY <2>1, BootInv
  <2>2. ASSUME NEW s \in Scripts,
               \/ CreateScript(s) \/ DeleteScript(s) \/ SaveScript(s) \/ DiscardChanges(s)
               \/ \E c \in Contents : UpdateContent(s, c)
        PROVE  WorkspaceInv'
    BY <2>2, MemoryInv, SaveInv
  <2>3. CASE SaveAll
    BY <2>3, SaveAllInv
  <2>4. CASE Autosave \/ Flush
    BY <2>4, QuietInv
  <2>5. CASE Exit
    BY <2>5, ExitInv
  <2>6. CASE UNCHANGED vars
    BY <2>6 DEF vars, session, WorkspaceInv, TypeOK, SkippedWritesAreStored, SavedIsStored
  <2>7. QED
    BY <2>1, <2>2, <2>3, <2>4, <2>5, <2>6 DEF Next
<1>2. QED
  BY InitInv, <1>1, PTL DEF Spec

(* saveScript and saveAll return true only for what the next launch, and   *)
(* every later one, will load.                                             *)
THEOREM SavedStays == Spec => []SavedIsStored
<1>1. WorkspaceInv => SavedIsStored
  BY DEF WorkspaceInv
<1>2. QED
  BY WorkspaceInvariant, <1>1, PTL

(* The write saveWorkspace skips would have changed nothing.               *)
THEOREM SkipsAreSafe == Spec => []SkippedWritesAreStored
<1>1. WorkspaceInv => SkippedWritesAreStored
  BY DEF WorkspaceInv
<1>2. QED
  BY WorkspaceInvariant, <1>1, PTL

-----------------------------------------------------------------------------

(* A guarded write keeps the hold exact: it retries the backup, and        *)
(* replaces dropped text only when released.                               *)
LEMMA WriteKeepsHold ==
  ASSUME HoldIsExact, NEW w, NEW trigger, NEW copied \in WriteOutcomes,
         NEW wrote \in WriteOutcomes, GuardUnbacked(trigger, copied),
         IF MayWrite(trigger, copied) THEN SaveWorkspace(w, wrote)
                                      ELSE UNCHANGED <<stored, persisted>>,
         open, open' = open, storage' = storage
  PROVE  HoldIsExact'
<1>1. stored' = stored \/ ~DiscardsData(stored')
  BY DEF SaveWorkspace, SerializeWorkspace, DiscardsData
<1>2. CASE unbacked = NoText
  BY <1>1, <1>2 DEF HoldIsExact, GuardUnbacked, MayWrite
<1>3. CASE unbacked # NoText /\ ~MayWrite(trigger, copied)
  BY <1>3 DEF HoldIsExact, GuardUnbacked, MayWrite
<1>4. CASE unbacked # NoText /\ MayWrite(trigger, copied)
  <2>1. unbacked' = NoText /\ stored = unbacked
        /\ (asked' = TRUE \/ backup' = unbacked)
    BY <1>4 DEF HoldIsExact, GuardUnbacked, MayWrite
  <2>2. QED
    BY <1>1, <2>1 DEF HoldIsExact
<1>5. QED
  BY <1>2, <1>3, <1>4

(* Text that has no copy is held until a save or a flush replaces it,      *)
(* whatever edits, autosaves and failed backups come between.              *)
THEOREM HoldHolds == Spec => []HoldIsExact
<1>1. HoldIsExact /\ [Next]_vars => HoldIsExact'
  <2> SUFFICES ASSUME HoldIsExact, [Next]_vars PROVE HoldIsExact'
    OBVIOUS
  <2>1. CASE Boot
    BY <2>1 DEF Boot, HoldIsExact
  <2>2. ASSUME NEW s \in Scripts,
               CreateScript(s) \/ DeleteScript(s) \/ \E c \in Contents : UpdateContent(s, c)
        PROVE  HoldIsExact'
    <3>1. PICK next : Commit(next)
      BY <2>2 DEF CreateScript, DeleteScript, UpdateContent
    <3>2. QED
      BY <3>1 DEF Commit, HoldIsExact
  <2>3. ASSUME open, open' = open, storage' = storage,
               \E next, reports : CommitPersisted(next, reports)
        PROVE  HoldIsExact'
    <3>1. PICK next : \E copied \in WriteOutcomes, wrote \in WriteOutcomes :
                         GuardUnbacked("flush", copied) /\ SaveWorkspace(next, wrote)
      BY <2>3 DEF CommitPersisted
    <3>2. \A copied : MayWrite("flush", copied)
      BY DEF MayWrite
    <3>3. QED
      BY <2>3, <3>1, <3>2, WriteKeepsHold
  <2>4. ASSUME open, open' = open, storage' = storage,
               \E next, trigger : Persist(trigger, next)
        PROVE  HoldIsExact'
    BY <2>4, WriteKeepsHold DEF Persist
  <2>5. ASSUME NEW s \in Scripts, SaveScript(s) \/ DiscardChanges(s) PROVE HoldIsExact'
    BY <2>3, <2>4, <2>5 DEF SaveScript, DiscardChanges
  <2>6. CASE SaveAll
    BY <2>3, <2>6 DEF SaveAll
  <2>7. CASE Autosave \/ Flush
    BY <2>4, <2>7 DEF Autosave, Flush, session
  <2>8. CASE Exit
    BY <2>8 DEF Exit, HoldIsExact
  <2>9. CASE UNCHANGED vars
    BY <2>9 DEF vars, session, HoldIsExact
  <2>10. QED
    BY <2>1, <2>2, <2>5, <2>6, <2>7, <2>8, <2>9 DEF Next
<1>2. QED
  BY InitInv, <1>1, PTL DEF Spec
=============================================================================
