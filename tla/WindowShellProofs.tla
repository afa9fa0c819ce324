------------------------- MODULE WindowShellProofs -------------------------
(***************************************************************************)
(* Proofs about the updater, the window's dialogs and palette, and the     *)
(* settings, for any bounds on checks and installations, any queries and   *)
(* any stored entries.  The updater's invariant is kept by each of its own *)
(* steps, whoever asks for it; the palette's holds of every list of        *)
(* commands, whatever is enabled; the settings share no state with either. *)
(***************************************************************************)
EXTENDS WindowShell, Settings, FiniteSetTheorems, FunctionTheorems, SequenceTheorems,
        TLAPS

USE UpdateBounds

-----------------------------------------------------------------------------
(* The updater.                                                            *)

UpdStatuses == {"idle", "checking", "up-to-date", "available", "downloading",
                "installing", "ready", "error"}

UpdTypes ==
    /\ upd \in [status : UpdStatuses, release : Nat, prompt : BOOLEAN, manual : BOOLEAN]
    /\ updThrew \in BOOLEAN /\ updDisposed \in BOOLEAN
    /\ given \in Nat /\ offered \in 0 .. given /\ running \in 0 .. given
    /\ closed \subseteq 1 .. given /\ installed \subseteq 1 .. given
    /\ checkPass \in Nat /\ asked \in Nat

(* While the updater lives, the check without an answer is the newest one, *)
(* a check has let go of what was offered, and an installation shows the   *)
(* release it installs.                                                    *)
UpdLinks ==
    /\ updDisposed => startup = "done"
    /\ ~updDisposed =>
        /\ asked # 0 => asked = checkPass
        /\ upd.status = "checking" => offered = 0 /\ upd.release = 0
        /\ upd.status \in {"downloading", "installing"} => upd.release # 0

UpdInv == UpdTypes /\ UpdLinks /\ UpdatesAreSound

(* A move along one status, or two, which the table has.                   *)
LEMMA OneMove ==
    ASSUME UpdTypes, NEW s \in UpdStatuses, NEW shown, MoveTo(<<s>>, shown),
           s \in UpdTransitions[upd.status]
    PROVE  upd' = [shown EXCEPT !.status = s] /\ updThrew' = updThrew
<1>1. /\ upd' = [shown EXCEPT !.status = s]
      /\ updThrew' = (updThrew \/ \E i \in DOMAIN <<s>> : <<s>>[i] \notin UpdTransitions[(<<upd.status>> \o <<s>>)[i]])
    BY DEF MoveTo
<1>2. \A i \in DOMAIN <<s>> : <<s>>[i] \in UpdTransitions[(<<upd.status>> \o <<s>>)[i]]
    OBVIOUS
<1>3. updThrew' = updThrew
    BY <1>1, <1>2, Zenon DEF UpdTypes
<1>4. QED
    BY <1>1, <1>3

LEMMA TwoMoves ==
    ASSUME UpdTypes, NEW s \in UpdStatuses, NEW t \in UpdStatuses, NEW shown, MoveTo(<<s, t>>, shown),
           s \in UpdTransitions[upd.status], t \in UpdTransitions[s]
    PROVE  upd' = [shown EXCEPT !.status = t] /\ updThrew' = updThrew
<1>1. /\ upd' = [shown EXCEPT !.status = t]
      /\ updThrew' = (updThrew \/ \E i \in DOMAIN <<s, t>> :
                                    <<s, t>>[i] \notin UpdTransitions[(<<upd.status>> \o <<s, t>>)[i]])
    BY DEF MoveTo
<1>2. \A i \in DOMAIN <<s, t>> : <<s, t>>[i] \in UpdTransitions[(<<upd.status>> \o <<s, t>>)[i]]
    OBVIOUS
<1>3. updThrew' = updThrew
    BY <1>1, <1>2, Zenon DEF UpdTypes
<1>4. QED
    BY <1>1, <1>3

LEMMA EmptyPath == ASSUME NEW s PROVE <<>> \o <<s>> = <<s>>
<1>1. <<s>> \in Seq({s})
    OBVIOUS
<1>2. QED
    BY <1>1, ConcatEmptySeq

LEMMA TwoStepPath == ASSUME NEW s \in UpdStatuses, NEW t \in UpdStatuses PROVE <<s>> \o <<t>> = <<s, t>>
<1>1. PICK a : a = <<s>>
    OBVIOUS
<1>2. PICK b : b = <<t>>
    OBVIOUS
<1>3. PICK c : c = <<s, t>>
    OBVIOUS
<1>4. a \in Seq(UpdStatuses) /\ b \in Seq(UpdStatuses) /\ c \in Seq(UpdStatuses) /\ Len(a) = 1 /\ Len(b) = 1 /\ Len(c) = 2
    BY <1>1, <1>2, <1>3
<1>5. a[1] = s /\ b[1] = t /\ c[1] = s /\ c[2] = t
    BY <1>1, <1>2, <1>3
<1>6. a \o b \in Seq(UpdStatuses) /\ Len(a \o b) = 2
    BY <1>4
<1>7. \A i \in 1 .. 2 : (a \o b)[i] = IF i <= 1 THEN a[i] ELSE b[i - 1]
    BY <1>4, ConcatProperties
<1>8. a \o b = c
    BY <1>4, <1>5, <1>6, <1>7, SeqEqual
<1>9. QED
    BY <1>1, <1>2, <1>3, <1>8

(* Where the table lets a status go.                                       *)
LEMMA UpdTable ==
    /\ \A s \in Checkable : s \in UpdStatuses /\ "checking" \in UpdTransitions[s]
    /\ \A s \in {"up-to-date", "available", "error"} : s \in UpdTransitions["checking"]
    /\ "downloading" \in UpdTransitions["available"] /\ "idle" \in UpdTransitions["available"]
    /\ "available" \in UpdTransitions["error"]
    /\ "installing" \in UpdTransitions["downloading"] /\ "error" \in UpdTransitions["downloading"]
    /\ "ready" \in UpdTransitions["installing"] /\ "error" \in UpdTransitions["installing"]
    BY DEF UpdTransitions, Checkable, UpdStatuses

LEMMA UpdInitInv == UpdInit => UpdInv
<1> SUFFICES ASSUME UpdInit PROVE UpdInv
    OBVIOUS
<1> USE DEF UpdInit
<1>1. UpdTypes
    <2>1. upd \in [status : UpdStatuses, release : Nat, prompt : BOOLEAN, manual : BOOLEAN]
        BY DEF UpdStatuses
    <2>2. updThrew \in BOOLEAN /\ updDisposed \in BOOLEAN
        OBVIOUS
    <2>3. /\ given \in Nat /\ offered \in 0 .. given /\ running \in 0 .. given
          /\ closed \subseteq 1 .. given /\ installed \subseteq 1 .. given
          /\ checkPass \in Nat /\ asked \in Nat
        OBVIOUS
    <2>4. QED
        BY <2>1, <2>2, <2>3 DEF UpdTypes
<1>2. UpdLinks
    BY DEF UpdLinks
<1>3. HandlesAreKept /\ ReleaseIsHeld
    BY DEF HandlesAreKept, ReleaseIsHeld
<1>4. BusyHasAnOwner /\ SilentUnlessAsked
    BY DEF BusyHasAnOwner, SilentUnlessAsked
<1>5. QED
    BY <1>1, <1>2, <1>3, <1>4 DEF UpdInv, UpdatesAreSound

(* A check lets go of the offer and is the newest.                         *)
LEMMA CheckInv ==
    ASSUME UpdInv, NEW manual \in BOOLEAN, ~updDisposed, upd.status \in Checkable, Check(manual),
           UNCHANGED <<installVars, updDisposed>>
    PROVE  UpdInv'
<1> USE DEF UpdInv, UpdatesAreSound
<1>1. /\ upd' = [upd EXCEPT !.manual = manual, !.release = 0, !.prompt = @ /\ manual, !.status = "checking"]
      /\ updThrew' = updThrew
    <2>1. upd' = [[upd EXCEPT !.manual = manual, !.release = 0, !.prompt = @ /\ manual]
                    EXCEPT !.status = "checking"] /\ updThrew' = updThrew
        BY OneMove, UpdTable DEF Check, UpdStatuses
    <2>2. QED
        BY <2>1 DEF UpdTypes
<1>2. /\ upd' \in [status : UpdStatuses, release : Nat, prompt : BOOLEAN, manual : BOOLEAN]
      /\ upd'.status = "checking" /\ upd'.release = 0
    BY <1>1 DEF UpdTypes, UpdStatuses
<1>3. /\ checkPass' = checkPass + 1 /\ asked' = checkPass + 1 /\ offered' = 0
      /\ closed' = closed \cup ({offered} \ {0}) /\ given' = given /\ installed' = installed
      /\ running' = running /\ updDisposed' = updDisposed
    BY DEF Check, ReleaseOffer, installVars
<1>4. running = 0 /\ installed = {}
    BY DEF BusyHasAnOwner, ReleaseIsHeld, Checkable
<1>5. UpdTypes'
    BY <1>1, <1>2, <1>3 DEF UpdTypes
<1>6. UpdLinks'
    BY <1>2, <1>3 DEF UpdLinks
<1>7. HandlesAreKept'
    BY <1>3, <1>4 DEF HandlesAreKept, UpdTypes
<1>8. ReleaseIsHeld'
    BY <1>2, <1>3, <1>4 DEF ReleaseIsHeld
<1>9. BusyHasAnOwner'
    BY <1>1, <1>2, <1>3, <1>4 DEF BusyHasAnOwner, UpdTypes
<1>10. SilentUnlessAsked'
    BY <1>2 DEF SilentUnlessAsked
<1>11. QED
    BY <1>5, <1>6, <1>7, <1>8, <1>9, <1>10

(* The answer to the newest check ends it; any other changes nothing shown.*)
LEMMA CheckAnsweredInv ==
    ASSUME UpdInv, asked # 0, asked' = 0, NEW s \in {"up-to-date", "error"},
           IF NotWanted THEN UNCHANGED <<upd, updThrew>> ELSE MoveTo(<<s>>, [upd EXCEPT !.prompt = upd.manual]),
           UNCHANGED <<handleVars, checkPass, startup, installVars, updDisposed>>
    PROVE  UpdInv'
<1> USE DEF UpdInv, UpdatesAreSound
<1>1. /\ offered' = offered /\ given' = given /\ closed' = closed /\ installed' = installed
      /\ running' = running /\ updDisposed' = updDisposed /\ checkPass' = checkPass /\ startup' = startup
    BY DEF handleVars, installVars
<1>2. HandlesAreKept'
    BY <1>1 DEF HandlesAreKept
<1>3. CASE updDisposed
    <2>1. upd' = upd /\ updThrew' = updThrew
        BY <1>3 DEF NotWanted
    <2>2. UpdTypes' /\ UpdLinks'
        BY <1>1, <1>3, <2>1 DEF UpdTypes, UpdLinks
    <2>3. ReleaseIsHeld' /\ BusyHasAnOwner' /\ SilentUnlessAsked'
        BY <1>1, <1>3, <2>1 DEF ReleaseIsHeld, BusyHasAnOwner, SilentUnlessAsked
    <2>4. QED
        BY <1>2, <2>2, <2>3
<1>4. CASE ~updDisposed
    <2>1. asked = checkPass /\ upd.status = "checking" /\ offered = 0 /\ upd.release = 0
        BY <1>4 DEF UpdLinks, BusyHasAnOwner
    <2>2. upd' = [upd EXCEPT !.prompt = upd.manual, !.status = s] /\ updThrew' = updThrew
        <3>1. upd' = [[upd EXCEPT !.prompt = upd.manual] EXCEPT !.status = s] /\ updThrew' = updThrew
            BY <1>4, <2>1, OneMove, UpdTable DEF NotWanted, UpdStatuses
        <3>2. QED
            BY <3>1 DEF UpdTypes
    <2>3. /\ upd' \in [status : UpdStatuses, release : Nat, prompt : BOOLEAN, manual : BOOLEAN]
          /\ upd'.status = s /\ upd'.release = 0 /\ upd'.prompt = upd'.manual
        BY <2>1, <2>2 DEF UpdTypes, UpdStatuses
    <2>4. running = 0 /\ installed = {}
        BY <1>4, <2>1 DEF BusyHasAnOwner, ReleaseIsHeld
    <2>5. UpdTypes' /\ UpdLinks'
        BY <1>1, <1>4, <2>2, <2>3 DEF UpdTypes, UpdLinks
    <2>6. ReleaseIsHeld' /\ SilentUnlessAsked'
        BY <1>1, <1>4, <2>3, <2>4 DEF ReleaseIsHeld, SilentUnlessAsked
    <2>7. BusyHasAnOwner'
        BY <1>1, <1>4, <2>2, <2>3, <2>4 DEF BusyHasAnOwner
    <2>8. QED
        BY <1>2, <2>5, <2>6, <2>7
<1>5. QED
    BY <1>3, <1>4

(* A release found is offered, or closed at once when nobody waits for it. *)
LEMMA FoundReleaseInv ==
    ASSUME UpdInv, FoundRelease, UNCHANGED <<installVars, updDisposed>>
    PROVE  UpdInv'
<1> USE DEF UpdInv, UpdatesAreSound
<1>1. /\ given' = given + 1 /\ asked # 0 /\ asked' = 0 /\ installed' = installed
      /\ running' = running /\ updDisposed' = updDisposed /\ checkPass' = checkPass /\ startup' = startup
    BY DEF FoundRelease, installVars
<1>2. CASE updDisposed
    <2>1. closed' = closed \cup {given'} /\ upd' = upd /\ updThrew' = updThrew /\ offered' = offered
        BY <1>2 DEF FoundRelease, NotWanted, LateOffer
    <2>2. UpdTypes' /\ UpdLinks'
        BY <1>1, <1>2, <2>1 DEF UpdTypes, UpdLinks
    <2>3. HandlesAreKept'
        <3>1. \A h \in 1 .. given' : h \in 1 .. given \/ h = given'
            BY <1>1 DEF UpdTypes
        <3>2. offered = 0
            BY <1>2 DEF HandlesAreKept
        <3>3. 0 \notin closed'
            BY <1>1, <2>1 DEF UpdTypes
        <3>4. QED
            BY <1>2, <1>1, <2>1, <3>1, <3>2, <3>3 DEF HandlesAreKept
    <2>4. ReleaseIsHeld' /\ BusyHasAnOwner' /\ SilentUnlessAsked'
        BY <1>1, <1>2, <2>1 DEF ReleaseIsHeld, BusyHasAnOwner, SilentUnlessAsked
    <2>5. QED
        BY <2>2, <2>3, <2>4
<1>3. CASE ~updDisposed
    <2>1. asked = checkPass /\ upd.status = "checking" /\ offered = 0
        BY <1>1, <1>3 DEF UpdLinks, BusyHasAnOwner
    <2>2. /\ upd' = [upd EXCEPT !.release = given', !.prompt = TRUE, !.status = "available"]
          /\ updThrew' = updThrew /\ offered' = given' /\ closed' = closed
        <3>1. /\ upd' = [[upd EXCEPT !.release = given', !.prompt = TRUE] EXCEPT !.status = "available"]
              /\ updThrew' = updThrew /\ offered' = given' /\ closed' = closed
            BY <1>3, <2>1, OneMove, UpdTable DEF FoundRelease, NotWanted, UpdStatuses
        <3>2. QED
            BY <3>1 DEF UpdTypes
    <2>3. /\ upd' \in [status : UpdStatuses, release : Nat, prompt : BOOLEAN, manual : BOOLEAN]
          /\ upd'.status = "available" /\ upd'.release = given'
        <3>1. given' \in Nat /\ "available" \in UpdStatuses
            BY <1>1 DEF UpdTypes, UpdStatuses
        <3>2. QED
            BY <2>2, <3>1 DEF UpdTypes
    <2>4. running = 0 /\ installed = {}
        BY <1>3, <2>1 DEF BusyHasAnOwner, ReleaseIsHeld
    <2>5. UpdTypes' /\ UpdLinks'
        BY <1>1, <1>3, <2>2, <2>3 DEF UpdTypes, UpdLinks
    <2>6. HandlesAreKept'
        BY <1>1, <1>3, <2>1, <2>2, <2>4 DEF HandlesAreKept, UpdTypes
    <2>7. ReleaseIsHeld' /\ SilentUnlessAsked'
        BY <1>1, <1>3, <2>2, <2>3, <2>4 DEF ReleaseIsHeld, SilentUnlessAsked
    <2>8. BusyHasAnOwner'
        BY <1>1, <1>3, <2>2, <2>3, <2>4 DEF BusyHasAnOwner
    <2>9. QED
        BY <2>5, <2>6, <2>7, <2>8
<1>4. QED
    BY <1>2, <1>3

(* Only what is shown moves, and the offer's status with it.               *)
LEMMA ShownMovesInv ==
    ASSUME UpdInv, ~updDisposed, updThrew' = updThrew,
           UNCHANGED <<handleVars, checkVars, updDisposed>>,
           NEW s \in UpdStatuses, NEW prompt \in BOOLEAN,
           upd' = [upd EXCEPT !.status = s, !.prompt = prompt],
           upd.status # "checking", s # "checking", upd.status = "ready" <=> s = "ready",
           s \in {"downloading", "installing"} => s = upd.status \/ upd.release # 0,
           upd.release = 0 => ~prompt \/ s = "ready" \/ (s = upd.status /\ upd.prompt),
           running' \in {0, offered},
           s \in {"downloading", "installing"} <=> running' # 0
    PROVE  UpdInv'
<1> USE DEF UpdInv, UpdatesAreSound
<1>1. /\ offered' = offered /\ given' = given /\ closed' = closed /\ installed' = installed
      /\ updDisposed' = updDisposed /\ checkPass' = checkPass /\ asked' = asked /\ startup' = startup
    BY DEF handleVars, checkVars
<1>2. /\ upd' \in [status : UpdStatuses, release : Nat, prompt : BOOLEAN, manual : BOOLEAN]
      /\ upd'.status = s /\ upd'.release = upd.release /\ upd'.prompt = prompt /\ upd'.manual = upd.manual
    BY DEF UpdTypes
<1>3. running' \in 0 .. given
    BY DEF UpdTypes
<1>4. UpdTypes'
    BY <1>1, <1>2, <1>3 DEF UpdTypes
<1>5. asked = 0
    BY DEF BusyHasAnOwner
<1>6. upd.status \in {"downloading", "installing"} => upd.release # 0
    BY DEF UpdLinks
<1>7. s \in {"downloading", "installing"} => upd.release # 0
    BY <1>6
<1>8. UpdLinks'
    BY <1>1, <1>2, <1>5, <1>7 DEF UpdLinks
<1>9. HandlesAreKept'
    BY <1>1 DEF HandlesAreKept
<1>10. ReleaseIsHeld'
    BY <1>1, <1>2 DEF ReleaseIsHeld
<1>11. BusyHasAnOwner'
    BY <1>1, <1>2, <1>5 DEF BusyHasAnOwner
<1>12. SilentUnlessAsked'
    BY <1>2 DEF SilentUnlessAsked
<1>13. QED
    BY <1>4, <1>8, <1>9, <1>10, <1>11, <1>12

(* Nothing of the updater moves but what nobody is told.                   *)
LEMMA NothingShownInv ==
    ASSUME UpdInv, upd' = upd, updThrew' = updThrew, running' = running, updDisposed' = updDisposed,
           UNCHANGED <<handleVars, checkPass, asked>>, updDisposed => startup' = startup
    PROVE  UpdInv'
<1> USE DEF UpdInv, UpdatesAreSound, handleVars
<1>1. UpdTypes' /\ UpdLinks'
    BY DEF UpdTypes, UpdLinks
<1>2. HandlesAreKept' /\ ReleaseIsHeld'
    BY DEF HandlesAreKept, ReleaseIsHeld
<1>3. BusyHasAnOwner' /\ SilentUnlessAsked'
    BY DEF BusyHasAnOwner, SilentUnlessAsked
<1>4. QED
    BY <1>1, <1>2, <1>3

(* The release that is shown can be installed, and the table has the way.  *)
LEMMA InstallInv ==
    ASSUME UpdInv, Install, UNCHANGED <<checkVars, updDisposed>>
    PROVE  UpdInv'
<1>1. /\ ~updDisposed /\ upd.prompt /\ upd.status \in {"available", "error"} /\ upd.release # 0
      /\ UNCHANGED handleVars
    BY DEF Install
<1>2. offered = upd.release /\ offered # 0
    BY <1>1 DEF UpdInv, UpdatesAreSound, ReleaseIsHeld
<1>3. running' = offered
    BY <1>2 DEF Install
<1>4. upd' = [upd EXCEPT !.status = "downloading", !.prompt = TRUE] /\ updThrew' = updThrew
    <2>1. CASE upd.status = "error"
        <3>1. MoveTo(<<"available">> \o <<"downloading">>, [upd EXCEPT !.prompt = TRUE])
            BY <1>1, <1>2, <2>1 DEF Install, Retries
        <3>2. <<"available">> \o <<"downloading">> = <<"available", "downloading">>
            BY TwoStepPath DEF UpdStatuses
        <3>3. MoveTo(<<"available", "downloading">>, [upd EXCEPT !.prompt = TRUE])
            BY <3>1, <3>2
        <3>4. upd' = [[upd EXCEPT !.prompt = TRUE] EXCEPT !.status = "downloading"] /\ updThrew' = updThrew
            BY <2>1, <3>3, TwoMoves, UpdTable DEF UpdInv, UpdStatuses
        <3>5. QED
            BY <3>4 DEF UpdInv, UpdTypes
    <2>2. CASE upd.status = "available"
        <3>1. MoveTo(<<>> \o <<"downloading">>, [upd EXCEPT !.prompt = TRUE])
            BY <1>1, <1>2, <2>2 DEF Install, Retries
        <3>2. <<>> \o <<"downloading">> = <<"downloading">>
            BY EmptyPath
        <3>3. MoveTo(<<"downloading">>, [upd EXCEPT !.prompt = TRUE])
            BY <3>1, <3>2
        <3>4. upd' = [[upd EXCEPT !.prompt = TRUE] EXCEPT !.status = "downloading"] /\ updThrew' = updThrew
            BY <2>2, <3>3, OneMove, UpdTable DEF UpdInv, UpdStatuses
        <3>5. QED
            BY <3>4 DEF UpdInv, UpdTypes
    <2>3. QED
        BY <1>1, <2>1, <2>2
<1>5. QED
    BY <1>1, <1>2, <1>3, <1>4, ShownMovesInv DEF UpdStatuses

LEMMA ReportArrivesInv ==
    ASSUME UpdInv, NEW n \in reports, ReportArrives(n), UNCHANGED <<checkVars, updDisposed>>
    PROVE  UpdInv'
<1>1. UNCHANGED handleVars /\ running' = running
    BY DEF ReportArrives
<1>2. CASE ~updDisposed /\ upd.status = "downloading"
    <2>1. MoveTo(<<"installing">>, upd)
        BY <1>2 DEF ReportArrives
    <2>2. upd' = [upd EXCEPT !.status = "installing"] /\ updThrew' = updThrew
        BY <1>2, <2>1, OneMove, UpdTable DEF UpdInv, UpdStatuses
    <2>3. upd' = [upd EXCEPT !.status = "installing", !.prompt = upd.prompt] /\ upd.prompt \in BOOLEAN
        BY <2>2 DEF UpdInv, UpdTypes
    <2>4. running # 0 /\ running = offered /\ upd.release # 0
        BY <1>2 DEF UpdInv, UpdatesAreSound, BusyHasAnOwner, HandlesAreKept, UpdLinks
    <2>5. QED
        BY <1>1, <1>2, <2>2, <2>3, <2>4, ShownMovesInv DEF UpdStatuses
<1>3. CASE ~(~updDisposed /\ upd.status = "downloading")
    <2>1. upd' = upd /\ updThrew' = updThrew
        BY <1>3 DEF ReportArrives
    <2>2. QED
        BY <1>1, <2>1, NothingShownInv DEF checkVars
<1>4. QED
    BY <1>2, <1>3

LEMMA InstallFailsInv ==
    ASSUME UpdInv, InstallFails, UNCHANGED <<checkVars, updDisposed>>
    PROVE  UpdInv'
<1>1. UNCHANGED handleVars /\ running # 0 /\ running' = 0
    BY DEF InstallFails
<1>2. CASE ~updDisposed
    <2>1. upd.status \in {"downloading", "installing"} /\ upd.release # 0
        BY <1>1, <1>2 DEF UpdInv, UpdatesAreSound, BusyHasAnOwner, UpdLinks
    <2>2. upd' = [[upd EXCEPT !.prompt = TRUE] EXCEPT !.status = "error"] /\ updThrew' = updThrew
        BY <1>2, <2>1, OneMove, UpdTable DEF InstallFails, UpdInv, UpdStatuses
    <2>3. upd' = [upd EXCEPT !.status = "error", !.prompt = TRUE]
        BY <2>2 DEF UpdInv, UpdTypes
    <2>4. QED
        BY <1>1, <1>2, <2>1, <2>2, <2>3, ShownMovesInv DEF UpdStatuses
<1>3. CASE updDisposed
    <2>1. upd' = upd /\ updThrew' = updThrew
        BY <1>3 DEF InstallFails
    <2>2. UpdTypes' /\ UpdLinks'
        BY <1>1, <1>3, <2>1 DEF UpdInv, UpdTypes, UpdLinks, handleVars, checkVars
    <2>3. UpdatesAreSound'
        BY <1>1, <1>3, <2>1 DEF UpdInv, UpdatesAreSound, HandlesAreKept, ReleaseIsHeld, BusyHasAnOwner,
            SilentUnlessAsked, handleVars, checkVars
    <2>4. QED
        BY <2>2, <2>3 DEF UpdInv
<1>4. QED
    BY <1>2, <1>3

(* The answer may come before the report: then two moves lead to ready.    *)
LEMMA InstallSucceedsInv ==
    ASSUME UpdInv, InstallSucceeds, UNCHANGED <<checkVars, updDisposed>>
    PROVE  UpdInv'
<1> USE DEF UpdInv, UpdatesAreSound
<1>1. /\ running # 0 /\ running' = 0 /\ installed' = installed \cup {running}
      /\ given' = given /\ closed' = closed
      /\ asked' = asked /\ checkPass' = checkPass /\ startup' = startup /\ updDisposed' = updDisposed
    BY DEF InstallSucceeds, checkVars
<1>2. CASE updDisposed
    <2>1. upd' = upd /\ updThrew' = updThrew /\ offered' = offered
        BY <1>2 DEF InstallSucceeds
    <2>2. UpdTypes'
        BY <1>1, <2>1 DEF UpdTypes
    <2>3. UpdLinks' /\ HandlesAreKept'
        BY <1>1, <1>2, <2>1 DEF UpdLinks, HandlesAreKept
    <2>4. ReleaseIsHeld' /\ BusyHasAnOwner' /\ SilentUnlessAsked'
        BY <1>1, <1>2, <2>1 DEF ReleaseIsHeld, BusyHasAnOwner, SilentUnlessAsked
    <2>5. QED
        BY <2>2, <2>3, <2>4
<1>3. CASE ~updDisposed
    <2>1. /\ upd.status \in {"downloading", "installing"} /\ upd.release = running /\ offered = running
          /\ asked = 0
        BY <1>1, <1>3 DEF UpdLinks, ReleaseIsHeld, BusyHasAnOwner, HandlesAreKept
    <2>2. upd' = [[upd EXCEPT !.prompt = TRUE] EXCEPT !.status = "ready"] /\ updThrew' = updThrew
        <3>1. CASE upd.status = "downloading"
            <4>1. MoveTo(<<"installing">> \o <<"ready">>, [upd EXCEPT !.prompt = TRUE])
                BY <1>3, <3>1 DEF InstallSucceeds
            <4>2. <<"installing">> \o <<"ready">> = <<"installing", "ready">>
                BY TwoStepPath DEF UpdStatuses
            <4>3. MoveTo(<<"installing", "ready">>, [upd EXCEPT !.prompt = TRUE])
                BY <4>1, <4>2
            <4>4. QED
                BY <3>1, <4>3, TwoMoves, UpdTable DEF UpdStatuses
        <3>2. CASE upd.status = "installing"
            <4>1. MoveTo(<<>> \o <<"ready">>, [upd EXCEPT !.prompt = TRUE])
                BY <1>3, <3>2 DEF InstallSucceeds
            <4>2. <<>> \o <<"ready">> = <<"ready">>
                BY EmptyPath
            <4>3. MoveTo(<<"ready">>, [upd EXCEPT !.prompt = TRUE])
                BY <4>1, <4>2
            <4>4. QED
                BY <3>2, <4>3, OneMove, UpdTable DEF UpdStatuses
        <3>3. QED
            BY <2>1, <3>1, <3>2
    <2>3. /\ upd' \in [status : UpdStatuses, release : Nat, prompt : BOOLEAN, manual : BOOLEAN]
          /\ upd'.status = "ready" /\ upd'.release = running
        BY <2>1, <2>2 DEF UpdTypes, UpdStatuses
    <2>4. offered' = 0
        BY <1>3 DEF InstallSucceeds
    <2>5. UpdTypes' /\ UpdLinks'
        BY <1>1, <1>3, <2>1, <2>2, <2>3, <2>4 DEF UpdTypes, UpdLinks
    <2>6. HandlesAreKept'
        BY <1>1, <1>3, <2>1, <2>4 DEF HandlesAreKept, UpdTypes
    <2>7. ReleaseIsHeld' /\ SilentUnlessAsked'
        BY <1>1, <1>3, <2>3 DEF ReleaseIsHeld, SilentUnlessAsked
    <2>8. BusyHasAnOwner'
        BY <1>1, <1>3, <2>1, <2>2, <2>3 DEF BusyHasAnOwner
    <2>9. QED
        BY <2>5, <2>6, <2>7, <2>8
<1>4. QED
    BY <1>2, <1>3

(* The prompt opens on a release or an installed update, or closes.        *)
LEMMA PromptMovesInv ==
    ASSUME UpdInv, NEW prompt \in BOOLEAN, upd' = [upd EXCEPT !.prompt = prompt],
           prompt => upd.release # 0 \/ upd.status = "ready", updThrew' = updThrew,
           UNCHANGED <<handleVars, checkVars, installVars, updDisposed>>
    PROVE  UpdInv'
<1> USE DEF UpdInv, UpdatesAreSound, handleVars, checkVars, installVars
<1>1. /\ upd' \in [status : UpdStatuses, release : Nat, prompt : BOOLEAN, manual : BOOLEAN]
      /\ upd'.status = upd.status /\ upd'.release = upd.release /\ upd'.prompt = prompt
    BY DEF UpdTypes
<1>2. UpdTypes' /\ UpdLinks'
    BY <1>1 DEF UpdTypes, UpdLinks
<1>3. HandlesAreKept' /\ ReleaseIsHeld'
    BY <1>1 DEF HandlesAreKept, ReleaseIsHeld
<1>4. BusyHasAnOwner' /\ SilentUnlessAsked'
    BY <1>1 DEF BusyHasAnOwner, SilentUnlessAsked
<1>5. QED
    BY <1>2, <1>3, <1>4

LEMMA DismissInv ==
    ASSUME UpdInv, Dismiss, PromptAsked
    PROVE  UpdInv'
<1>1. /\ ~updDisposed /\ UNCHANGED <<handleVars, checkVars, installVars, updDisposed>>
    BY DEF Dismiss, PromptAsked
<1>2. CASE upd.status = "available"
    <2>1. upd' = [[upd EXCEPT !.prompt = FALSE] EXCEPT !.status = "idle"] /\ updThrew' = updThrew
        BY <1>2, OneMove, UpdTable DEF Dismiss, UpdInv, UpdStatuses
    <2>2. upd' = [upd EXCEPT !.status = "idle", !.prompt = FALSE]
        BY <2>1 DEF UpdInv, UpdTypes
    <2>3. running = 0 /\ running' = 0
        BY <1>1, <1>2 DEF UpdInv, UpdatesAreSound, BusyHasAnOwner, installVars
    <2>4. QED
        BY <1>1, <1>2, <2>1, <2>2, <2>3, ShownMovesInv DEF UpdStatuses
<1>3. CASE upd.status # "available"
    <2>1. upd' = [upd EXCEPT !.prompt = FALSE] /\ updThrew' = updThrew
        BY <1>3 DEF Dismiss
    <2>2. QED
        BY <1>1, <2>1, PromptMovesInv
<1>4. QED
    BY <1>2, <1>3

LEMMA OpenPromptInv ==
    ASSUME UpdInv, OpenPrompt, PromptAsked
    PROVE  UpdInv'
    BY PromptMovesInv DEF OpenPrompt, PromptAsked

(* Nothing that was asked for is still wanted, and what is held is closed. *)
LEMMA DisposeUpdatesInv ==
    ASSUME UpdInv, DisposeUpdates
    PROVE  UpdInv'
<1> USE DEF UpdInv, UpdatesAreSound
<1>1. /\ updDisposed' = TRUE /\ checkPass' = checkPass + 1 /\ startup' = "done"
      /\ closed' = closed \cup ({offered} \ {0}) /\ offered' = 0
      /\ upd' = upd /\ updThrew' = updThrew /\ asked' = asked /\ given' = given /\ installed' = installed
      /\ running' = running
    BY DEF DisposeUpdates, ReleaseOffer, installVars
<1>2. UpdTypes'
    BY <1>1 DEF UpdTypes
<1>3. UpdLinks'
    BY <1>1 DEF UpdLinks
<1>4. HandlesAreKept'
    BY <1>1 DEF HandlesAreKept, UpdTypes
<1>5. ReleaseIsHeld' /\ BusyHasAnOwner' /\ SilentUnlessAsked'
    BY <1>1 DEF ReleaseIsHeld, BusyHasAnOwner, SilentUnlessAsked
<1>6. QED
    BY <1>2, <1>3, <1>4, <1>5

(* What comes by itself.                                                   *)
LEMMA CheckStepsInv ==
    ASSUME UpdInv, UpdCheckSteps, UpdatesAsked
    PROVE  UpdInv'
<1>1. CASE StartUpdates
    <2>1. /\ ~updDisposed /\ UNCHANGED <<upd, updThrew, handleVars, checkPass, asked>>
          /\ updDisposed' = updDisposed /\ running' = running
        BY <1>1 DEF StartUpdates, UpdatesAsked, installVars
    <2>2. QED
        BY <2>1, NothingShownInv
<1>2. CASE StartupFires
    <2>1. ~updDisposed /\ UNCHANGED <<installVars, updDisposed>>
        BY <1>2 DEF StartupFires, UpdatesAsked, UpdInv, UpdLinks
    <2>2. CASE upd.status \in Checkable
        <3>1. Check(FALSE)
            BY <1>2, <2>2 DEF StartupFires
        <3>2. QED
            BY <2>1, <2>2, <3>1, CheckInv
    <2>3. CASE upd.status \notin Checkable
        BY <1>2, <2>1, <2>3, NothingShownInv DEF StartupFires, installVars
    <2>4. QED
        BY <2>2, <2>3
<1>3. CASE UpToDate
    BY <1>3, CheckAnsweredInv DEF UpToDate, UpdatesAsked
<1>4. CASE CheckFails
    BY <1>4, CheckAnsweredInv DEF CheckFails, UpdatesAsked
<1>5. CASE FoundRelease
    BY <1>5, FoundReleaseInv DEF UpdatesAsked
<1>6. QED
    BY <1>1, <1>2, <1>3, <1>4, <1>5 DEF UpdCheckSteps

LEMMA InstallStepsInv ==
    ASSUME UpdInv, UpdInstallSteps, UNCHANGED <<checkVars, updDisposed>>
    PROVE  UpdInv'
<1>1. CASE DownloadFinishes
    BY <1>1, NothingShownInv DEF DownloadFinishes, checkVars
<1>2. CASE InstallSucceeds
    BY <1>2, InstallSucceedsInv
<1>3. CASE InstallFails
    BY <1>3, InstallFailsInv
<1>4. CASE \E n \in reports : ReportArrives(n)
    BY <1>4, ReportArrivesInv
<1>5. QED
    BY <1>1, <1>2, <1>3, <1>4 DEF UpdInstallSteps

LEMMA CheckNowInv ==
    ASSUME UpdInv, CheckNow, UpdatesAsked
    PROVE  UpdInv'
    BY CheckInv DEF CheckNow, UpdatesAsked

LEMMA UnmovedInv ==
    ASSUME UpdInv, Unmoved
    PROVE  UpdInv'
    BY NothingShownInv DEF Unmoved, updVars, handleVars, checkVars, installVars

-----------------------------------------------------------------------------
(* The keys of the palette, in any list of commands.                       *)

Able(list) == {i \in 0 .. Len(list) - 1 : Enabled(list[i + 1])}

(* The place that many steps ahead of another, and behind it, round n.     *)
Ahead(n, i, steps) == IF i + steps < n THEN i + steps ELSE i + steps - n
Behind(n, i, steps) == IF i >= steps THEN i - steps ELSE i - steps + n

LEMMA LeastOne ==
    ASSUME NEW T, T \subseteq Nat, T # {}
    PROVE  \E least \in T : \A other \in T : least <= other
<1>1. PICK r : r = OpToRel(<, Nat)
    OBVIOUS
<1>2. IsWellFoundedOn(r, Nat)
    BY <1>1, NatLessThanWellFounded
<1>3. PICK x \in T : \A y \in T : ~(<<y, x>> \in r)
    BY <1>2, WFMin
<1>4. \A y \in T : ~(y < x)
    BY <1>1, <1>3 DEF OpToRel
<1>5. QED
    BY <1>3, <1>4

(* Full turns round the list lead nowhere.                                 *)
LEMMA FullTurns ==
    ASSUME NEW n \in Nat \ {0}, NEW turns \in Nat, NEW i \in 0 .. n - 1
    PROVE  (i + n * turns) % n = i
    BY Z3

LEMMA StepsAhead ==
    ASSUME NEW n \in Nat \ {0}, NEW i \in 0 .. n - 1, NEW s \in 1 .. n
    PROVE  (i + 1 * s + n * s) % n = Ahead(n, i, s) /\ Ahead(n, i, s) \in 0 .. n - 1
<1>1. CASE i + s < n
    BY <1>1, FullTurns DEF Ahead
<1>2. CASE i + s >= n
    <2>1. PICK j \in 0 .. n - 1 : j = i + s - n
        BY <1>2
    <2>2. PICK turns \in Nat : turns = s + 1
        OBVIOUS
    <2>3. (j + n * turns) % n = j
        BY FullTurns
    <2>4. i + 1 * s + n * s = j + n * turns
        BY <2>1, <2>2
    <2>5. Ahead(n, i, s) = j
        BY <1>2, <2>1 DEF Ahead
    <2>6. QED
        BY <2>3, <2>4, <2>5
<1>3. QED
    BY <1>1, <1>2

LEMMA StepsBehind ==
    ASSUME NEW n \in Nat \ {0}, NEW i \in 0 .. n - 1, NEW s \in 1 .. n
    PROVE  (i + (-1) * s + n * s) % n = Behind(n, i, s) /\ Behind(n, i, s) \in 0 .. n - 1
<1>1. CASE i >= s
    BY <1>1, FullTurns DEF Behind
<1>2. CASE i < s
    <2>1. PICK j \in 0 .. n - 1 : j = i - s + n
        BY <1>2
    <2>2. PICK turns \in Nat : turns = s - 1
        OBVIOUS
    <2>3. (j + n * turns) % n = j
        BY FullTurns
    <2>4. i + (-1) * s + n * s = j + n * turns
        BY <2>1, <2>2
    <2>5. Behind(n, i, s) = j
        BY <1>2, <2>1 DEF Behind
    <2>6. QED
        BY <2>3, <2>4, <2>5
<1>3. QED
    BY <1>1, <1>2

LEMMA StepsFromNowhere ==
    ASSUME NEW n \in Nat \ {0}, NEW s \in 1 .. n
    PROVE  (-1 + 1 * s + n * s) % n = s - 1 /\ s - 1 \in 0 .. n - 1
    BY FullTurns

(* Where a search begins; at(step) is where its steps lead.                *)
SearchStart(n, current, delta) ==
    IF current \in 0 .. n - 1 THEN current ELSE IF delta > 0 THEN -1 ELSE 0
SearchPlace(n, current, delta, s) == (SearchStart(n, current, delta) + delta * s + n * s) % n

(* The search ends at the first command that can run, wherever its steps   *)
(* lead it.                                                                *)
LEMMA SearchEnds ==
    ASSUME NEW list, Len(list) \in Nat, NEW current, NEW delta,
           NEW place, \A s \in 1 .. Len(list) : SearchPlace(Len(list), current, delta, s) = place[s],
           NEW found, found = {s \in 1 .. Len(list) : Enabled(list[place[s] + 1])}
    PROVE  /\ found = {} => NextCommandIndex(list, current, delta) = -1
           /\ found # {} => \E s \in found : /\ \A other \in found : s <= other
                                             /\ NextCommandIndex(list, current, delta) = place[s]
<1> DEFINE at(step) == SearchPlace(Len(list), current, delta, step)
           reached == {step \in 1 .. Len(list) : Enabled(list[at(step) + 1])}
           first(T) == CHOOSE step \in T : \A other \in T : step <= other
<1>1. NextCommandIndex(list, current, delta) = IF reached = {} THEN -1 ELSE at(first(reached))
    BY DEF NextCommandIndex, SearchPlace, SearchStart
<1>. HIDE DEF at
<1>2. reached = found
    BY DEF at
<1>. HIDE DEF reached, first
<1>3. ASSUME found # {}
      PROVE  \E s \in found : /\ \A other \in found : s <= other
                              /\ NextCommandIndex(list, current, delta) = place[s]
    <2>1. found \subseteq Nat
        OBVIOUS
    <2>2. \E s \in found : \A other \in found : s <= other
        BY <1>3, <2>1, LeastOne
    <2>3. first(found) \in found /\ \A other \in found : first(found) <= other
        BY <2>2 DEF first
    <2>4. NextCommandIndex(list, current, delta) = at(first(found))
        BY <1>1, <1>2, <1>3
    <2>5. at(first(found)) = place[first(found)]
        BY <2>3 DEF at
    <2>6. QED
        BY <2>3, <2>4, <2>5
<1>4. QED
    BY <1>1, <1>2, <1>3

(* Down goes to the nearest command ahead that can run, and up to the      *)
(* nearest behind; with none other, both come back.                        *)
LEMMA DownGoesAhead ==
    ASSUME NEW list, NEW n \in Nat, n = Len(list), NEW i \in Able(list)
    PROVE  \E s \in 1 .. n : /\ NextCommandIndex(list, i, 1) = Ahead(n, i, s)
                             /\ Enabled(list[Ahead(n, i, s) + 1])
                             /\ \A t \in 1 .. s - 1 : ~Enabled(list[Ahead(n, i, t) + 1])
<1>1. i \in 0 .. n - 1 /\ n \in Nat \ {0} /\ Enabled(list[i + 1])
    BY DEF Able
<1>2. PICK place : place = [s \in 1 .. n |-> Ahead(n, i, s)]
    OBVIOUS
<1>3. \A s \in 1 .. n : place[s] = Ahead(n, i, s) /\ SearchPlace(n, i, 1, s) = place[s]
    <2>1. \A s \in 1 .. n : place[s] = Ahead(n, i, s)
        BY <1>2
    <2>2. ASSUME NEW s \in 1 .. n PROVE SearchPlace(n, i, 1, s) = Ahead(n, i, s)
        <3>1. SearchStart(n, i, 1) = i
            BY <1>1 DEF SearchStart
        <3>2. SearchPlace(n, i, 1, s) = (i + 1 * s + n * s) % n
            BY <3>1 DEF SearchPlace
        <3>3. QED
            BY <1>1, <3>2, StepsAhead
    <2>3. QED
        BY <2>1, <2>2
<1>4. PICK found : found = {s \in 1 .. n : Enabled(list[place[s] + 1])}
    OBVIOUS
<1>5. n \in found
    <2>1. Ahead(n, i, n) = i
        BY <1>1 DEF Ahead
    <2>2. QED
        BY <1>1, <1>3, <1>4, <2>1
<1>6. PICK s \in found : /\ \A other \in found : s <= other
                         /\ NextCommandIndex(list, i, 1) = place[s]
    BY <1>3, <1>4, <1>5, SearchEnds
<1>7. s \in 1 .. n /\ Enabled(list[place[s] + 1]) /\ \A t \in 1 .. s - 1 : t \in 1 .. n /\ t \notin found
    BY <1>4, <1>6
<1>8. \A t \in 1 .. s - 1 : ~Enabled(list[place[t] + 1])
    BY <1>4, <1>7
<1>9. QED
    BY <1>3, <1>6, <1>7, <1>8

LEMMA UpGoesBehind ==
    ASSUME NEW list, NEW n \in Nat, n = Len(list), NEW i \in Able(list)
    PROVE  \E s \in 1 .. n : /\ NextCommandIndex(list, i, -1) = Behind(n, i, s)
                             /\ Enabled(list[Behind(n, i, s) + 1])
                             /\ \A t \in 1 .. s - 1 : ~Enabled(list[Behind(n, i, t) + 1])
<1>1. i \in 0 .. n - 1 /\ n \in Nat \ {0} /\ Enabled(list[i + 1])
    BY DEF Able
<1>2. PICK place : place = [s \in 1 .. n |-> Behind(n, i, s)]
    OBVIOUS
<1>3. \A s \in 1 .. n : place[s] = Behind(n, i, s) /\ SearchPlace(n, i, -1, s) = place[s]
    <2>1. \A s \in 1 .. n : place[s] = Behind(n, i, s)
        BY <1>2
    <2>2. ASSUME NEW s \in 1 .. n PROVE SearchPlace(n, i, -1, s) = Behind(n, i, s)
        <3>1. SearchStart(n, i, -1) = i
            BY <1>1 DEF SearchStart
        <3>2. SearchPlace(n, i, -1, s) = (i + (-1) * s + n * s) % n
            BY <3>1 DEF SearchPlace
        <3>3. QED
            BY <1>1, <3>2, StepsBehind
    <2>3. QED
        BY <2>1, <2>2
<1>4. PICK found : found = {s \in 1 .. n : Enabled(list[place[s] + 1])}
    OBVIOUS
<1>5. n \in found
    <2>1. Behind(n, i, n) = i
        BY <1>1 DEF Behind
    <2>2. QED
        BY <1>1, <1>3, <1>4, <2>1
<1>6. PICK s \in found : /\ \A other \in found : s <= other
                         /\ NextCommandIndex(list, i, -1) = place[s]
    <2>1. PICK delta : delta = -1
        OBVIOUS
    <2>2. \A s \in 1 .. Len(list) : SearchPlace(Len(list), i, delta, s) = place[s]
        BY <1>3, <2>1
    <2>3. \E s \in found : /\ \A other \in found : s <= other
                           /\ NextCommandIndex(list, i, delta) = place[s]
        BY <1>4, <1>5, <2>2, SearchEnds
    <2>4. QED
        BY <2>1, <2>3
<1>7. s \in 1 .. n /\ Enabled(list[place[s] + 1]) /\ \A t \in 1 .. s - 1 : t \in 1 .. n /\ t \notin found
    BY <1>4, <1>6
<1>8. \A t \in 1 .. s - 1 : ~Enabled(list[place[t] + 1])
    BY <1>4, <1>7
<1>9. QED
    BY <1>3, <1>6, <1>7, <1>8

(* A key leads nowhere only when nothing can run, whatever was highlighted.*)
LEMMA FirstIsAble ==
    ASSUME NEW list, NEW n \in Nat, n = Len(list)
    PROVE  IF Able(list) = {} THEN NextCommandIndex(list, -1, 1) = -1
                              ELSE NextCommandIndex(list, -1, 1) \in Able(list)
<1>1. PICK place : place = [s \in 1 .. n |-> s - 1]
    OBVIOUS
<1>2. \A s \in 1 .. n : place[s] = s - 1 /\ SearchPlace(n, -1, 1, s) = place[s]
    <2>1. \A s \in 1 .. n : place[s] = s - 1
        BY <1>1
    <2>2. ASSUME NEW s \in 1 .. n PROVE SearchPlace(n, -1, 1, s) = s - 1
        <3>1. SearchStart(n, -1, 1) = -1 /\ n \in Nat \ {0}
            BY DEF SearchStart
        <3>2. SearchPlace(n, -1, 1, s) = (-1 + 1 * s + n * s) % n
            BY <3>1 DEF SearchPlace
        <3>3. QED
            BY <3>1, <3>2, StepsFromNowhere
    <2>3. QED
        BY <2>1, <2>2
<1>3. PICK found : found = {s \in 1 .. n : Enabled(list[place[s] + 1])}
    OBVIOUS
<1>4. /\ found = {} => NextCommandIndex(list, -1, 1) = -1
      /\ found # {} => \E s \in found : NextCommandIndex(list, -1, 1) = place[s]
    BY <1>2, <1>3, SearchEnds
<1>5. \A s \in found : place[s] \in Able(list)
    <2>1. TAKE s \in found
    <2>2. s \in 1 .. n /\ place[s] = s - 1 /\ Enabled(list[place[s] + 1])
        BY <1>2, <1>3
    <2>3. QED
        BY <2>2 DEF Able
<1>6. \A i \in Able(list) : i + 1 \in found
    <2>1. TAKE i \in Able(list)
    <2>2. i \in 0 .. n - 1 /\ Enabled(list[i + 1]) /\ i + 1 \in 1 .. n
        BY DEF Able
    <2>3. place[i + 1] = i
        BY <1>2, <2>2
    <2>4. QED
        BY <1>3, <2>2, <2>3
<1>7. QED
    BY <1>4, <1>5, <1>6

(* Up takes back what Down did, and Down what Up did.                      *)
LEMMA UpTakesBackDown ==
    ASSUME NEW list, NEW n \in Nat, n = Len(list), NEW i \in Able(list)
    PROVE  LET j == NextCommandIndex(list, i, 1)
           IN  j \in Able(list) /\ NextCommandIndex(list, j, -1) = i
<1>1. i \in 0 .. n - 1 /\ n \in Nat \ {0} /\ Enabled(list[i + 1])
    BY DEF Able
<1>2. PICK s \in 1 .. n : /\ NextCommandIndex(list, i, 1) = Ahead(n, i, s)
                          /\ Enabled(list[Ahead(n, i, s) + 1])
                          /\ \A t \in 1 .. s - 1 : ~Enabled(list[Ahead(n, i, t) + 1])
    BY DownGoesAhead
<1>3. PICK j : j = Ahead(n, i, s)
    OBVIOUS
<1>4. j \in 0 .. n - 1 /\ j \in Able(list)
    BY <1>1, <1>2, <1>3 DEF Able, Ahead
<1>5. PICK r \in 1 .. n : /\ NextCommandIndex(list, j, -1) = Behind(n, j, r)
                          /\ Enabled(list[Behind(n, j, r) + 1])
                          /\ \A t \in 1 .. r - 1 : ~Enabled(list[Behind(n, j, t) + 1])
    BY <1>4, UpGoesBehind
<1>6. Behind(n, j, s) = i
    BY <1>1, <1>3 DEF Ahead, Behind
<1>7. ~(s < r)
    <2>1. SUFFICES ASSUME s < r PROVE FALSE
        OBVIOUS
    <2>2. s \in 1 .. r - 1
        BY <2>1
    <2>3. QED
        BY <1>1, <1>5, <1>6, <2>2
<1>8. ~(r < s)
    <2>1. SUFFICES ASSUME r < s PROVE FALSE
        OBVIOUS
    <2>2. s - r \in 1 .. s - 1
        BY <2>1
    <2>3. Behind(n, j, r) = Ahead(n, i, s - r)
        BY <1>1, <1>3, <2>1 DEF Ahead, Behind
    <2>4. QED
        BY <1>2, <1>5, <2>2, <2>3
<1>9. r = s
    BY <1>7, <1>8
<1>10. QED
    BY <1>2, <1>3, <1>4, <1>5, <1>6, <1>9

LEMMA DownTakesBackUp ==
    ASSUME NEW list, NEW n \in Nat, n = Len(list), NEW i \in Able(list)
    PROVE  LET j == NextCommandIndex(list, i, -1)
           IN  j \in Able(list) /\ NextCommandIndex(list, j, 1) = i
<1>1. i \in 0 .. n - 1 /\ n \in Nat \ {0} /\ Enabled(list[i + 1])
    BY DEF Able
<1>2. PICK s \in 1 .. n : /\ NextCommandIndex(list, i, -1) = Behind(n, i, s)
                          /\ Enabled(list[Behind(n, i, s) + 1])
                          /\ \A t \in 1 .. s - 1 : ~Enabled(list[Behind(n, i, t) + 1])
    BY UpGoesBehind
<1>3. PICK j : j = Behind(n, i, s)
    OBVIOUS
<1>4. j \in 0 .. n - 1 /\ j \in Able(list)
    BY <1>1, <1>2, <1>3 DEF Able, Behind
<1>5. PICK r \in 1 .. n : /\ NextCommandIndex(list, j, 1) = Ahead(n, j, r)
                          /\ Enabled(list[Ahead(n, j, r) + 1])
                          /\ \A t \in 1 .. r - 1 : ~Enabled(list[Ahead(n, j, t) + 1])
    BY <1>4, DownGoesAhead
<1>6. Ahead(n, j, s) = i
    BY <1>1, <1>3 DEF Ahead, Behind
<1>7. ~(s < r)
    <2>1. SUFFICES ASSUME s < r PROVE FALSE
        OBVIOUS
    <2>2. s \in 1 .. r - 1
        BY <2>1
    <2>3. QED
        BY <1>1, <1>5, <1>6, <2>2
<1>8. ~(r < s)
    <2>1. SUFFICES ASSUME r < s PROVE FALSE
        OBVIOUS
    <2>2. s - r \in 1 .. s - 1
        BY <2>1
    <2>3. Ahead(n, j, r) = Behind(n, i, s - r)
        BY <1>1, <1>3, <2>1 DEF Ahead, Behind
    <2>4. QED
        BY <1>2, <1>5, <2>2, <2>3
<1>9. r = s
    BY <1>7, <1>8
<1>10. QED
    BY <1>2, <1>3, <1>4, <1>5, <1>6, <1>9

(* Where a command stands in the list, 0 when it does not.                 *)
PlaceOf(list, id) == SelectInSeq(list, LAMBDA c : c = id)

LEMMA PlaceOfCommand ==
    ASSUME NEW list, Len(list) \in Nat, NEW id, NEW index, index = PlaceOf(list, id)
    PROVE  /\ (\A i \in 1 .. Len(list) : list[i] # id) => index = 0
           /\ (\E i \in 1 .. Len(list) : list[i] = id) => index \in 1 .. Len(list) /\ list[index] = id
<1>1. PICK places : places = {i \in 1 .. Len(list) : list[i] = id}
    OBVIOUS
<1>2. index = IF places # {} THEN Min(places) ELSE 0
    BY <1>1 DEF PlaceOf, SelectInSeq
<1>3. CASE places = {}
    BY <1>1, <1>2, <1>3
<1>4. CASE places # {}
    <2>1. places \subseteq Nat
        BY <1>1
    <2>2. \E least \in places : \A other \in places : least <= other
        BY <1>4, <2>1, LeastOne
    <2>3. Min(places) \in places
        BY <2>2 DEF Min
    <2>4. QED
        BY <1>1, <1>2, <1>4, <2>3
<1>5. QED
    BY <1>3, <1>4

(* What is highlighted can run, and is what was chosen while that can.     *)
LEMMA HighlightIsAble ==
    ASSUME NEW list, Len(list) \in Nat, NEW id, NEW highlight, highlight = ResolveActiveIndex(list, id)
    PROVE  /\ IF Able(list) = {} THEN highlight = -1 ELSE highlight \in Able(list)
           /\ \A i \in Able(list) : list[i + 1] = id => list[highlight + 1] = id
<1>1. PICK index : index = PlaceOf(list, id)
    OBVIOUS
<1>2. highlight = IF index # 0 /\ Enabled(id) THEN index - 1 ELSE NextCommandIndex(list, -1, 1)
    BY <1>1 DEF ResolveActiveIndex, PlaceOf
<1>3. /\ (\A i \in 1 .. Len(list) : list[i] # id) => index = 0
      /\ (\E i \in 1 .. Len(list) : list[i] = id) => index \in 1 .. Len(list) /\ list[index] = id
    BY <1>1, PlaceOfCommand
<1>4. CASE index # 0 /\ Enabled(id)
    <2>1. index \in 1 .. Len(list) /\ list[index] = id /\ highlight = index - 1
        BY <1>2, <1>3, <1>4
    <2>2. highlight \in 0 .. Len(list) - 1 /\ highlight + 1 = index
        BY <2>1
    <2>3. QED
        BY <1>4, <2>1, <2>2 DEF Able
<1>5. CASE ~(index # 0 /\ Enabled(id))
    <2>1. highlight = NextCommandIndex(list, -1, 1)
        BY <1>2, <1>5
    <2>2. ASSUME NEW i \in Able(list), list[i + 1] = id PROVE FALSE
        <3>1. i + 1 \in 1 .. Len(list) /\ Enabled(id)
            BY <2>2 DEF Able
        <3>2. index # 0
            BY <1>3, <2>2, <3>1
        <3>3. QED
            BY <1>5, <3>1, <3>2
    <2>3. QED
        BY <2>1, <2>2, FirstIsAble
<1>6. QED
    BY <1>4, <1>5

(* Enter runs what is highlighted, and the arrow keys reach every command  *)
(* that can run.                                                           *)
LEMMA PaletteIsSound ==
    ASSUME Len(Matching) \in Nat
    PROVE  EnterRunsTheHighlight
<1> DEFINE list == Matching
           highlight == ResolveActiveIndex(list, palette.active)
           able == {i \in 0 .. Len(list) - 1 : Enabled(list[i + 1])}
<1>1. SUFFICES /\ IF able = {} THEN highlight = -1 ELSE highlight \in able
               /\ palette.active # "" /\ palette.active \in {list[i + 1] : i \in able}
                    => list[highlight + 1] = palette.active
               /\ {NextCommandIndex(list, i, 1) : i \in able} = able
               /\ \A i \in able : NextCommandIndex(list, NextCommandIndex(list, i, 1), -1) = i
    BY DEF EnterRunsTheHighlight
<1>. HIDE DEF list
<1>2. PICK n \in Nat : n = Len(list)
    BY DEF list
<1>3. able = Able(list)
    BY DEF Able
<1>. HIDE DEF able
<1>4. IF able = {} THEN highlight = -1 ELSE highlight \in able
    BY <1>2, <1>3, HighlightIsAble
<1>5. palette.active \in {list[i + 1] : i \in able} => list[highlight + 1] = palette.active
    BY <1>2, <1>3, HighlightIsAble
<1>6. \A i \in able : /\ NextCommandIndex(list, i, 1) \in able
                      /\ NextCommandIndex(list, NextCommandIndex(list, i, 1), -1) = i
    BY <1>2, <1>3, UpTakesBackDown
<1>7. \A i \in able : /\ NextCommandIndex(list, i, -1) \in able
                      /\ NextCommandIndex(list, NextCommandIndex(list, i, -1), 1) = i
    BY <1>2, <1>3, DownTakesBackUp
<1>8. {NextCommandIndex(list, i, 1) : i \in able} = able
    BY <1>6, <1>7
<1>9. QED
    BY <1>4, <1>5, <1>6, <1>8

-----------------------------------------------------------------------------
(* The list that a query leaves.  Each match stands behind the ones before *)
(* it: no two have as many, so every place is taken.                       *)
LEMMA CommandsListed ==
    /\ DOMAIN Commands = 1 .. 6 /\ \A k \in DOMAIN Commands : Commands[k] \in CommandIds
    /\ CommandIds = {"new-script", "new-folder", "backend-status", "updates-check", "updates-show",
                     "open-settings"}
    BY DEF Commands, CommandIds, ToSet

LEMMA MatchesAreFinite ==
    ASSUME NEW query
    PROVE  /\ Scored(query) \subseteq 1 .. 6 /\ IsFiniteSet(Scored(query))
           /\ Cardinality(Scored(query)) \in Nat
<1>1. Scored(query) \subseteq 1 .. 6
    BY CommandsListed DEF Scored
<1>2. IsFiniteSet(1 .. 6)
    <2>1. \A n \in Nat : IsFiniteSet(1 .. n)
        BY FS_Interval
    <2>2. QED
        BY <2>1
<1>3. IsFiniteSet(Scored(query))
    BY <1>1, <1>2, FS_Subset
<1>4. QED
    BY <1>1, <1>3, FS_CardinalityType

LEMMA BeforeIsStrict ==
    ASSUME NEW query \in [CommandIds -> 0 .. 4], NEW j \in Scored(query), NEW k \in Scored(query), j # k
    PROVE  /\ j \in ListedBefore(query, k) \/ k \in ListedBefore(query, j)
           /\ j \in ListedBefore(query, k) => ListedBefore(query, j) \subseteq ListedBefore(query, k)
           /\ j \notin ListedBefore(query, j)
<1>1. PICK score : score = [n \in Scored(query) |-> query[Commands[n]]]
    OBVIOUS
<1>2. \A n \in Scored(query) : n \in Nat /\ score[n] \in Nat
    <2>1. TAKE n \in Scored(query)
    <2>2. n \in 1 .. 6 /\ Commands[n] \in CommandIds
        BY CommandsListed DEF Scored
    <2>3. QED
        BY <1>1, <2>2
<1>3. \A m \in Scored(query) : \A n : n \in ListedBefore(query, m) <=>
        n \in Scored(query) /\ (score[n] > score[m] \/ (score[n] = score[m] /\ n < m))
    BY <1>1 DEF ListedBefore
<1>4. j \in ListedBefore(query, k) \/ k \in ListedBefore(query, j)
    BY <1>2, <1>3
<1>5. j \in ListedBefore(query, k) => ListedBefore(query, j) \subseteq ListedBefore(query, k)
    BY <1>2, <1>3
<1>6. j \notin ListedBefore(query, j)
    BY <1>2, <1>3
<1>7. QED
    BY <1>4, <1>5, <1>6

LEMMA BeforeCounts ==
    ASSUME NEW query \in [CommandIds -> 0 .. 4], NEW k \in Scored(query)
    PROVE  Cardinality(ListedBefore(query, k)) \in 0 .. Cardinality(Scored(query)) - 1
<1>1. ListedBefore(query, k) \subseteq Scored(query)
    BY DEF ListedBefore
<1>2. k \notin ListedBefore(query, k)
    <2>1. k \in Nat /\ query[Commands[k]] \in Nat
        BY CommandsListed DEF Scored
    <2>2. QED
        BY <2>1 DEF ListedBefore
<1>3. /\ IsFiniteSet(ListedBefore(query, k)) /\ Cardinality(ListedBefore(query, k)) <= Cardinality(Scored(query))
      /\ Cardinality(Scored(query)) = Cardinality(ListedBefore(query, k)) => Scored(query) = ListedBefore(query, k)
    BY <1>1, MatchesAreFinite, FS_Subset
<1>4. Cardinality(ListedBefore(query, k)) \in Nat /\ Cardinality(Scored(query)) \in Nat
    BY <1>3, MatchesAreFinite, FS_CardinalityType
<1>5. Cardinality(Scored(query)) # Cardinality(ListedBefore(query, k))
    BY <1>2, <1>3
<1>6. QED
    BY <1>3, <1>4, <1>5

LEMMA FewerBefore ==
    ASSUME NEW query \in [CommandIds -> 0 .. 4], NEW j \in Scored(query), NEW k \in Scored(query),
           j # k, j \in ListedBefore(query, k)
    PROVE  Cardinality(ListedBefore(query, j)) # Cardinality(ListedBefore(query, k))
<1>1. ListedBefore(query, j) \subseteq ListedBefore(query, k) /\ j \notin ListedBefore(query, j)
    BY BeforeIsStrict
<1>2. IsFiniteSet(ListedBefore(query, k))
    <2>1. ListedBefore(query, k) \subseteq Scored(query)
        BY DEF ListedBefore
    <2>2. QED
        BY <2>1, MatchesAreFinite, FS_Subset
<1>3. Cardinality(ListedBefore(query, k)) = Cardinality(ListedBefore(query, j)) => ListedBefore(query, k) = ListedBefore(query, j)
    BY <1>1, <1>2, FS_Subset
<1>4. QED
    BY <1>1, <1>3

LEMMA EveryPlaceIsTaken ==
    ASSUME NEW query \in [CommandIds -> 0 .. 4], NEW i \in 1 .. Cardinality(Scored(query))
    PROVE  \E k \in Scored(query) : Cardinality(ListedBefore(query, k)) = i - 1
<1>1. PICK n \in Nat : n = Cardinality(Scored(query))
    BY MatchesAreFinite
<1>2. PICK f : f = [k \in Scored(query) |-> Cardinality(ListedBefore(query, k)) + 1]
    OBVIOUS
<1>3. \A k \in Scored(query) : Cardinality(ListedBefore(query, k)) \in 0 .. n - 1
    BY <1>1, BeforeCounts
<1>4. f \in [Scored(query) -> 1 .. n]
    BY <1>2, <1>3
<1>5. \A j, k \in Scored(query) : f[j] = f[k] => j = k
    <2>1. TAKE j, k \in Scored(query)
    <2>2. HAVE f[j] = f[k]
    <2>3. Cardinality(ListedBefore(query, j)) = Cardinality(ListedBefore(query, k))
        BY <1>2, <1>3, <2>2
    <2>4. j # k => j \in ListedBefore(query, k) \/ k \in ListedBefore(query, j)
        BY BeforeIsStrict
    <2>5. QED
        BY <2>3, <2>4, FewerBefore
<1>6. f \in Injection(Scored(query), 1 .. n)
    BY <1>4, <1>5, Fun_IsInj
<1>7. IsFiniteSet(1 .. n) /\ Cardinality(1 .. n) = n
    BY FS_Interval
<1>8. f \in Surjection(Scored(query), 1 .. n)
    BY <1>1, <1>6, <1>7, FS_Injection
<1>9. PICK k \in Scored(query) : f[k] = i
    <2>1. \A t \in 1 .. n : \E k \in Scored(query) : f[k] = t
        BY <1>8 DEF Surjection
    <2>2. QED
        BY <1>1, <2>1
<1>10. Cardinality(ListedBefore(query, k)) = i - 1
    BY <1>2, <1>3, <1>9
<1>11. QED
    BY <1>10

LEMMA ListOfCommands ==
    ASSUME NEW query \in [CommandIds -> 0 .. 4]
    PROVE  /\ FilterCommands(query) \in Seq(CommandIds) /\ Len(FilterCommands(query)) \in Nat
           /\ \A i \in 1 .. Len(FilterCommands(query)) : FilterCommands(query)[i] \in CommandIds
<1>1. PICK n \in Nat : n = Cardinality(Scored(query))
    BY MatchesAreFinite
<1>2. PICK list : list = FilterCommands(query)
    OBVIOUS
<1>3. list = [i \in 1 .. n |-> Commands[CHOOSE k \in Scored(query) : Cardinality(ListedBefore(query, k)) = i - 1]]
    BY <1>1, <1>2 DEF FilterCommands
<1>4. ASSUME NEW i \in 1 .. n
      PROVE  (CHOOSE k \in Scored(query) : Cardinality(ListedBefore(query, k)) = i - 1) \in DOMAIN Commands
    <2>1. \E k \in Scored(query) : Cardinality(ListedBefore(query, k)) = i - 1
        BY <1>1, EveryPlaceIsTaken
    <2>2. Scored(query) \subseteq DOMAIN Commands
        BY DEF Scored
    <2>3. QED
        BY <2>1, <2>2
<1>5. list \in [1 .. n -> CommandIds]
    BY <1>3, <1>4, CommandsListed
<1>6. list \in Seq(CommandIds) /\ Len(list) = n
    BY <1>5
<1>7. QED
    BY <1>2, <1>5, <1>6

(* A key leads into the list, or nowhere.                                  *)
LEMMA NextIsInTheList ==
    ASSUME NEW list, NEW n \in Nat, n = Len(list), NEW i \in Able(list) \cup {-1}, NEW delta \in {-1, 1},
           i = -1 => Able(list) = {}
    PROVE  NextCommandIndex(list, i, delta) \in -1 .. n - 1
<1>1. CASE i \in Able(list)
    <2>1. NextCommandIndex(list, i, 1) \in Able(list) /\ NextCommandIndex(list, i, -1) \in Able(list)
        BY <1>1, UpTakesBackDown, DownTakesBackUp
    <2>2. \A j \in Able(list) : j \in -1 .. n - 1
        BY DEF Able
    <2>3. QED
        BY <2>1, <2>2
<1>2. CASE i = -1 /\ i \notin Able(list)
    <2>1. PICK place : place = [s \in 1 .. n |-> SearchPlace(n, i, delta, s)]
        OBVIOUS
    <2>2. PICK found : found = {s \in 1 .. n : Enabled(list[place[s] + 1])}
        OBVIOUS
    <2>3. found = {}
        <3>1. SUFFICES ASSUME NEW s \in found PROVE FALSE
            OBVIOUS
        <3>2. s \in 1 .. n /\ n \in Nat \ {0} /\ Enabled(list[place[s] + 1])
            BY <2>2
        <3>3. place[s] \in 0 .. n - 1
            <4>1. SearchStart(n, i, delta) \in Int
                BY <1>2 DEF SearchStart
            <4>2. \A a \in Int : a % n \in 0 .. n - 1
                BY <3>2
            <4>3. PICK a : a = SearchStart(n, i, delta) + delta * s + n * s
                OBVIOUS
            <4>4. a \in Int
                BY <3>2, <4>1, <4>3
            <4>5. place[s] = a % n
                BY <2>1, <3>2, <4>3 DEF SearchPlace
            <4>6. QED
                BY <4>2, <4>4, <4>5
        <3>4. place[s] \in Able(list)
            BY <3>2, <3>3 DEF Able
        <3>5. QED
            BY <1>2, <3>4
    <2>4. \A s \in 1 .. n : SearchPlace(n, i, delta, s) = place[s]
        BY <2>1
    <2>5. NextCommandIndex(list, i, delta) = -1
        BY <2>2, <2>3, <2>4, SearchEnds
    <2>6. QED
        BY <2>5
<1>3. QED
    BY <1>1, <1>2

-----------------------------------------------------------------------------
(* The window.                                                             *)

ShellInv == UpdInv /\ ShellTypeOK /\ ConfirmationsStandAlone

LEMMA QueriesAreScores == \A query \in Queries : query \in [CommandIds -> 0 .. 4]
    BY QueriesAssumption

LEMMA MatchingIsAList ==
    ASSUME ShellTypeOK
    PROVE  Len(Matching) \in Nat /\ \A i \in 1 .. Len(Matching) : Matching[i] \in CommandIds
<1>1. palette.query \in [CommandIds -> 0 .. 4]
    BY QueriesAreScores DEF ShellTypeOK
<1>2. QED
    BY <1>1, ListOfCommands DEF Matching

LEMMA ShellInitInv == ShellInit => ShellInv
<1> SUFFICES ASSUME ShellInit PROVE ShellInv
    OBVIOUS
<1>1. UpdInv
    BY UpdInitInv DEF ShellInit
<1>2. ShellTypeOK
    BY QueriesAssumption DEF ShellInit, ShellTypeOK, Closed
<1>3. ConfirmationsStandAlone
    BY DEF ShellInit, ConfirmationsStandAlone
<1>4. QED
    BY <1>1, <1>2, <1>3 DEF ShellInv

(* What the window itself has to keep, whatever the updater does.          *)
DialogsAgree == ShellTypeOK /\ ConfirmationsStandAlone

LEMMA ShowAgrees ==
    ASSUME ShellTypeOK, NEW next, next \subseteq Dialogs, Show(next),
           \A d \in {"workspace", "palette"} : d \in next => next = {d}
    PROVE  DialogsAgree'
<1>1. dialogs' = next
    BY DEF Show
<1>2. Closed \in [query : Queries, active : CommandIds \cup {""}]
    BY QueriesAssumption DEF Closed
<1>3. palette' \in [query : Queries, active : CommandIds \cup {""}]
    BY <1>2 DEF Show, ShellTypeOK
<1>4. "palette" \notin next => palette' = Closed
    BY DEF Show
<1>5. ShellTypeOK'
    BY <1>1, <1>3, <1>4 DEF ShellTypeOK
<1>6. ConfirmationsStandAlone'
    BY <1>1 DEF ConfirmationsStandAlone
<1>7. QED
    BY <1>5, <1>6 DEF DialogsAgree

LEMMA StaysAgrees ==
    ASSUME DialogsAgree, Stays
    PROVE  DialogsAgree'
    BY DEF DialogsAgree, Stays, ShellTypeOK, ConfirmationsStandAlone

LEMMA RunCommandInv ==
    ASSUME ShellInv, NEW c \in CommandIds, "palette" \in dialogs, RunCommand(c)
    PROVE  ShellInv'
<1>1. dialogs = {"palette"}
    BY DEF ShellInv, ConfirmationsStandAlone
<1>2. dialogs \ {"palette"} = {}
    BY <1>1
<1>3. \E next \in {{}, {"workspace"}, {"diagnostics"}, {"settings"}} : Show(next)
    BY <1>2, CommandsListed DEF RunCommand
<1>4. DialogsAgree'
    BY <1>3, ShowAgrees DEF ShellInv, Dialogs
<1>5. Unmoved \/ (CheckNow /\ UpdatesAsked) \/ ShowUpdatePrompt
    BY CommandsListed DEF RunCommand
<1>6. UpdInv'
    BY <1>5, UnmovedInv, CheckNowInv, OpenPromptInv DEF ShowUpdatePrompt, ShellInv
<1>7. QED
    BY <1>4, <1>6 DEF ShellInv, DialogsAgree

LEMMA PaletteUseInv ==
    ASSUME ShellInv, PaletteUse
    PROVE  ShellInv'
<1>1. "palette" \in dialogs
    BY DEF PaletteUse
<1>2. /\ Len(Matching) \in Nat
      /\ \A i \in 1 .. Len(Matching) : Matching[i] \in CommandIds
    BY MatchingIsAList DEF ShellInv
<1>3. \A c \in ToSet(Matching) : c \in CommandIds
    <2>1. palette.query \in [CommandIds -> 0 .. 4]
        BY QueriesAreScores DEF ShellInv, ShellTypeOK
    <2>2. Matching \in Seq(CommandIds)
        BY <2>1, ListOfCommands DEF Matching
    <2>3. QED
        BY <2>2 DEF ToSet
<1>4. CASE /\ \/ \E delta \in {-1, 1} :
                    LET next == NextCommandIndex(Matching, Highlight, delta)
                    IN  palette' = [palette EXCEPT !.active = IF next < 0 THEN "" ELSE Matching[next + 1]]
              \/ \E c \in {d \in ToSet(Matching) : Enabled(d)} : palette' = [palette EXCEPT !.active = c]
              \/ \E query \in Queries : palette' = [palette EXCEPT !.query = query]
           /\ UNCHANGED dialogs /\ Unmoved
    <2>1. \E active \in CommandIds \cup {""}, query \in Queries :
            palette' = [palette EXCEPT !.active = active, !.query = query]
        <3>1. CASE \E delta \in {-1, 1} :
                    LET next == NextCommandIndex(Matching, Highlight, delta)
                    IN  palette' = [palette EXCEPT !.active = IF next < 0 THEN "" ELSE Matching[next + 1]]
            <4>1. PICK delta \in {-1, 1} :
                    palette' = [palette EXCEPT !.active =
                        IF NextCommandIndex(Matching, Highlight, delta) < 0 THEN ""
                        ELSE Matching[NextCommandIndex(Matching, Highlight, delta) + 1]]
                BY <3>1
            <4>2. PICK next : next = NextCommandIndex(Matching, Highlight, delta)
                OBVIOUS
            <4>3. PICK highlight : highlight = Highlight
                OBVIOUS
            <4>4. /\ highlight \in Able(Matching) \cup {-1}
                  /\ highlight = -1 => Able(Matching) = {}
                <5>1. IF Able(Matching) = {} THEN highlight = -1 ELSE highlight \in Able(Matching)
                    BY <1>2, <4>3, HighlightIsAble DEF Highlight
                <5>2. -1 \notin Able(Matching)
                    BY <1>2 DEF Able
                <5>3. QED
                    BY <5>1, <5>2
            <4>5. next \in -1 .. Len(Matching) - 1
                BY <1>2, <4>2, <4>3, <4>4, NextIsInTheList
            <4>6. next < 0 \/ Matching[next + 1] \in CommandIds
                BY <1>2, <4>5
            <4>7. QED
                BY <4>1, <4>2, <4>6 DEF ShellInv, ShellTypeOK
        <3>2. CASE \E c \in {d \in ToSet(Matching) : Enabled(d)} : palette' = [palette EXCEPT !.active = c]
            BY <1>3, <3>2 DEF ShellInv, ShellTypeOK
        <3>3. CASE \E query \in Queries : palette' = [palette EXCEPT !.query = query]
            BY <3>3 DEF ShellInv, ShellTypeOK
        <3>4. QED
            BY <1>4, <3>1, <3>2, <3>3
    <2>2. palette' \in [query : Queries, active : CommandIds \cup {""}] /\ dialogs' = dialogs
        BY <1>4, <2>1 DEF ShellInv, ShellTypeOK
    <2>3. ShellTypeOK' /\ ConfirmationsStandAlone'
        BY <1>1, <2>2 DEF ShellInv, ShellTypeOK, ConfirmationsStandAlone
    <2>4. QED
        BY <1>4, <2>3, UnmovedInv DEF ShellInv
<1>5. CASE Highlight >= 0 /\ RunCommand(Matching[Highlight + 1])
    <2>1. PICK highlight : highlight = Highlight
        OBVIOUS
    <2>2. highlight \in Able(Matching)
        BY <1>2, <1>5, <2>1, HighlightIsAble DEF Highlight
    <2>3. Matching[highlight + 1] \in CommandIds
        BY <1>2, <2>2 DEF Able
    <2>4. QED
        BY <1>1, <1>5, <2>1, <2>3, RunCommandInv
<1>6. CASE \E c \in ToSet(Matching) : RunCommand(c)
    BY <1>1, <1>3, <1>6, RunCommandInv
<1>7. QED
    BY <1>4, <1>5, <1>6 DEF PaletteUse

LEMMA ShortcutInv ==
    ASSUME ShellInv, Shortcut
    PROVE  ShellInv'
<1>1. \E next \in SUBSET Dialogs : Show(next) /\ \A d \in {"workspace", "palette"} : d \in next => next = {d}
    <2>1. CASE IF "palette" \in dialogs THEN Show(dialogs \ {"palette"}) ELSE ~ModalOpen /\ Show({"palette"})
        <3>1. "palette" \in dialogs => dialogs \ {"palette"} = {}
            BY DEF ShellInv, ConfirmationsStandAlone
        <3>2. Show({}) \/ Show({"palette"})
            BY <2>1, <3>1
        <3>3. {} \in SUBSET Dialogs /\ {"palette"} \in SUBSET Dialogs
            BY DEF Dialogs
        <3>4. QED
            BY <3>2, <3>3
    <2>2. CASE SettingsKey
        <3>1. dialogs \cup {"settings"} \in SUBSET Dialogs
            BY DEF ShellInv, ShellTypeOK, Dialogs
        <3>2. \A d \in {"workspace", "palette"} : d \notin dialogs \cup {"settings"}
            BY <2>2 DEF SettingsKey
        <3>3. QED
            BY <2>2, <3>1, <3>2 DEF SettingsKey
    <2>3. CASE ~ModalOpen /\ \E d \in {"workspace", "execution"} : Show({d})
        BY <2>3 DEF Dialogs
    <2>4. QED
        BY <2>1, <2>2, <2>3 DEF Shortcut
<1>2. DialogsAgree'
    BY <1>1, ShowAgrees DEF ShellInv
<1>3. QED
    BY <1>2, UnmovedInv DEF Shortcut, ShellInv, DialogsAgree

LEMMA CloseInv ==
    ASSUME ShellInv, Escape \/ CloseDialog \/ RunErrorAction \/ WindowClick
    PROVE  ShellInv'
<1>1. \E next \in SUBSET Dialogs : Show(next) /\ \A d \in {"workspace", "palette"} : d \in next => next = {d}
    <2>1. CASE Escape
        BY <2>1 DEF Escape
    <2>2. CASE CloseDialog
        <3>1. PICK d \in dialogs : Show(dialogs \ {d})
            BY <2>2 DEF CloseDialog
        <3>2. dialogs \ {d} \in SUBSET Dialogs
            BY DEF ShellInv, ShellTypeOK
        <3>3. \A c \in {"workspace", "palette"} : c \notin dialogs \ {d}
            BY <3>1 DEF ShellInv, ConfirmationsStandAlone
        <3>4. QED
            BY <3>1, <3>2, <3>3
    <2>3. CASE RunErrorAction
        <3>1. PICK opened \in {{"settings"}, {}} : Show((dialogs \ {"diagnostics"}) \cup opened)
            BY <2>3 DEF RunErrorAction
        <3>2. (dialogs \ {"diagnostics"}) \cup opened \in SUBSET Dialogs
            BY DEF ShellInv, ShellTypeOK, Dialogs
        <3>3. \A d \in {"workspace", "palette"} : d \notin dialogs
            BY <2>3 DEF RunErrorAction, ShellInv, ConfirmationsStandAlone
        <3>4. \A d \in {"workspace", "palette"} : d \notin (dialogs \ {"diagnostics"}) \cup opened
            BY <3>3
        <3>5. QED
            BY <3>1, <3>2, <3>4
    <2>4. CASE WindowClick
        BY <2>4 DEF WindowClick, Dialogs
    <2>5. QED
        BY <2>1, <2>2, <2>3, <2>4
<1>2. DialogsAgree'
    BY <1>1, ShowAgrees DEF ShellInv
<1>3. Unmoved \/ (Dismiss /\ PromptAsked)
    BY DEF Escape, CloseDialog, RunErrorAction, WindowClick
<1>4. UpdInv'
    BY <1>3, UnmovedInv, DismissInv DEF ShellInv
<1>5. QED
    BY <1>2, <1>4 DEF ShellInv, DialogsAgree

LEMMA ShellNextInv ==
    ASSUME ShellInv, ShellNext
    PROVE  ShellInv'
<1>1. CASE PaletteUse
    BY <1>1, PaletteUseInv
<1>2. CASE Shortcut
    BY <1>2, ShortcutInv
<1>3. CASE Escape \/ CloseDialog \/ RunErrorAction \/ WindowClick
    BY <1>3, CloseInv
<1>4. CASE CheckClick
    BY <1>4, CheckNowInv, StaysAgrees DEF CheckClick, ShellInv, DialogsAgree
<1>5. CASE PromptClick
    BY <1>5, DismissInv, InstallInv, StaysAgrees DEF PromptClick, ShellInv, DialogsAgree
<1>6. CASE UpdaterMoves
    BY <1>6, CheckStepsInv, InstallStepsInv, StaysAgrees DEF UpdaterMoves, ShellInv, DialogsAgree
<1>7. CASE DisposeUpdates /\ Stays
    BY <1>7, DisposeUpdatesInv, StaysAgrees DEF ShellInv, DialogsAgree
<1>8. QED
    BY <1>1, <1>2, <1>3, <1>4, <1>5, <1>6, <1>7 DEF ShellNext

LEMMA ShellStutterInv ==
    ASSUME ShellInv, UNCHANGED shellVars
    PROVE  ShellInv'
<1>1. UpdInv'
    BY UnmovedInv DEF ShellInv, shellVars, Unmoved
<1>2. DialogsAgree'
    BY StaysAgrees DEF ShellInv, shellVars, Stays, DialogsAgree
<1>3. QED
    BY <1>1, <1>2 DEF ShellInv, DialogsAgree

LEMMA ShellInvariant == ShellSpec => []ShellInv
<1>1. ShellInit => ShellInv
    BY ShellInitInv
<1>2. ShellInv /\ [ShellNext]_shellVars => ShellInv'
    BY ShellNextInv, ShellStutterInv
<1>3. QED
    BY <1>1, <1>2, PTL DEF ShellSpec

(* The updater loses no handle, shows what it holds, ends what it began    *)
(* and never interrupts for its own check (updateController.ts), whatever  *)
(* order checks, reports, answers, dismissals and the dispose come in.     *)
THEOREM TheUpdaterIsSound == ShellSpec => []UpdatesAreSound
<1>1. ShellInv => UpdatesAreSound
    BY DEF ShellInv, UpdInv
<1>2. QED
    BY <1>1, ShellInvariant, PTL

(* The dialogs, the palette and the updater agree: a confirmation and the  *)
(* palette stand alone (AppShell.tsx), Enter runs what is highlighted and  *)
(* the arrow keys reach every command that can run (commands.ts), for any  *)
(* queries and however the updater moves underneath.                       *)
THEOREM TheWindowIsSound == ShellSpec => []WindowIsSound
<1>1. ShellInv => WindowIsSound
    BY MatchingIsAList, PaletteIsSound DEF ShellInv, UpdInv, WindowIsSound
<1>2. QED
    BY <1>1, ShellInvariant, PTL
-----------------------------------------------------------------------------
(* The settings.  Whatever an entry holds, those read from it are usable,  *)
(* and what is saved is read back as it was.  The second needs the first:  *)
(* a value out of its range would be written as it is and repaired when it *)
(* is read, and the window and the policies would work with different ones.*)

EntryTyped(e) ==
    e.status = "found" => \A f \in Fields \cap DOMAIN e.fields : Stored(f, e.fields[f])

SettingsInv ==
    /\ EntryTyped(entry)
    /\ settings = [f \in Fields |-> settings[f]]
    /\ Usable(settings)
    /\ saving = "done" => entry = Serialized(settings)

-----------------------------------------------------------------------------
(* The four ranges are intervals of whole seconds that hold the default.   *)
LEMMA TheRanges ==
  ASSUME NEW f \in Timeouts
  PROVE  /\ Limits[f].min = 1000
         /\ Limits[f].max \in {30000, 60000}
         /\ DefaultSettings[f] = 5000
         /\ f \in Fields /\ f \notin Switches /\ f \notin Sizes /\ f \notin Texts
         /\ TypeOf(f) = "number"
<1>1. f \in {"timeoutMs", "injectTimeoutMs", "backendStartupTimeoutMs", "healthCheckIntervalMs"}
  BY DEF Timeouts, Limits
<1>2. Limits[f].min = 1000 /\ Limits[f].max \in {30000, 60000}
  BY <1>1 DEF Limits
<1>3. f \in Fields /\ f \notin Switches /\ f \notin Sizes /\ f \notin Texts
  BY <1>1 DEF Fields, Switches, Sizes, Texts
<1>4. DefaultSettings[f] = 5000
  BY <1>3 DEF DefaultSettings
<1> QED BY <1>2, <1>3, <1>4 DEF TypeOf

LEMMA TheKinds ==
  /\ Switches \cap Sizes = {} /\ Switches \cap Timeouts = {} /\ Sizes \cap Timeouts = {}
  /\ Switches \subseteq Fields /\ Sizes \subseteq Fields /\ Timeouts \subseteq Fields
  /\ \A f \in Switches : TypeOf(f) = "boolean"
  /\ \A f \in Sizes : TypeOf(f) = "number"
<1>1. \A f \in Timeouts : f \notin Switches /\ f \notin Sizes /\ f \in Fields
  BY TheRanges
<1>2. Switches \cap Sizes = {} /\ Sizes \cap Texts = {}
  BY DEF Switches, Sizes, Texts
<1> QED BY <1>1, <1>2 DEF Fields, TypeOf

LEMMA DefaultsAreUsable == Usable(DefaultSettings)
<1> SUFFICES ASSUME NEW f \in Fields
             PROVE  /\ f \in Switches => DefaultSettings[f] \in BOOLEAN
                    /\ f \in Timeouts => DefaultSettings[f] \in Limits[f].min .. Limits[f].max
                    /\ f \in Sizes => DefaultSettings[f] \in Int
  BY DEF Usable
<1>1. f \in Switches => DefaultSettings[f] \in BOOLEAN
  BY DEF DefaultSettings, On
<1>2. f \in Timeouts => DefaultSettings[f] \in Limits[f].min .. Limits[f].max
  BY TheRanges
<1>3. f \in Sizes => DefaultSettings[f] \in Int
  BY TheKinds DEF DefaultSettings, Sizes
<1> QED BY <1>1, <1>2, <1>3

(* A value in its range is kept.                                           *)
LEMMA ClampKeeps ==
  ASSUME NEW f \in Timeouts, NEW v, v.finite = TRUE, NEW n \in Limits[f].min .. Limits[f].max, v.is = n
  PROVE  ClampTimeout(f, v) = n
<1>1. PICK min \in Int, max \in Int : min = Limits[f].min /\ max = Limits[f].max
  BY TheRanges
<1>2. n \in Int /\ ~(n < min) /\ ~(n > max)
  BY <1>1
<1>3. ClampTimeout(f, v) = IF n < min THEN min ELSE IF n > max THEN max ELSE n
  BY <1>1 DEF ClampTimeout
<1> QED BY <1>2, <1>3

(* What is read from an entry is usable, whatever the entry.               *)
LEMMA ReadIsUsable ==
  ASSUME NEW e, EntryTyped(e)
  PROVE  /\ Usable(LoadSettings(e))
         /\ LoadSettings(e) = [f \in Fields |-> LoadSettings(e)[f]]
<1>1. CASE e.status # "found"
  <2>1. LoadSettings(e) = DefaultSettings
    BY <1>1 DEF LoadSettings
  <2> QED BY <2>1, DefaultsAreUsable DEF DefaultSettings
<1>2. CASE e.status = "found"
  <2> DEFINE s == NormalizeSettings(e.fields)
  <2>1. LoadSettings(e) = s
    BY <1>2 DEF LoadSettings
  <2>2. s = [f \in Fields |-> s[f]]
    BY DEF NormalizeSettings
  <2>3. ASSUME NEW f \in Fields
        PROVE  /\ f \in Switches => s[f] \in BOOLEAN
               /\ f \in Timeouts => s[f] \in Limits[f].min .. Limits[f].max
               /\ f \in Sizes => s[f] \in Int
    <3> DEFINE kept == f \in DOMAIN e.fields /\ e.fields[f].type = TypeOf(f)
    <3>1. kept => Stored(f, e.fields[f])
      BY <1>2 DEF EntryTyped
    <3>2. CASE f \in Timeouts
      <4>1. s[f] = ClampTimeout(f, Merge(f, e.fields))
        BY <3>2 DEF NormalizeSettings
      <4>2. Merge(f, e.fields).is \in Int
        BY <3>1, <3>2, TheRanges DEF Stored, Merge
      <4>3. ClampTimeout(f, Merge(f, e.fields)) \in Limits[f].min .. Limits[f].max
        BY <3>2, <4>2, TheRanges DEF ClampTimeout
      <4> QED BY <3>2, <4>1, <4>3, TheKinds
    <3>3. CASE f \notin Timeouts
      <4>1. s[f] = Merge(f, e.fields).is
        BY <3>3 DEF NormalizeSettings
      <4>2. CASE kept
        <5>1. s[f] = e.fields[f].is
          BY <4>1, <4>2 DEF Merge
        <5>2. /\ f \in Switches => e.fields[f].is \in BOOLEAN
              /\ f \in Sizes => e.fields[f].is \in Int
          BY <3>1, <4>2 DEF Stored
        <5> QED BY <5>1, <5>2, <3>3
      <4>3. CASE ~kept
        <5>1. s[f] = DefaultSettings[f]
          BY <4>1, <4>3 DEF Merge
        <5> QED BY <5>1, <3>3, DefaultsAreUsable DEF Usable
      <4> QED BY <4>2, <4>3
    <3> QED BY <3>2, <3>3
  <2> QED BY <2>1, <2>2, <2>3 DEF Usable
<1> QED BY <1>1, <1>2

(* What is saved is typed as an entry has to be, and read back as it was.  *)
LEMMA SavedIsReadBack ==
  ASSUME NEW s, s = [f \in Fields |-> s[f]], Usable(s)
  PROVE  EntryTyped(Serialized(s)) /\ LoadSettings(Serialized(s)) = s
<1> DEFINE e == Serialized(s)
<1>1. e.status = "found" /\ DOMAIN e.fields = Fields
  BY DEF Serialized
<1>2. ASSUME NEW f \in Fields
      PROVE  e.fields[f].type = TypeOf(f) /\ e.fields[f].finite = TRUE /\ e.fields[f].is = s[f]
  BY DEF Serialized
<1> HIDE DEF e
<1>3. EntryTyped(e)
  <2> SUFFICES ASSUME NEW f \in Fields PROVE Stored(f, e.fields[f])
    BY DEF EntryTyped
  <2>1. f \in Switches => s[f] \in BOOLEAN
    BY DEF Usable
  <2>2. f \in Sizes \cup Timeouts => s[f] \in Int
    BY TheRanges DEF Usable
  <2> QED BY <1>2, <2>1, <2>2 DEF Stored
<1>4. LoadSettings(e) = NormalizeSettings(e.fields)
  BY <1>1 DEF LoadSettings
<1>5. ASSUME NEW f \in Fields PROVE NormalizeSettings(e.fields)[f] = s[f]
  <2>1. Merge(f, e.fields) = e.fields[f]
    BY <1>1, <1>2 DEF Merge
  <2>2. CASE f \in Timeouts
    <3>1. s[f] \in Limits[f].min .. Limits[f].max
      BY <2>2 DEF Usable
    <3>2. ClampTimeout(f, e.fields[f]) = s[f]
      BY <1>2, <2>2, <3>1, ClampKeeps
    <3> QED BY <2>1, <2>2, <3>2 DEF NormalizeSettings
  <2>3. CASE f \notin Timeouts
    BY <1>2, <2>1, <2>3 DEF NormalizeSettings
  <2> QED BY <2>2, <2>3
<1>6. NormalizeSettings(e.fields) = [f \in Fields |-> s[f]]
  BY <1>5 DEF NormalizeSettings
<1>7. LoadSettings(e) = s
  BY <1>4, <1>6
<1> QED BY <1>3, <1>7 DEF e

(* A stepper asks for values in its range.                                 *)
LEMMA StepperStaysInRange ==
  ASSUME NEW value \in Int, NEW min \in Int, NEW max \in Int, min <= max,
         NEW wanted \in StepperAsks(value, min, max)
  PROVE  wanted \in min .. max
BY DEF StepperAsks

LEMMA TimeoutStaysInRange ==
  ASSUME NEW s, Usable(s), NEW f \in Timeouts,
         NEW value \in StepperAsks(Seconds(s[f]), Seconds(Limits[f].min), Seconds(Limits[f].max))
  PROVE  value * 1000 \in Limits[f].min .. Limits[f].max
<1>1. s[f] \in Int
  BY TheRanges DEF Usable
<1>2. Seconds(s[f]) \in Int
  BY <1>1 DEF Seconds
<1>3. Seconds(Limits[f].min) = 1
  BY TheRanges DEF Seconds
<1>4. Seconds(Limits[f].max) \in Int /\ Seconds(Limits[f].max) >= 1 /\ Seconds(Limits[f].max) * 1000 = Limits[f].max
  <2>1. CASE Limits[f].max = 30000
    BY <2>1 DEF Seconds
  <2>2. CASE Limits[f].max = 60000
    BY <2>2 DEF Seconds
  <2> QED BY <2>1, <2>2, TheRanges
<1>5. value \in 1 .. Seconds(Limits[f].max)
  BY <1>2, <1>3, <1>4, StepperStaysInRange
<1> QED BY <1>3, <1>4, <1>5, TheRanges

-----------------------------------------------------------------------------
(* A change of one field to a usable value leaves the record usable.       *)
LEMMA ChangeIsSound ==
  ASSUME SettingsInv, NEW f \in Fields, NEW value, UpdateSettings(f, value),
         f \in Switches => value \in BOOLEAN,
         f \in Timeouts => value \in Limits[f].min .. Limits[f].max,
         f \in Sizes => value \in Int
  PROVE  SettingsInv'
<1>1. settings' = [settings EXCEPT ![f] = value] /\ entry' = entry /\ saving' = "due"
  BY DEF UpdateSettings
<1>2. DOMAIN settings = Fields
  BY DEF SettingsInv
<1>3. \A g \in Fields : settings'[g] = IF g = f THEN value ELSE settings[g]
  BY <1>1, <1>2
<1>4. settings' = [g \in Fields |-> settings'[g]]
  BY <1>1, <1>2
<1>5. Usable(settings)'
  <2>1. Usable(settings)
    BY DEF SettingsInv
  <2> SUFFICES ASSUME NEW g \in Fields
               PROVE  /\ g \in Switches => settings'[g] \in BOOLEAN
                      /\ g \in Timeouts => settings'[g] \in Limits[g].min .. Limits[g].max
                      /\ g \in Sizes => settings'[g] \in Int
    BY DEF Usable, Limits, Timeouts
  <2>2. CASE g = f
    BY <1>3, <2>2
  <2>3. CASE g # f
    BY <1>3, <2>1, <2>3 DEF Usable
  <2> QED BY <2>2, <2>3
<1>6. EntryTyped(entry)'
  BY <1>1 DEF SettingsInv, EntryTyped
<1> QED BY <1>1, <1>4, <1>5, <1>6 DEF SettingsInv

LEMMA SettingsStart == SettingsInit => SettingsInv
<1> SUFFICES ASSUME SettingsInit PROVE SettingsInv
  OBVIOUS
<1>1. PICK e \in Entries : LaunchedOn(e)
  BY DEF SettingsInit
<1>2. EntryTyped(e)
  BY EntriesAssumption DEF EntryTyped
<1>3. entry = e /\ settings = LoadSettings(e) /\ saving # "done"
  BY <1>1 DEF LaunchedOn
<1> QED BY <1>2, <1>3, ReadIsUsable DEF SettingsInv

LEMMA UserKeepsSettings == SettingsInv /\ SettingsUser => SettingsInv'
<1> SUFFICES ASSUME SettingsInv, SettingsUser PROVE SettingsInv'
  OBVIOUS
<1>1. Usable(settings)
  BY DEF SettingsInv
<1>2. ASSUME NEW f \in Fields, ToggleSetting(f) PROVE SettingsInv'
  <2>1. f \in Switches /\ f \notin Timeouts /\ f \notin Sizes /\ UpdateSettings(f, ~settings[f])
    BY <1>2, TheKinds DEF ToggleSetting
  <2>2. (~settings[f]) \in BOOLEAN
    OBVIOUS
  <2> QED BY <2>1, <2>2, ChangeIsSound
<1>3. ASSUME NEW f \in Fields, StepTimeout(f) PROVE SettingsInv'
  <2>1. f \in Timeouts /\ f \notin Switches /\ f \notin Sizes
    BY <1>3, TheKinds DEF StepTimeout
  <2>2. PICK value \in StepperAsks(Seconds(settings[f]), Seconds(Limits[f].min), Seconds(Limits[f].max)) :
           UpdateSettings(f, value * 1000)
    BY <1>3 DEF StepTimeout
  <2>3. value * 1000 \in Limits[f].min .. Limits[f].max
    BY <1>1, <2>1, TimeoutStaysInRange
  <2> QED BY <2>1, <2>2, <2>3, ChangeIsSound
<1>4. ASSUME StepFontSize PROVE SettingsInv'
  <2>1. PICK f : f = "fontSize" /\ f \in Sizes
    BY DEF Sizes
  <2>2. settings[f] \in Int /\ f \in Fields /\ f \notin Switches /\ f \notin Timeouts
    BY <1>1, <2>1, TheKinds DEF Usable
  <2>3. PICK value \in StepperAsks(settings[f], 10, 24) : UpdateSettings(f, value)
    BY <1>4, <2>1 DEF StepFontSize
  <2>4. value \in Int
    BY <2>2, <2>3, StepperStaysInRange
  <2> QED BY <2>1, <2>2, <2>3, <2>4, ChangeIsSound
<1>5. ASSUME ChooseTabSize PROVE SettingsInv'
  <2>1. PICK f : f = "tabSize" /\ f \in Sizes
    BY DEF Sizes
  <2>2. PICK value \in {2, 4, 8} : UpdateSettings(f, value)
    BY <1>5, <2>1 DEF ChooseTabSize, SelectAsks
  <2>3. f \in Fields /\ f \notin Switches /\ f \notin Timeouts
    BY <2>1, TheKinds
  <2> QED BY <2>1, <2>2, <2>3, ChangeIsSound
<1>6. ASSUME NEW f \in Texts, NEW value, UpdateSettings(f, value) PROVE SettingsInv'
  <2>1. f \in Fields /\ f \notin Switches /\ f \notin Timeouts /\ f \notin Sizes
    BY TheRanges DEF Fields, Switches, Texts, Sizes
  <2> QED BY <1>6, <2>1, ChangeIsSound
<1>7. CASE ChooseTheme
  <2>1. PICK f : f = "theme" /\ f \in Texts
    BY DEF Texts
  <2>2. PICK value : UpdateSettings(f, value)
    BY <1>7, <2>1 DEF ChooseTheme
  <2> QED BY <1>6, <2>1, <2>2
<1>8. CASE ChooseBackend
  <2>1. PICK f : f = "backendId" /\ f \in Texts
    BY DEF Texts
  <2>2. PICK value : UpdateSettings(f, value)
    BY <1>8, <2>1 DEF ChooseBackend
  <2> QED BY <1>6, <2>1, <2>2
<1> QED BY <1>2, <1>3, <1>4, <1>5, <1>7, <1>8 DEF SettingsUser

LEMMA SaveKeepsSettings == SettingsInv /\ SaveSettings => SettingsInv'
<1> SUFFICES ASSUME SettingsInv, SaveSettings PROVE SettingsInv'
  OBVIOUS
<1>1. settings' = settings
  BY DEF SaveSettings
<1>2. settings' = [f \in Fields |-> settings'[f]] /\ Usable(settings)'
  BY <1>1 DEF SettingsInv, Usable
<1>3. CASE entry' = Serialized(settings) /\ saving' = "done"
  <2>1. EntryTyped(entry')
    BY <1>3, SavedIsReadBack DEF SettingsInv
  <2>2. entry' = Serialized(settings')
    BY <1>1, <1>3
  <2> QED BY <1>2, <2>1, <2>2 DEF SettingsInv, EntryTyped, Serialized
<1>4. CASE entry' = entry /\ saving' = "failed"
  <2>1. EntryTyped(entry')
    BY <1>4 DEF SettingsInv
  <2> QED BY <1>2, <1>4, <2>1 DEF SettingsInv, EntryTyped
<1> QED BY <1>3, <1>4 DEF SaveSettings

LEMMA RelaunchKeepsSettings == SettingsInv /\ Relaunch => SettingsInv'
<1> SUFFICES ASSUME SettingsInv, Relaunch PROVE SettingsInv'
  OBVIOUS
<1>1. PICK e \in {entry} \cup Entries : e = entry'
  BY DEF Relaunch
<1>2. EntryTyped(e)
  BY <1>1, EntriesAssumption DEF SettingsInv, EntryTyped
<1>3. entry' = e /\ settings' = LoadSettings(e) /\ saving' = "due"
  BY <1>1 DEF Relaunch
<1>4. Usable(settings') /\ settings' = [f \in Fields |-> settings'[f]] /\ EntryTyped(entry')
  BY <1>2, <1>3, ReadIsUsable
<1> QED BY <1>3, <1>4 DEF SettingsInv, Usable, EntryTyped

LEMMA SettingsInvIsInductive == SettingsInv /\ [SettingsNext]_settingVars => SettingsInv'
<1>1. SettingsInv /\ UNCHANGED settingVars => SettingsInv'
  BY DEF SettingsInv, settingVars, EntryTyped, Usable, Serialized
<1> QED BY <1>1, UserKeepsSettings, SaveKeepsSettings, RelaunchKeepsSettings DEF SettingsNext

LEMMA SettingsInvIsEnough == SettingsInv => SettingsAreSound
<1> SUFFICES ASSUME SettingsInv PROVE SettingsAreSound
  OBVIOUS
<1>1. Usable(settings) /\ Usable(Policy)
  BY ReadIsUsable DEF SettingsInv, Policy
<1>2. saving = "done" => Policy = settings
  BY SavedIsReadBack DEF SettingsInv, Policy
<1> QED BY <1>1, <1>2 DEF SettingsAreSound, SelectShows, Resolve

(* However damaged or old what is stored, and however it was changed since:*)
(* the window and every policy (lib/storage.ts, app/services.tsx) have     *)
(* usable settings, and after a save that was taken the same ones.         *)
THEOREM SettingsAreAlwaysSound == SettingsSpec => []SettingsAreSound
<1>1. SettingsSpec => []SettingsInv
  BY SettingsStart, SettingsInvIsInductive, PTL DEF SettingsSpec
<1> QED BY <1>1, SettingsInvIsEnough, PTL
=============================================================================
