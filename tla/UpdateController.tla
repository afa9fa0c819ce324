--------------------------- MODULE UpdateController ---------------------------
(***************************************************************************)
(* The updater (updates/updateController.ts, updateState.ts) of a build    *)
(* that can update itself, the dialog over it and the provider that ships. *)
(* A check that finds a release hands over a handle on it, which has to be *)
(* installed or closed.  Installing reports its progress on a channel of   *)
(* its own, so a report may come after the answer, even into the next      *)
(* installation.  Of the progress only "installing" moves anything: bytes, *)
(* texts and error codes are left out.  A restart changes no state here.   *)
(***************************************************************************)
EXTENDS Naturals, Sequences

CONSTANTS
    MaxChecks,      \* bound on checks
    MaxInstalls     \* bound on installations begun

ASSUME UpdateBounds == MaxChecks \in Nat /\ MaxInstalls \in Nat

VARIABLES
    upd,           \* the snapshot; the release shown is named by its handle
    updThrew,      \* a change of status was not in TRANSITIONS
    offered,       \* the handle held, 0 for null
    checkPass,     \* the newest check
    asked,         \* the check the source has not answered, 0 for none
    startup,       \* the startup check: "none", "armed" or "done"
    updDisposed,
    given,         \* the last handle the source gave out
    closed,        \* the handles closed
    installed,     \* the handles whose installation succeeded
    installs,      \* the last installation begun
    running,       \* what the installation without an answer installs, 0 for none
    reported,      \* it has said that the download is complete
    reports        \* installations whose report has not arrived

handleVars == <<offered, given, closed, installed>>
checkVars  == <<checkPass, asked, startup>>
installVars == <<installs, running, reported, reports>>
updVars == <<upd, updThrew, handleVars, checkVars, installVars, updDisposed>>

UpdTransitions == [s \in {"idle", "checking", "up-to-date", "available", "downloading",
                          "installing", "ready", "error"} |->
    CASE s = "idle"        -> {"checking"}
      [] s = "checking"    -> {"up-to-date", "available", "error"}
      [] s = "up-to-date"  -> {"checking"}
      [] s = "available"   -> {"downloading", "idle", "checking"}
      [] s = "downloading" -> {"installing", "error"}
      [] s = "installing"  -> {"ready", "error"}
      [] s = "ready"       -> {}
      [] s = "error"       -> {"checking", "available", "idle"}]
Checkable == {"idle", "up-to-date", "available", "error"}
UpdBusy == {"checking", "downloading", "installing"}

UpdInit ==
    /\ upd = [status |-> "idle", release |-> 0, prompt |-> FALSE, manual |-> FALSE]
    /\ updThrew = FALSE
    /\ offered = 0 /\ given = 0 /\ closed = {} /\ installed = {}
    /\ checkPass = 0 /\ asked = 0 /\ startup = "none"
    /\ installs = 0 /\ running = 0 /\ reported = FALSE /\ reports = {}
    /\ updDisposed = FALSE

(* moveTo, along the statuses of path to the last, which becomes shown.    *)
MoveTo(path, shown) ==
    LET all == <<upd.status>> \o path IN
    /\ upd' = [shown EXCEPT !.status = path[Len(path)]]
    /\ updThrew' = (updThrew \/ \E i \in DOMAIN path : path[i] \notin UpdTransitions[all[i]])

(* release: closes whatever is held.                                       *)
ReleaseOffer == closed' = closed \cup ({offered} \ {0}) /\ offered' = 0

-----------------------------------------------------------------------------
(* check, past its guards.  The snapshot keeps who asked: no other check   *)
(* begins before this one has its answer.                                  *)
Check(manual) ==
    /\ checkPass < MaxChecks
    /\ ReleaseOffer
    /\ checkPass' = checkPass + 1 /\ asked' = checkPass + 1
    /\ MoveTo(<<"checking">>, [upd EXCEPT !.manual = manual, !.release = 0, !.prompt = @ /\ manual])
    /\ UNCHANGED <<given, installed>>

(* Settings, the palette, Check Again, and Try Again with no release.      *)
CheckNow ==
    /\ ~updDisposed /\ upd.status \in Checkable
    /\ Check(TRUE) /\ UNCHANGED startup

(* start, the first time: the policy is read then.                         *)
StartUpdates ==
    /\ startup = "none" /\ ~updDisposed
    /\ \E checkOnStartup \in BOOLEAN : startup' = IF checkOnStartup THEN "armed" ELSE "done"
    /\ UNCHANGED <<upd, updThrew, handleVars, checkPass, asked>>

(* The delay has passed: a check, unless one cannot be started now.        *)
StartupFires ==
    /\ startup = "armed" /\ startup' = "done"
    /\ IF upd.status \in Checkable THEN Check(FALSE)
       ELSE UNCHANGED <<upd, updThrew, handleVars, checkPass, asked>>

NotWanted == asked # checkPass \/ updDisposed

UpToDate ==
    /\ asked # 0 /\ asked' = 0
    /\ IF NotWanted THEN UNCHANGED <<upd, updThrew>>
       ELSE MoveTo(<<"up-to-date">>, [upd EXCEPT !.prompt = upd.manual])
    /\ UNCHANGED <<handleVars, checkPass, startup>>

\* Variant: an offer that comes late is forgotten.
DropLateOffer == closed' = closed /\ UNCHANGED <<upd, updThrew, offered>>
LateOffer == closed' = closed \cup {given'} /\ UNCHANGED <<upd, updThrew, offered>>

(* A release: a handle nobody waits for any more is closed at once.        *)
FoundRelease ==
    /\ asked # 0 /\ asked' = 0
    /\ given' = given + 1
    /\ IF NotWanted THEN LateOffer
       ELSE /\ offered' = given' /\ closed' = closed
            /\ MoveTo(<<"available">>, [upd EXCEPT !.release = given', !.prompt = TRUE])
    /\ UNCHANGED <<installed, checkPass, startup>>

CheckFails ==
    /\ asked # 0 /\ asked' = 0
    /\ IF NotWanted THEN UNCHANGED <<upd, updThrew>>
       ELSE MoveTo(<<"error">>, [upd EXCEPT !.prompt = upd.manual])
    /\ UNCHANGED <<handleVars, checkPass, startup>>

-----------------------------------------------------------------------------
(* install, from the dialog's Update or Try Again.  A failed installation  *)
(* is tried again from the release it was offered.                         *)
Retries == upd.status = "error" /\ offered # 0 /\ upd.release # 0
Install ==
    /\ ~updDisposed /\ upd.prompt
    /\ upd.status \in {"available", "error"} /\ upd.release # 0
    /\ installs < MaxInstalls
    /\ IF offered = 0
       THEN /\ MoveTo(<<"error">>, [upd EXCEPT !.prompt = TRUE])
            /\ UNCHANGED <<installs, running, reported>>
       ELSE /\ MoveTo((IF Retries THEN <<"available">> ELSE <<>>) \o <<"downloading">>,
                      [upd EXCEPT !.prompt = TRUE])
            /\ installs' = installs + 1 /\ running' = offered /\ reported' = FALSE
    /\ UNCHANGED <<handleVars, reports>>

(* downloadAndInstall has the whole download.                              *)
DownloadFinishes ==
    /\ running # 0 /\ ~reported
    /\ reported' = TRUE /\ reports' = reports \cup {installs}
    /\ UNCHANGED <<upd, updThrew, handleVars, installs, running>>

(* onProgress, in whatever state it arrives.                               *)
ReportArrives(n) ==
    /\ reports' = reports \ {n}
    /\ IF ~updDisposed /\ upd.status = "downloading" THEN MoveTo(<<"installing">>, upd)
       ELSE UNCHANGED <<upd, updThrew>>
    /\ UNCHANGED <<handleVars, installs, running, reported>>

(* Its answer may overtake the report: installing is passed on the way.    *)
InstallSucceeds ==
    /\ running # 0 /\ running' = 0 /\ reported
    /\ installed' = installed \cup {running}
    /\ IF updDisposed THEN UNCHANGED <<upd, updThrew, offered>>
       ELSE /\ MoveTo((IF upd.status = "downloading" THEN <<"installing">> ELSE <<>>) \o <<"ready">>,
                      [upd EXCEPT !.prompt = TRUE])
            /\ offered' = 0
    /\ UNCHANGED <<given, closed, installs, reported, reports>>

InstallFails ==
    /\ running # 0 /\ running' = 0
    /\ IF updDisposed THEN UNCHANGED <<upd, updThrew>>
       ELSE MoveTo(<<"error">>, [upd EXCEPT !.prompt = TRUE])
    /\ UNCHANGED <<handleVars, installs, reported, reports>>

-----------------------------------------------------------------------------
(* Later and Close: an offer is put aside, anything else only hidden.      *)
Dismiss ==
    /\ ~updDisposed /\ upd.prompt
    /\ IF upd.status = "available" THEN MoveTo(<<"idle">>, [upd EXCEPT !.prompt = FALSE])
       ELSE upd' = [upd EXCEPT !.prompt = FALSE] /\ UNCHANGED updThrew

(* Show Update, offered for a release or an installed update.              *)
OpenPrompt ==
    /\ ~updDisposed /\ ~upd.prompt /\ (upd.release # 0 \/ upd.status = "ready")
    /\ upd' = [upd EXCEPT !.prompt = TRUE] /\ UNCHANGED updThrew

DisposeUpdates ==
    /\ ~updDisposed /\ updDisposed' = TRUE
    /\ checkPass' = checkPass + 1 /\ startup' = "done"
    /\ ReleaseOffer
    /\ UNCHANGED <<upd, updThrew, asked, given, installed, installVars>>

(* What moves by itself.                                                  *)
UpdCheckSteps == StartUpdates \/ StartupFires \/ UpToDate \/ FoundRelease \/ CheckFails
UpdInstallSteps ==
    \/ DownloadFinishes \/ InstallSucceeds \/ InstallFails
    \/ \E n \in reports : ReportArrives(n)

-----------------------------------------------------------------------------
(* Every handle the source gave out is held, closed or installed, and the  *)
(* one being installed is still held.                                      *)
HandlesAreKept ==
    /\ \A h \in 1 .. given : h = offered \/ h \in closed \/ h \in installed
    /\ offered \notin closed
    /\ ~updDisposed /\ running # 0 => running = offered
    /\ updDisposed => offered = 0

(* What the dialog names is what its buttons install, or what the restart  *)
(* will run, and ready says that something was installed.                  *)
ReleaseIsHeld == ~updDisposed =>
    /\ upd.status = "ready" <=> installed # {}
    /\ upd.release # 0 => upd.release \in IF upd.status = "ready" THEN installed ELSE {offered}

(* A busy status has someone who ends it, and only TRANSITIONS are taken.  *)
BusyHasAnOwner == ~updDisposed =>
    /\ upd.status = "checking" <=> asked # 0
    /\ upd.status \in {"downloading", "installing"} <=> running # 0
    /\ ~updThrew

(* A failed check that nobody asked for shows nothing, whatever was asked  *)
(* or dismissed before it.                                                 *)
SilentUnlessAsked ==
    upd.prompt /\ upd.status \in {"error", "up-to-date"} /\ upd.release = 0 => upd.manual

(* The updater loses no handle, shows what it holds, ends what it began    *)
(* and never interrupts for its own check, in whatever order the checks,   *)
(* reports, answers, dismissals and the dispose come.                      *)
UpdatesAreSound == HandlesAreKept /\ ReleaseIsHeld /\ BusyHasAnOwner /\ SilentUnlessAsked
=============================================================================
