------------------------------ MODULE Settings ------------------------------
(***************************************************************************)
(* The settings (types/settings.ts): one record that the window holds      *)
(* (app/store.tsx), the dialog changes (settings/SettingsDialog.tsx with   *)
(* components/ui/controls.tsx) and lib/storage.ts keeps.                   *)
(*                                                                         *)
(* They are read twice over.  What the window shows and hands to a command *)
(* is its own copy; the controllers' policies (app/services.tsx) call      *)
(* loadSettings every time they need one, so what they follow is whatever  *)
(* storage holds by then.  The copy is saved after it changed, the write   *)
(* may fail, and before a launch the entry may be missing, damaged, or     *)
(* written by another build.                                               *)
(***************************************************************************)
EXTENDS Integers

CONSTANTS
    Entries,          \* what storage may hold before a launch
    MaxSettingSteps   \* bound on changes and launches

VARIABLES
    entry,       \* what is stored under nova.settings
    settings,    \* the window's copy
    saving,      \* "due": the effect has not run since it changed; "done"; "failed"
    settingSteps

settingVars == <<entry, settings, saving, settingSteps>>

-----------------------------------------------------------------------------
Switches == {"confirmOnExit", "wordWrap", "minimap", "confirmBeforeRun", "clearConsoleBeforeRun",
             "autoDetect", "autoInject", "autoReconnect", "autoStartBackend", "checkOnStartup",
             "showDiagnostics"}
Sizes == {"fontSize", "tabSize"}
Texts == {"theme", "backendId"}

(* TIMEOUT_LIMITS, in milliseconds.                                        *)
Limits == [ timeoutMs               |-> [min |-> 1000, max |-> 60000],
            injectTimeoutMs         |-> [min |-> 1000, max |-> 30000],
            backendStartupTimeoutMs |-> [min |-> 1000, max |-> 30000],
            healthCheckIntervalMs   |-> [min |-> 1000, max |-> 60000] ]
Timeouts == DOMAIN Limits

Fields == Switches \cup Sizes \cup Texts \cup Timeouts
On == {"confirmOnExit", "confirmBeforeRun", "autoDetect", "autoStartBackend", "checkOnStartup"}
DefaultSettings ==
    [f \in Fields |-> IF f \in Switches THEN f \in On
                      ELSE IF f \in Timeouts THEN 5000
                      ELSE CASE f = "fontSize" -> 14 [] f = "tabSize" -> 2
                             [] f = "theme" -> "dark" [] f = "backendId" -> "local-mock"]
TypeOf(f) == IF f \in Switches THEN "boolean" ELSE IF f \in Texts THEN "string" ELSE "number"

-----------------------------------------------------------------------------
(* Storage.  A found entry has some of the fields, each with a type and a  *)
(* value: of a section that is missing, or is no object, it has none, and  *)
(* so has a value that is no object.  A number stands for the whole number *)
(* it rounds to; one that overflows is not finite, and of those only the   *)
(* timeouts are looked at here: no build writes one, and a size kept so    *)
(* would be saved as null.                                                 *)
Stored(f, v) ==
    v.type = TypeOf(f) =>
        /\ f \in Switches => v.is \in BOOLEAN
        /\ f \in Sizes \cup Timeouts => v.is \in Int
        /\ f \in Sizes => v.finite
ASSUME EntriesAssumption ==
    \A e \in Entries : e.status = "found" => \A f \in Fields \cap DOMAIN e.fields : Stored(f, e.fields[f])

(* mergeSection: a stored value counts when it is of its default's type.   *)
Merge(f, fields) ==
    IF f \in DOMAIN fields /\ fields[f].type = TypeOf(f) THEN fields[f]
    ELSE [type |-> TypeOf(f), finite |-> TRUE, is |-> DefaultSettings[f]]

\* Variant: only an upper bound is kept.
ClampHigh(f, stored) ==
    IF ~stored.finite THEN DefaultSettings[f]
    ELSE IF stored.is > Limits[f].max THEN Limits[f].max ELSE stored.is
ClampTimeout(f, stored) ==
    IF ~stored.finite THEN DefaultSettings[f]
    ELSE IF stored.is < Limits[f].min THEN Limits[f].min
    ELSE IF stored.is > Limits[f].max THEN Limits[f].max ELSE stored.is

NormalizeSettings(fields) ==
    [f \in Fields |-> IF f \in Timeouts THEN ClampTimeout(f, Merge(f, fields))
                                        ELSE Merge(f, fields).is]
LoadSettings(e) == IF e.status = "found" THEN NormalizeSettings(e.fields) ELSE DefaultSettings

(* JSON.stringify.                                                         *)
Serialized(s) ==
    [ status |-> "found",
      fields |-> [f \in Fields |-> [type |-> TypeOf(f), finite |-> TRUE, is |-> s[f]]] ]

(* What a controller's policy answers when it is asked, and the backend a  *)
(* launch runs on: a preference this build does not know, the empty one    *)
(* included, means the first that is registered.                           *)
Policy == LoadSettings(entry)
Backends == {"local-mock", "local-service"}
Resolve(id) == IF id \in Backends THEN id ELSE "local-mock"

-----------------------------------------------------------------------------
(* The window's copy.                                                      *)

LaunchedOn(e) ==
    /\ entry = e /\ settings = LoadSettings(e)
    /\ saving = "due" /\ settingSteps = 0
SettingsInit == \E e \in Entries : LaunchedOn(e)
SettingsFresh == LaunchedOn([status |-> "missing"])

SettingStep == settingSteps < MaxSettingSteps /\ settingSteps' = settingSteps + 1

(* updateSettings: the copy changes at once, the effect saves it later.    *)
UpdateSettings(f, value) ==
    /\ SettingStep
    /\ settings' = [settings EXCEPT ![f] = value]
    /\ saving' = "due"
    /\ UNCHANGED entry

(* saveSettings: a failed write is logged and not tried again.             *)
SaveSettings ==
    /\ saving = "due"
    /\ \/ entry' = Serialized(settings) /\ saving' = "done"
       \/ UNCHANGED entry /\ saving' = "failed"
    /\ UNCHANGED <<settings, settingSteps>>

(* Nova is closed, or crashes, and is launched on what is stored by then.  *)
Relaunch ==
    /\ SettingStep
    /\ entry' \in {entry} \cup Entries
    /\ settings' = LoadSettings(entry')
    /\ saving' = "due"

(* Stepper: a button that is not disabled asks for the next value.         *)
StepperAsks(value, min, max) ==
    LET clamp(next) == IF next < min THEN min ELSE IF next > max THEN max ELSE next
    IN  (IF value > min THEN {clamp(value - 1)} ELSE {}) \cup
        (IF value < max THEN {clamp(value + 1)} ELSE {})

(* Select: a value it does not list is shown as its first option, and the  *)
(* option that is shown cannot be asked for.                               *)
SelectShows(value, options, first) == IF value \in options THEN value ELSE first
SelectAsks(value, options, first) == options \ {SelectShows(value, options, first)}

Seconds(ms) == (ms + 500) \div 1000

(* The dialog's controls.                                                  *)
ToggleSetting(f) == f \in Switches /\ UpdateSettings(f, ~settings[f])
StepFontSize ==
    \E value \in StepperAsks(settings.fontSize, 10, 24) : UpdateSettings("fontSize", value)
StepTimeout(f) ==
    /\ f \in Timeouts
    /\ \E value \in StepperAsks(Seconds(settings[f]), Seconds(Limits[f].min), Seconds(Limits[f].max)) :
          UpdateSettings(f, value * 1000)
ChooseTabSize ==
    \E value \in SelectAsks(settings.tabSize, {2, 4, 8}, 2) : UpdateSettings("tabSize", value)
ChooseTheme ==
    \E value \in SelectAsks(settings.theme, {"dark", "light", "system"}, "dark") :
        UpdateSettings("theme", value)
ChooseBackend ==
    \E value \in SelectAsks(settings.backendId, Backends, "local-mock") :
        UpdateSettings("backendId", value)

SettingsUser ==
    \/ \E f \in Fields : ToggleSetting(f) \/ StepTimeout(f)
    \/ StepFontSize \/ ChooseTabSize \/ ChooseTheme \/ ChooseBackend

SettingsNext == SettingsUser \/ SaveSettings \/ Relaunch
SettingsSpec == SettingsInit /\ [][SettingsNext]_settingVars

-----------------------------------------------------------------------------
(* A value a timer or a switch can be given: of its type, in its range.    *)
Usable(s) ==
    \A f \in Fields :
        /\ f \in Switches => s[f] \in BOOLEAN
        /\ f \in Timeouts => s[f] \in Limits[f].min .. Limits[f].max
        /\ f \in Sizes => s[f] \in Int

(* Whatever was stored, by whichever build, and however the dialog was     *)
(* used since: the window and every policy have settings they can work     *)
(* with; and once a save was taken they have the same ones, so that what   *)
(* the dialog shows is what the controllers follow and what the next       *)
(* launch starts with, its backend too.                                    *)
SettingsAreSound ==
    /\ Usable(settings) /\ Usable(Policy)
    /\ saving = "done" =>
          /\ Policy = settings
          /\ SelectShows(settings.backendId, Backends, "local-mock") = Resolve(Policy.backendId)
=============================================================================
