------------------------- MODULE BackendLifecycle --------------------------
(***************************************************************************)
(* What the backend controller promises whoever uses it, whatever the      *)
(* backend does: operations begin at rest, one after the other; each ends  *)
(* once, with one outcome that decides the mode; and the callers of an     *)
(* operation are told once, and told either that outcome or "cancelled".   *)
(* After it is closed nothing begins and the mode stays what it was.       *)
(***************************************************************************)
EXTENDS Naturals, Sequences

VARIABLES
  mode,     \* what the panel shows
  outcomes, \* the outcome of each operation begun, "none" until it ends
  told,     \* what the callers of each operation were told
  closed

vars == <<mode, outcomes, told, closed>>

Rest == {"created", "ready", "stopped", "error"}

Last == Len(outcomes)

\* The mode an outcome of a start or a stop leaves.
ModeAfter(outcome) ==
  CASE outcome = "started" -> "ready"
    [] outcome = "failed"  -> "error"
    [] OTHER               -> "stopped"

Init ==
  /\ mode = "created"
  /\ outcomes = <<>>
  /\ told = <<>>
  /\ closed = FALSE

\* A start begins anywhere at rest but "ready", a stop where something may run.
Begin ==
  /\ ~closed
  /\ \/ mode \in {"created", "stopped", "error"} /\ mode' = "starting"
     \/ mode \in {"ready", "error"} /\ mode' = "stopping"
  /\ outcomes' = Append(outcomes, "none")
  /\ told' = Append(told, "none")
  /\ UNCHANGED closed

\* Only a start ends "started"; only a start in flight is cancelled.
End ==
  /\ ~closed
  /\ \E outcome \in IF mode = "starting" THEN {"started", "cancelled", "failed"}
                                         ELSE {"stopped", "failed"} :
       /\ mode \in {"starting", "stopping"}
       /\ mode' = ModeAfter(outcome)
       /\ outcomes' = [outcomes EXCEPT ![Last] = outcome]
       /\ \/ UNCHANGED told
          \/ outcome = "cancelled" /\ told' = [told EXCEPT ![Last] = "cancelled"]
  /\ UNCHANGED closed

Tell ==
  /\ \E n \in 1 .. Last :
       /\ told[n] = "none" /\ outcomes[n] # "none"
       /\ \E answer \in {outcomes[n], "cancelled"} : told' = [told EXCEPT ![n] = answer]
  /\ UNCHANGED <<mode, outcomes, closed>>

\* Closing cancels what nobody was told of yet, and freezes the mode.
Close ==
  /\ ~closed
  /\ closed' = TRUE
  /\ UNCHANGED mode
  /\ \/ mode \in Rest /\ UNCHANGED <<outcomes, told>>
     \/ /\ Last # 0 /\ told[Last] = "none"
        /\ told' = [told EXCEPT ![Last] = "cancelled"]
        /\ outcomes' = [outcomes EXCEPT ![Last] = IF @ = "none" THEN "cancelled" ELSE @]

Next == Begin \/ End \/ Tell \/ Close

Spec == Init /\ [][Next]_vars
=============================================================================
