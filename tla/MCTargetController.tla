------------------------ MODULE MCTargetController ------------------------
(* TargetController for TLC: up to MaxAttempts injections and MaxPasses    *)
(* detection passes, with any number of announcements and disconnects.     *)
EXTENDS TargetController
=============================================================================
