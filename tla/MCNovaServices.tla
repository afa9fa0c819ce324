-------------------------- MODULE MCNovaServices ---------------------------
(* NovaServices for TLC.  Three lifecycle operations let the panel restart *)
(* a backend that runs, or start one that a shutdown then stops; two       *)
(* injections let a session follow another, or a late answer meet a new    *)
(* attempt, and two executions do the same for a run.                      *)
EXTENDS NovaServices

MCCallers == {launcher, panel, closer}
=============================================================================
