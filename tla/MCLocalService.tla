-------------------------- MODULE MCLocalService ---------------------------
(* Two callers and three operations: a start, the stop or timeout that     *)
(* replaces it and the start after that, each with its requests.  Two      *)
(* requests in flight let any two of a health check, an attach, a detach   *)
(* and a lifecycle request cross; the faults are two of a lost answer, a   *)
(* lost request, a refused handshake, an ended session or a timeout,       *)
(* anywhere in the run.                                                    *)
EXTENDS LocalServiceSystem, TLC

CONSTANTS panel, launcher

MCClients == {panel, launcher}

ClientSymmetry == Permutations(MCClients)
=============================================================================
