------------------------ MODULE MCBackendController ------------------------
(* Two callers and three operations: enough for one operation to be        *)
(* abandoned, a second to supersede it from inside a published change and  *)
(* a third to find what both left behind, with a caller waiting on the one *)
(* that was replaced and another on the one that replaced it.              *)
EXTENDS BackendController

CONSTANTS panel, launcher

MCClients == {panel, launcher}
=============================================================================
