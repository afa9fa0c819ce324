----------------------- MODULE MCWorkspacePersistence -----------------------
(* Two scripts and two contents: a script may be saved while the other is  *)
(* dirty, dropped or not yet written.                                      *)
EXTENDS WorkspacePersistence

MCScripts == {"main", "other"}
MCContents == {"blank", "text"}
=============================================================================
