--------------------------- MODULE MCStudioBridge ---------------------------
(***************************************************************************)
(* Two Studio windows on one bridge.                                       *)
(***************************************************************************)
EXTENDS StudioBridge, TLC
CONSTANTS s1, s2
MCStudios == {s1, s2}
MCSymmetry == Permutations(MCStudios)
=============================================================================
