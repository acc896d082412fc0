--------------------------- MODULE MCUserSession ----------------------------
(* Small instances of UserSession for TLC.                                 *)
EXTENDS UserSession, TLC

Symmetry == Permutations(Browsers) \cup Permutations(Sids)
=============================================================================
