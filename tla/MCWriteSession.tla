--------------------------- MODULE MCWriteSession ---------------------------
(* A small instance of WriteSession for TLC.                               *)
EXTENDS WriteSession
=============================================================================
