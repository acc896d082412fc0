------------------------------ MODULE MCShadow ------------------------------
(* A small instance of Shadow for TLC.                                     *)
EXTENDS Shadow
=============================================================================
