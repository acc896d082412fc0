------------------------------- MODULE MCSubs -------------------------------
(* A small instance of Subs for TLC.                                       *)
EXTENDS Subs
=============================================================================
