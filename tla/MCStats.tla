------------------------------- MODULE MCStats -------------------------------
(* The constants of the TLC models of Stats.                               *)
EXTENDS Stats

CONSTANTS c1
=============================================================================
