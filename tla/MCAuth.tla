------------------------------- MODULE MCAuth -------------------------------
(* The constants of the TLC models of Auth.                                *)
EXTENDS Auth, TLC

CONSTANTS h1, h2, p1, p2, none

\* Handlers are alike.
Symmetry == Permutations({h1, h2})
=============================================================================
