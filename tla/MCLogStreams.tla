---------------------------- MODULE MCLogStreams ----------------------------
(* The constants of the TLC models of LogStreams.                          *)
EXTENDS LogStreams

CONSTANTS d1, d2, s1, s2, debug, info, none

\* Streams are alike, and so are threads.
Symmetry == Permutations({s1, s2}) \cup Permutations({d1, d2})
=============================================================================
