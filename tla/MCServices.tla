----------------------------- MODULE MCServices -----------------------------
(* One connection, which serves lookups or terminal sessions, one after the *)
(* other, two processes and two starts in each.                             *)
EXTENDS Services
=============================================================================
