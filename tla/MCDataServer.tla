---------------------------- MODULE MCDataServer ----------------------------
(* The constants of the TLC models of DataServer.                          *)
EXTENDS DataServer

CONSTANTS c1, c2, m1, m2, none

\* Requests are numbered; what they are is chosen so that a client is first
\* seen without a MAC, a dualstack request is the first to carry it, and a
\* second client is resolved from the start.
MCRequests == 1 .. 4
MCClientOf == <<c1, c1, c1, c2>>
MCMacOf    == <<none, m1, none, m2>>
MCKindOf   == <<"query", "dualstack", "query", "query">>
MCBlocked  == {1, 4}
MCFailed   == {3}

\* Two queries and a prefetch, for the runs that need fewer requests.
MCRequests3 == 1 .. 3
MCClientOf3 == <<c1, c1, c2>>
MCMacOf3    == <<none, m1, none>>
MCKindOf3   == <<"query", "query", "prefetch">>
MCBlocked3  == {2}
MCFailed3   == {1}
=============================================================================
