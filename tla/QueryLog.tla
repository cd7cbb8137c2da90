------------------------------ MODULE QueryLog ------------------------------
(***************************************************************************)
(* What the query pipeline promises, without channel, batches, timers and  *)
(* threads: queries are accepted until the log is closed, a batch of       *)
(* accepted queries at a time is counted and then logged as a whole or not *)
(* at all, and no query is counted or logged twice.  Closing gives up the  *)
(* queries that no batch has taken.                                        *)
(***************************************************************************)
EXTENDS Naturals, FiniteSets

CONSTANT Queries

VARIABLES fresh,    \* queries not handed over yet
          waiting,  \* accepted, not yet counted
          batch,    \* counted, not yet written
          log,      \* the query log
          count,    \* the number of queries counted
          closed

vars == <<fresh, waiting, batch, log, count, closed>>

Init == /\ fresh = Queries
        /\ waiting = {} /\ batch = {} /\ log = {}
        /\ count = 0 /\ closed = FALSE

Accept(q) == /\ q \in fresh /\ ~closed
             /\ fresh' = fresh \ {q}
             /\ waiting' = waiting \cup {q}
             /\ UNCHANGED <<batch, log, count, closed>>

\* request handling is suspended, the channel is full or the loop has exited
Refuse(q) == /\ q \in fresh
             /\ fresh' = fresh \ {q}
             /\ UNCHANGED <<waiting, batch, log, count, closed>>

Handle(S) == /\ batch = {} /\ ~closed
             /\ waiting' = waiting \ S
             /\ batch' = S
             /\ count' = count + Cardinality(S)
             /\ UNCHANGED <<fresh, log, closed>>

Commit == /\ log' = log \cup batch /\ batch' = {}
          /\ UNCHANGED <<fresh, waiting, count, closed>>

Fail == /\ batch' = {}
        /\ UNCHANGED <<fresh, waiting, log, count, closed>>

Close == /\ batch = {}
         /\ waiting' = {} /\ closed' = TRUE
         /\ UNCHANGED <<fresh, batch, log, count>>

Next == \/ \E q \in Queries : Accept(q) \/ Refuse(q)
        \/ \E S \in SUBSET waiting : Handle(S)
        \/ Commit \/ Fail \/ Close

Spec == Init /\ [][Next]_vars
=============================================================================
