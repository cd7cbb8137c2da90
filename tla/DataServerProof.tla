--------------------------- MODULE DataServerProof ---------------------------
(***************************************************************************)
(* Theorems about DataServer, for every set of requests and every bound:   *)
(* its invariants, and at the end that it implements the query log.        *)
(***************************************************************************)
EXTENDS DataServer, FiniteSetTheorems, FunctionTheorems,
        SequenceTheorems, WellFoundedInduction, TLAPS

-----------------------------------------------------------------------------
(* Facts about the operators of the model                                  *)

\* A function is a partial function from S to T exactly when its domain is a
\* part of S and its values are in T.
LEMMA PartialFunctionIff ==
    ASSUME NEW S, NEW T, NEW f
    PROVE  f \in PartialFunctions(S, T)
             <=> DOMAIN f \in SUBSET S /\ f \in [DOMAIN f -> T]
BY DEF PartialFunctions

\* The last position of a non-empty set of positions belongs to the set.
LEMMA LastIdxIn ==
    ASSUME NEW n \in Nat, NEW I \in SUBSET (1 .. n), I # {}
    PROVE  LastIdx(I) \in I
<1> DEFINE T == {n - i : i \in I}
<1>1. T \subseteq Nat /\ T # {}
  <2>1. \A i \in I : n - i \in Nat
      OBVIOUS
  <2>2. QED
      BY <2>1
<1>2. PICK x \in T : \A y \in T : ~(<<y, x>> \in OpToRel(<, Nat))
    BY <1>1, WFMin, NatLessThanWellFounded
<1>3. \A y \in T : ~(y < x)
    BY <1>1, <1>2 DEF OpToRel
<1>4. PICK i \in I : x = n - i
    OBVIOUS
<1>5. \A j \in I : j <= i
  <2> SUFFICES ASSUME NEW j \in I PROVE j <= i
      OBVIOUS
  <2>1. ~(n - j < n - i)
      BY <1>3, <1>4
  <2>2. i \in Nat /\ j \in Nat
      OBVIOUS
  <2>3. QED
      BY <2>1, <2>2
<1>6. QED
    BY <1>5 DEF LastIdx

\* The positions of a batch that satisfy a condition are finitely many.
LEMMA IdxFinite ==
    ASSUME NEW s \in Seq(Requests), NEW I \in SUBSET DOMAIN s
    PROVE  IsFiniteSet(I) /\ Cardinality(I) \in Nat
<1>1. IsFiniteSet(1 .. Len(s))
    BY FS_Interval
<1>2. QED
    BY <1>1, FS_Subset, FS_CardinalityType

-----------------------------------------------------------------------------
(* Type correctness                                                        *)

\* Handling a batch keeps the caches, the counters and the history well typed.
LEMMA HandleTypes ==
    ASSUME TypeOK, NEW s \in Seq(Requests), HandleDnsRequest(s)
    PROVE  /\ mac_cache' \in PartialFunctions(Clients, Macs)
           /\ pending' \in PartialFunctions(Clients, PendingEntry)
           /\ client_list' \in SUBSET (Clients \X MacOrNone)
           /\ total' \in [Counters -> Nat]
           /\ where' \in [Requests -> Fates]
           /\ pc' \in LoopStates
<1> DEFINE cache  == CachedMacs(s)
           merged == MergedPending(s, cache)
           due    == Due(merged, BatchAge)
<1>s. /\ Len(s) \in Nat
      /\ DOMAIN s = 1 .. Len(s)
      /\ \A i \in DOMAIN s : s[i] \in Requests
    OBVIOUS
<1>a. /\ DOMAIN mac_cache \in SUBSET Clients
      /\ \A c \in DOMAIN mac_cache : mac_cache[c] \in Macs
    BY PartialFunctionIff DEF TypeOK
<1>b. /\ DOMAIN pending \in SUBSET Clients
      /\ \A c \in DOMAIN pending : pending[c] \in PendingEntry
    BY PartialFunctionIff DEF TypeOK
<1>1. cache \in PartialFunctions(Clients, Macs)
  <2> DEFINE kept == IF Cardinality(DOMAIN mac_cache) > MacCacheLimit
                     THEN {} ELSE DOMAIN mac_cache
             seen == {c \in Clients : MacIdx(s, c) # {}}
             val(c) == IF c \in seen THEN MacOf[s[LastIdx(MacIdx(s, c))]]
                                     ELSE mac_cache[c]
  <2>1. \A c \in seen : LastIdx(MacIdx(s, c)) \in MacIdx(s, c)
      BY <1>s, LastIdxIn DEF MacIdx
  <2>2. \A c \in seen : MacOf[s[LastIdx(MacIdx(s, c))]] \in Macs
      BY <1>s, <2>1, DataAssumption DEF MacIdx, MacOrNone
  <2>3. \A c \in kept \cup seen : val(c) \in Macs
      BY <1>a, <2>2
  <2>4. cache = [c \in kept \cup seen |-> val(c)]
      BY DEF CachedMacs
  <2>5. kept \cup seen \in SUBSET Clients
      BY <1>a
  <2> HIDE DEF kept, seen, val, cache
  <2>6. DOMAIN cache = kept \cup seen /\ cache \in [kept \cup seen -> Macs]
      BY <2>3, <2>4
  <2>7. QED
      BY <2>5, <2>6, PartialFunctionIff
<1>2. merged \in PartialFunctions(Clients, PendingEntry)
  <2> DEFINE D == DOMAIN pending \cup QueryClients(s)
             old(c) == IF c \in DOMAIN pending THEN pending[c]
                                               ELSE [age |-> 0, mac |-> NoMac]
             mac(c) == IF c \in QueryClients(s)
                       THEN ResolvedMac(s[LastIdx(ClientIdx(s, c))], cache)
                       ELSE NoMac
             val(c) == IF mac(c) = NoMac THEN old(c)
                                         ELSE [old(c) EXCEPT !.mac = mac(c)]
  <2>1. \A c \in QueryClients(s) : LastIdx(ClientIdx(s, c)) \in ClientIdx(s, c)
      BY <1>s, LastIdxIn DEF ClientIdx, QueryIdx, QueryClients
  <2>2. \A c \in DOMAIN cache : cache[c] \in Macs
      BY <1>1, PartialFunctionIff
  <2>3. \A r \in Requests : ResolvedMac(r, cache) \in MacOrNone
      BY <2>2, DataAssumption DEF ResolvedMac, MacOrNone
  <2>4. \A c \in D : mac(c) \in MacOrNone
      BY <1>s, <2>1, <2>3 DEF ClientIdx, QueryIdx, MacOrNone
  <2>5. \A c \in D : old(c) \in PendingEntry
      BY <1>b, BoundAssumption DEF PendingEntry, MaxAge, MacOrNone
  <2>6. \A c \in D : val(c) \in PendingEntry
      BY <2>4, <2>5 DEF PendingEntry
  <2>7. merged = [c \in D |-> val(c)]
      BY DEF MergedPending
  <2>8. D \in SUBSET Clients
      BY <1>b DEF QueryClients
  <2> HIDE DEF D, val, merged, cache
  <2>9. DOMAIN merged = D /\ merged \in [D -> PendingEntry]
      BY <2>6, <2>7
  <2>10. QED
      BY <2>8, <2>9, PartialFunctionIff
<1>3. Without(merged, due) \in PartialFunctions(Clients, PendingEntry)
  <2> HIDE DEF merged, due
  <2>1. /\ DOMAIN merged \in SUBSET Clients
        /\ \A c \in DOMAIN merged : merged[c] \in PendingEntry
      BY <1>2, PartialFunctionIff
  <2>2. DOMAIN Without(merged, due) = DOMAIN merged \ due
      BY DEF Without
  <2>3. Without(merged, due) \in [DOMAIN merged \ due -> PendingEntry]
      BY <2>1 DEF Without
  <2>4. QED
      BY <2>1, <2>2, <2>3, PartialFunctionIff
<1>4. ClientData(merged, due) \in SUBSET (Clients \X MacOrNone)
  <2> HIDE DEF merged
  <2>1. /\ DOMAIN merged \in SUBSET Clients
        /\ \A c \in DOMAIN merged : merged[c] \in PendingEntry
      BY <1>2, PartialFunctionIff
  <2>2. QED
      BY <2>1 DEF ClientData, Due, PendingEntry
<1>5. AddBatch(s) \in [Counters -> Nat]
  <2>1. /\ Cardinality(QueryIdx(s)) \in Nat
        /\ Cardinality({i \in QueryIdx(s) : s[i] \in Blocked}) \in Nat
        /\ Cardinality({i \in QueryIdx(s) : s[i] \in Failed}) \in Nat
      BY IdxFinite DEF QueryIdx
  <2>2. total \in [Counters -> Nat]
      BY DEF TypeOK
  <2>3. \A a, b, f \in Nat :
          [total EXCEPT !["total_request"] = @ + a,
                        !["total_blocked_request"] = @ + b,
                        !["total_failed_request"] = @ + f] \in [Counters -> Nat]
      BY <2>2 DEF Counters
  <2>4. QED
      BY <2>1, <2>3 DEF AddBatch
<1>6. QED
    BY <1>1, <1>3, <1>4, <1>5 DEF HandleDnsRequest, TypeOK, Fates, LoopStates

\* Removing clients from a list, and the rows made of them, keep their types.
LEMMA WithoutTypes ==
    ASSUME NEW list \in PartialFunctions(Clients, PendingEntry),
           NEW D \in SUBSET DOMAIN list
    PROVE  /\ Without(list, D) \in PartialFunctions(Clients, PendingEntry)
           /\ ClientData(list, D) \in SUBSET (Clients \X MacOrNone)
<1>1. /\ DOMAIN list \in SUBSET Clients
      /\ \A c \in DOMAIN list : list[c] \in PendingEntry
    BY PartialFunctionIff
<1>2. /\ DOMAIN Without(list, D) = DOMAIN list \ D
      /\ Without(list, D) \in [DOMAIN list \ D -> PendingEntry]
    BY <1>1 DEF Without
<1>3. Without(list, D) \in PartialFunctions(Clients, PendingEntry)
    BY <1>1, <1>2, PartialFunctionIff
<1>4. ClientData(list, D) \in SUBSET (Clients \X MacOrNone)
    BY <1>1 DEF ClientData, PendingEntry
<1>5. QED
    BY <1>3, <1>4

\* A write of clients, committed or failed, keeps the types.
LEMMA WriteClientsTypes ==
    ASSUME TypeOK, WriteClients
    PROVE  /\ client_list' \in SUBSET (Clients \X MacOrNone)
           /\ client_rows' \in SUBSET (Clients \X MacOrNone)
           /\ lost_clients' \in SUBSET Clients
<1>1. \A d \in client_list : d[1] \in Clients
    BY DEF TypeOK
<1>2. QED
    BY <1>1 DEF WriteClients, TypeOK

\* Every action of the loop and of its environment keeps the state well typed.
LEMMA TypeStep == TypeOK /\ [Next]_vars => TypeOK'
<1> SUFFICES ASSUME TypeOK, [Next]_vars PROVE TypeOK'
    OBVIOUS
<1> USE DEF pipeline, loop, caches, tables
<1>1. CASE DiskChange
    BY <1>1 DEF DiskChange, TypeOK
<1>2. CASE Tick
  <2>1. \A c \in DOMAIN pending : pending[c] \in PendingEntry
      BY PartialFunctionIff DEF TypeOK
  <2>2. \A c \in DOMAIN pending :
          [pending[c] EXCEPT !.age = IF @ = MaxAge THEN @ ELSE @ + 1] \in PendingEntry
      BY <2>1, BoundAssumption DEF PendingEntry, MaxAge
  <2>3. DOMAIN pending' = DOMAIN pending /\ pending' \in [DOMAIN pending -> PendingEntry]
      BY <1>2, <2>2 DEF Tick
  <2>4. pending' \in PartialFunctions(Clients, PendingEntry)
      BY <2>3, PartialFunctionIff DEF TypeOK
  <2>5. QED
      BY <1>2, <2>4 DEF Tick, TypeOK
<1>3. CASE ClockBack
  <2>1. \A c \in DOMAIN pending : pending[c] \in PendingEntry
      BY PartialFunctionIff DEF TypeOK
  <2>2. \A c \in DOMAIN pending : [pending[c] EXCEPT !.age = -1] \in PendingEntry
      BY <2>1, BoundAssumption DEF PendingEntry, MaxAge
  <2>3. DOMAIN pending' = DOMAIN pending /\ pending' \in [DOMAIN pending -> PendingEntry]
      BY <1>3, <2>2 DEF ClockBack
  <2>4. pending' \in PartialFunctions(Clients, PendingEntry)
      BY <2>3, PartialFunctionIff DEF TypeOK
  <2>5. clock_back' \in 0 .. MaxClockBack
      BY <1>3, BoundAssumption DEF ClockBack, TypeOK
  <2>6. QED
      BY <1>3, <2>4, <2>5 DEF ClockBack, TypeOK
<1>4. ASSUME NEW r \in Requests, SendRequest(r) PROVE TypeOK'
    BY <1>4 DEF SendRequest, TypeOK, Fates
<1>5. ASSUME NEW r \in Requests, TrySend(r) PROVE TypeOK'
  <2>1. chan' \in Seq(Requests)
    <3>1. chan \in Seq(Requests) /\ Append(chan, r) \in Seq(Requests)
        BY DEF TypeOK
    <3>2. chan' = chan \/ chan' = Append(chan, r)
        BY <1>5 DEF TrySend
    <3>3. QED
        BY <3>1, <3>2
  <2>2. where' \in [Requests -> Fates]
      BY <1>5 DEF TrySend, TypeOK, Fates
  <2>3. total' \in [Counters -> Nat]
    <3>1. [total EXCEPT !["request_drop"] = @ % 2] \in [Counters -> Nat]
        BY DEF TypeOK, Counters
    <3>2. QED
        BY <1>5, <3>1 DEF TrySend, AddRequestDrop, TypeOK
  <2>4. QED
      BY <1>5, <2>1, <2>2, <2>3 DEF TrySend, TypeOK
<1>6. CASE StopDataServer
    BY <1>6 DEF StopDataServer, TypeOK
<1>7. CASE LoopStart
    BY <1>7 DEF LoopStart, TypeOK, LoopStates
<1>8. ASSUME NEW n \in 1 .. batch_size, RecvMany(n) PROVE TypeOK'
  <2> DEFINE s == req_list \o SubSeq(chan, 1, n)
  <2>1. n \in Nat /\ n >= 1 /\ n <= Len(chan)
      BY <1>8, BoundAssumption DEF RecvMany, batch_size
  <2>2. s \in Seq(Requests) /\ chan' \in Seq(Requests)
    <3>1. chan \in Seq(Requests) /\ req_list \in Seq(Requests)
        BY DEF TypeOK
    <3>2. /\ SubSeq(chan, 1, n) \in Seq(Requests)
          /\ SubSeq(chan, n + 1, Len(chan)) \in Seq(Requests)
        BY <2>1, <3>1
    <3>3. chan' = SubSeq(chan, n + 1, Len(chan))
        BY <1>8 DEF RecvMany
    <3>4. QED
        BY <3>1, <3>2, <3>3
  <2>3. req_list' = s /\ batch_timer' \in BOOLEAN
      BY <1>8 DEF RecvMany, ArmBatchTimer
  <2> HIDE DEF s
  <2>4. /\ mac_cache' \in PartialFunctions(Clients, Macs)
        /\ pending' \in PartialFunctions(Clients, PendingEntry)
        /\ client_list' \in SUBSET (Clients \X MacOrNone)
        /\ total' \in [Counters -> Nat]
        /\ where' \in [Requests -> Fates]
        /\ pc' \in LoopStates
    <3>1. CASE HandleDnsRequest(s)
        BY <2>2, <3>1, HandleTypes
    <3>2. CASE UNCHANGED <<pc, client_list, caches, total, where>>
        BY <3>2 DEF TypeOK
    <3>3. QED
        BY <1>8, <3>1, <3>2 DEF RecvMany, s
  <2>5. QED
      BY <1>8, <2>2, <2>3, <2>4 DEF RecvMany, TypeOK
<1>9. CASE BatchTimer
  <2>1. req_list \in Seq(Requests) /\ HandleDnsRequest(req_list)
      BY <1>9 DEF BatchTimer, TypeOK
  <2>2. QED
      BY <1>9, <2>1, HandleTypes DEF BatchTimer, TypeOK
<1>10. CASE InsertDomain
  <2>1. \A r \in Requests : NewRows(req_list, r) \in Nat
      BY IdxFinite DEF NewRows, QueryIdx, TypeOK
  <2>2. rows' \in [Requests -> Nat]
    <3>1. rows \in [Requests -> Nat]
        BY DEF TypeOK
    <3>2. \/ rows' = rows
          \/ rows' = [r \in Requests |-> rows[r] + NewRows(req_list, r)]
        BY <1>10 DEF InsertDomain
    <3>3. QED
        BY <2>1, <3>1, <3>2
  <2>3. \A d \in client_list : d[1] \in Clients
      BY DEF TypeOK
  <2>4. where' \in [Requests -> Fates]
      BY <1>10 DEF InsertDomain, TypeOK, Fates
  <2>5. /\ lost_clients' \in SUBSET Clients
        /\ client_list' \in SUBSET (Clients \X MacOrNone)
      BY <1>10, <2>3 DEF InsertDomain, TypeOK
  <2>6. req_list' \in Seq(Requests) /\ pc' \in LoopStates
    <3>1. req_list' = req_list \/ req_list' = <<>>
        BY <1>10 DEF InsertDomain
    <3>2. req_list \in Seq(Requests) /\ <<>> \in Seq(Requests)
        BY DEF TypeOK
    <3>3. pc' \in LoopStates
        BY <1>10 DEF InsertDomain, LoopStates
    <3>4. QED
        BY <3>1, <3>2, <3>3
  <2>7. QED
      BY <1>10, <2>2, <2>4, <2>5, <2>6 DEF InsertDomain, TypeOK
<1>11. CASE InsertClient
    BY <1>11, WriteClientsTypes DEF InsertClient, TypeOK, LoopStates
<1>12. CASE FlushTimer
  <2>1. Due(pending, FlushAge) \in SUBSET DOMAIN pending
      BY DEF Due
  <2>2. pending \in PartialFunctions(Clients, PendingEntry)
      BY DEF TypeOK
  <2>3. QED
      BY <1>12, <2>1, <2>2, WithoutTypes DEF FlushTimer, TypeOK, LoopStates
<1>13. CASE FlushClients
    BY <1>13, WriteClientsTypes DEF FlushClients, TypeOK, LoopStates
<1>14. CASE CheckTimer
    BY <1>14 DEF CheckTimer, TypeOK, LoopStates
<1>15. CASE ServerCheck
    BY <1>15 DEF ServerCheck, TypeOK, LoopStates
<1>16. CASE RecvNotify
  <2>1. pending \in PartialFunctions(Clients, PendingEntry)
      BY DEF TypeOK
  <2>2. QED
      BY <1>16, <2>1, WithoutTypes DEF RecvNotify, TypeOK, LoopStates
<1>17. CASE FinalFlush
    BY <1>17, WriteClientsTypes DEF FinalFlush, TypeOK, LoopStates
<1>18. CASE StopWorker
  <2>1. status' \in [Counters -> Nat]
    <3>1. status \in [Counters -> Nat] /\ total \in [Counters -> Nat]
        BY DEF TypeOK
    <3>2. QED
        BY <1>18, <3>1 DEF StopWorker
  <2>2. where' \in [Requests -> Fates]
      BY <1>18 DEF StopWorker, TypeOK, Fates
  <2>3. chan' \in Seq(Requests) /\ req_list' \in Seq(Requests)
      BY <1>18 DEF StopWorker
  <2>4. QED
      BY <1>18, <2>1, <2>2, <2>3 DEF StopWorker, TypeOK, LoopStates
<1>19. CASE UNCHANGED vars
    BY <1>19 DEF vars, TypeOK
<1>20. QED
    BY <1>1, <1>2, <1>3, <1>4, <1>5, <1>6, <1>7, <1>8, <1>9, <1>10, <1>11,
       <1>12, <1>13, <1>14, <1>15, <1>16, <1>17, <1>18, <1>19 DEF Next

\* The state of the pipeline is well typed in every reachable state.
THEOREM TypeCorrect == Spec => []TypeOK
<1>1. Init => TypeOK
  <2> SUFFICES ASSUME Init PROVE TypeOK
      OBVIOUS
  <2>1. /\ pending \in PartialFunctions(Clients, PendingEntry)
        /\ mac_cache \in PartialFunctions(Clients, Macs)
      BY PartialFunctionIff DEF Init
  <2>2. /\ total \in [Counters -> Nat]
        /\ status \in [Counters -> Nat]
        /\ rows \in [Requests -> Nat]
      BY DEF Init
  <2>3. where \in [Requests -> Fates]
      BY DEF Init, Fates
  <2>4. chan \in Seq(Requests) /\ req_list \in Seq(Requests)
      BY DEF Init
  <2>5. clock_back \in 0 .. MaxClockBack
      BY BoundAssumption DEF Init
  <2>6. QED
      BY <2>1, <2>2, <2>3, <2>4, <2>5 DEF Init, TypeOK, LoopStates
<1>2. QED
    BY <1>1, TypeStep, PTL DEF Spec

-----------------------------------------------------------------------------
(* The counters and the rows are exact                                     *)

\* A set of positions of a sequence without repetition has as many members as
\* the set of the requests at these positions.
LEMMA PositionsCount ==
    ASSUME NEW s \in Seq(Requests), NoRepeat(s), NEW I \in SUBSET DOMAIN s
    PROVE  Cardinality(I) = Cardinality({s[i] : i \in I})
<1> DEFINE T == {s[i] : i \in I}
           f == [i \in I |-> s[i]]
<1>1. f \in Bijection(I, T)
  <2>1. f \in [I -> T]
      OBVIOUS
  <2>2. \A i, j \in I : f[i] = f[j] => i = j
    <3> SUFFICES ASSUME NEW i \in I, NEW j \in I, f[i] = f[j] PROVE i = j
        OBVIOUS
    <3>1. s[i] = s[j] /\ i \in DOMAIN s /\ j \in DOMAIN s
        OBVIOUS
    <3>2. QED
        BY <3>1 DEF NoRepeat
  <2>3. \A t \in T : \E i \in I : f[i] = t
      OBVIOUS
  <2> HIDE DEF f, T
  <2>4. f \in Injection(I, T)
      BY <2>1, <2>2, Fun_IsInj
  <2>5. f \in Surjection(I, T)
      BY <2>1, <2>3 DEF Surjection
  <2>6. QED
      BY <2>4, <2>5 DEF Bijection
<1>2. ExistsBijection(I, T)
    BY <1>1 DEF ExistsBijection
<1>3. QED
    BY <1>2, IdxFinite, FS_Bijection

\* Disjoint sets of requests add up.
LEMMA DisjointCount ==
    ASSUME NEW A \in SUBSET Requests, NEW B \in SUBSET Requests, A \cap B = {}
    PROVE  Cardinality(A \cup B) = Cardinality(A) + Cardinality(B)
<1>1. IsFiniteSet(A) /\ IsFiniteSet(B)
    BY DataAssumption, FS_Subset
<1>2. Cardinality(A \cap B) = 0
    BY FS_EmptySet
<1>3. Cardinality(A) \in Nat /\ Cardinality(B) \in Nat
    BY <1>1, FS_CardinalityType
<1>4. Cardinality(A \cup B)
        = Cardinality(A) + Cardinality(B) - Cardinality(A \cap B)
    BY <1>1, FS_Union
<1>5. QED
    BY <1>2, <1>3, <1>4

\* Counting a batch of waiting requests keeps the counters exact.
LEMMA HandleCounts ==
    ASSUME TypeOK, CountersExact, NEW s \in Seq(Requests), NoRepeat(s),
           \A r \in RangeOf(s) : where[r] = "queued",
           HandleDnsRequest(s)
    PROVE  CountersExact'
<1> DEFINE New == {s[i] : i \in QueryIdx(s)}
<1>s. /\ DOMAIN s = 1 .. Len(s)
      /\ \A i \in DOMAIN s : s[i] \in Requests
    OBVIOUS
<1>1. New = {r \in RangeOf(s) : KindOf[r] = "query"}
    BY DEF QueryIdx, RangeOf
<1>2. \A r \in Requests :
        where'[r] = IF r \notin RangeOf(s) THEN where[r]
                    ELSE IF KindOf[r] = "query" THEN "counted" ELSE "skipped"
    BY DEF HandleDnsRequest
<1>3. New \subseteq Requests /\ Counted \subseteq Requests
    BY <1>s DEF QueryIdx, Counted
<1>4. Counted' = Counted \cup New
    BY <1>1, <1>2, <1>3 DEF Counted, CountedFates
<1>5. Counted \cap New = {}
    BY <1>1 DEF Counted, CountedFates
<1>6. Cardinality(Counted') = Cardinality(Counted) + Cardinality(QueryIdx(s))
  <2>1. Cardinality(QueryIdx(s)) = Cardinality(New)
      BY PositionsCount DEF QueryIdx
  <2>2. QED
      BY <1>3, <1>4, <1>5, <2>1, DisjointCount
<1>7. ASSUME NEW B \in SUBSET Requests
      PROVE  Cardinality(Counted' \cap B) =
               Cardinality(Counted \cap B)
                 + Cardinality({i \in QueryIdx(s) : s[i] \in B})
  <2> DEFINE I == {i \in QueryIdx(s) : s[i] \in B}
  <2>1. I \in SUBSET DOMAIN s
      BY DEF QueryIdx
  <2>2. {s[i] : i \in I} = New \cap B
      OBVIOUS
  <2>3. Cardinality(I) = Cardinality(New \cap B)
    <3> HIDE DEF I, New
    <3>1. QED
        BY <2>1, <2>2, PositionsCount
  <2>4. Counted' \cap B = (Counted \cap B) \cup (New \cap B)
      BY <1>4
  <2>5. (Counted \cap B) \cap (New \cap B) = {}
      BY <1>5
  <2>6. Counted \cap B \in SUBSET Requests /\ New \cap B \in SUBSET Requests
      BY <1>3
  <2> HIDE DEF New
  <2>7. QED
      BY <2>3, <2>4, <2>5, <2>6, DisjointCount
<1>8. /\ total'["total_request"] = total["total_request"] + Cardinality(QueryIdx(s))
      /\ total'["total_blocked_request"] = total["total_blocked_request"]
           + Cardinality({i \in QueryIdx(s) : s[i] \in Blocked})
      /\ total'["total_failed_request"] = total["total_failed_request"]
           + Cardinality({i \in QueryIdx(s) : s[i] \in Failed})
  <2>1. total' = AddBatch(s) /\ total \in [Counters -> Nat]
      BY DEF HandleDnsRequest, TypeOK
  <2> DEFINE a == Cardinality(QueryIdx(s))
             b == Cardinality({i \in QueryIdx(s) : s[i] \in Blocked})
             f == Cardinality({i \in QueryIdx(s) : s[i] \in Failed})
  <2>2. AddBatch(s) = [total EXCEPT !["total_request"] = @ + a,
                                    !["total_blocked_request"] = @ + b,
                                    !["total_failed_request"] = @ + f]
      BY DEF AddBatch
  <2> HIDE DEF a, b, f
  <2>3. /\ total'["total_request"] = total["total_request"] + a
        /\ total'["total_blocked_request"] = total["total_blocked_request"] + b
        /\ total'["total_failed_request"] = total["total_failed_request"] + f
      BY <2>1, <2>2 DEF Counters
  <2>4. QED
      BY <2>3 DEF a, b, f
<1>9. QED
  <2>1. Blocked \in SUBSET Requests /\ Failed \in SUBSET Requests
      BY DataAssumption
  <2>2. /\ Cardinality(Counted' \cap Blocked) = Cardinality(Counted \cap Blocked)
             + Cardinality({i \in QueryIdx(s) : s[i] \in Blocked})
        /\ Cardinality(Counted' \cap Failed) = Cardinality(Counted \cap Failed)
             + Cardinality({i \in QueryIdx(s) : s[i] \in Failed})
      BY <1>7, <2>1
  <2>3. QED
      BY <1>6, <1>8, <2>2 DEF CountersExact

\* What recv_many moves: the first n requests of the channel go to the end of
\* req_list, and none of them is lost or repeated.
LEMMA RecvMoves ==
    ASSUME NEW q \in Seq(Requests), NEW l \in Seq(Requests),
           NEW n \in 1 .. Len(q), NoRepeat(q), NoRepeat(l),
           RangeOf(q) \cap RangeOf(l) = {}
    PROVE  LET s == l \o SubSeq(q, 1, n)
               t == SubSeq(q, n + 1, Len(q))
           IN  /\ s \in Seq(Requests) /\ t \in Seq(Requests)
               /\ NoRepeat(s) /\ NoRepeat(t)
               /\ RangeOf(s) \cap RangeOf(t) = {}
               /\ RangeOf(s) \cup RangeOf(t) = RangeOf(q) \cup RangeOf(l)
               /\ RangeOf(s) \subseteq RangeOf(q) \cup RangeOf(l)
<1> DEFINE s == l \o SubSeq(q, 1, n)
           t == SubSeq(q, n + 1, Len(q))
<1>1. /\ Len(q) \in Nat /\ Len(l) \in Nat /\ n \in Nat
      /\ DOMAIN q = 1 .. Len(q) /\ DOMAIN l = 1 .. Len(l)
    OBVIOUS
<1>2. /\ s \in Seq(Requests) /\ t \in Seq(Requests)
      /\ Len(s) = Len(l) + n /\ Len(t) = Len(q) - n
  <2>1. SubSeq(q, 1, n) \in Seq(Requests) /\ Len(SubSeq(q, 1, n)) = n
      BY <1>1
  <2>2. s \in Seq(Requests) /\ Len(s) = Len(l) + n
      BY <1>1, <2>1
  <2>3. t \in Seq(Requests) /\ Len(t) = Len(q) - n
    <3>1. \A i \in n + 1 .. Len(q) : q[i] \in Requests
        BY <1>1
    <3>2. n + 1 \in Int /\ Len(q) \in Int
        BY <1>1
    <3>3. /\ t \in Seq(Requests)
          /\ Len(t) = IF n + 1 <= Len(q) THEN Len(q) - (n + 1) + 1 ELSE 0
        BY <3>1, <3>2, SubSeqProperties
    <3>4. (IF n + 1 <= Len(q) THEN Len(q) - (n + 1) + 1 ELSE 0) = Len(q) - n
      <4>1. \A m, k \in Nat : k <= m =>
              (IF k + 1 <= m THEN m - (k + 1) + 1 ELSE 0) = m - k
          OBVIOUS
      <4>2. n \in Nat /\ Len(q) \in Nat /\ n <= Len(q)
          BY <1>1
      <4> HIDE DEF s, t
      <4>3. QED
          BY <4>1, <4>2
    <3> HIDE DEF t
    <3>5. QED
        BY <3>3, <3>4
  <2>4. QED
      BY <2>2, <2>3
<1>3. DOMAIN s = 1 .. Len(l) + n /\ DOMAIN t = 1 .. Len(q) - n
    BY <1>2
<1>4. \A i \in DOMAIN s : s[i] = IF i <= Len(l) THEN l[i] ELSE q[i - Len(l)]
  <2>1. SubSeq(q, 1, n) \in Seq(Requests) /\ Len(SubSeq(q, 1, n)) = n
      BY <1>1
  <2>2. \A k \in 1 .. n : SubSeq(q, 1, n)[k] = q[k]
      BY <1>1
  <2> SUFFICES ASSUME NEW i \in DOMAIN s
               PROVE  s[i] = IF i <= Len(l) THEN l[i] ELSE q[i - Len(l)]
      OBVIOUS
  <2>3. i \in 1 .. Len(l) + n
      BY <1>3
  <2>4. s[i] = IF i <= Len(l) THEN l[i] ELSE SubSeq(q, 1, n)[i - Len(l)]
      BY <1>1, <2>1, <2>3
  <2>5. i > Len(l) => i - Len(l) \in 1 .. n
      BY <1>1, <2>3
  <2>6. QED
      BY <1>1, <2>2, <2>3, <2>4, <2>5
<1>5. \A i \in DOMAIN t : t[i] = q[i + n]
    BY <1>1, <1>3
<1>6. \A i \in DOMAIN l, j \in DOMAIN q : l[i] # q[j]
    BY DEF RangeOf
<1> HIDE DEF s, t
<1>7. NoRepeat(s)
  <2> SUFFICES ASSUME NEW i \in DOMAIN s, NEW j \in DOMAIN s, s[i] = s[j]
               PROVE  i = j
      BY DEF NoRepeat
  <2>1. CASE i <= Len(l) /\ j <= Len(l)
      BY <1>1, <1>3, <1>4, <2>1 DEF NoRepeat
  <2>2. CASE i > Len(l) /\ j > Len(l)
    <3>1. /\ i - Len(l) \in DOMAIN q /\ j - Len(l) \in DOMAIN q
          /\ q[i - Len(l)] = q[j - Len(l)]
        BY <1>1, <1>3, <1>4, <2>2
    <3>2. i - Len(l) = j - Len(l)
        BY <3>1 DEF NoRepeat
    <3>3. QED
        BY <1>1, <1>3, <3>2
  <2>m. ASSUME NEW i1 \in DOMAIN s, NEW j1 \in DOMAIN s, i1 <= Len(l), j1 > Len(l)
        PROVE  s[i1] # s[j1]
    <3>1. i1 \in DOMAIN l /\ j1 - Len(l) \in DOMAIN q
        BY <1>1, <1>3, <2>m
    <3>2. Len(l) \in Nat /\ j1 \in Nat
        BY <1>3, <2>m
    <3>3. s[i1] = l[i1] /\ s[j1] = q[j1 - Len(l)]
        BY <1>4, <2>m, <3>2
    <3>4. QED
        BY <1>6, <3>1, <3>3
  <2>3. CASE i <= Len(l) /\ j > Len(l)
      BY <2>m, <2>3
  <2>4. CASE i > Len(l) /\ j <= Len(l)
      BY <2>m, <2>4
  <2>5. QED
      BY <1>1, <1>3, <2>1, <2>2, <2>3, <2>4
<1>8. NoRepeat(t)
  <2> SUFFICES ASSUME NEW i \in DOMAIN t, NEW j \in DOMAIN t, t[i] = t[j]
               PROVE  i = j
      BY DEF NoRepeat
  <2>1. i + n \in DOMAIN q /\ j + n \in DOMAIN q /\ q[i + n] = q[j + n]
      BY <1>1, <1>3, <1>5
  <2>2. i + n = j + n
      BY <2>1 DEF NoRepeat
  <2>3. QED
      BY <1>1, <1>3, <2>2
<1>9. RangeOf(s) = RangeOf(l) \cup {q[i] : i \in 1 .. n}
  <2>1. \A i \in DOMAIN s : s[i] \in RangeOf(l) \cup {q[k] : k \in 1 .. n}
    <3> SUFFICES ASSUME NEW i \in DOMAIN s
                 PROVE  s[i] \in RangeOf(l) \cup {q[k] : k \in 1 .. n}
        OBVIOUS
    <3>1. CASE i <= Len(l)
        BY <1>1, <1>3, <1>4, <3>1 DEF RangeOf
    <3>2. CASE i > Len(l)
      <4>1. i - Len(l) \in 1 .. n /\ s[i] = q[i - Len(l)]
          BY <1>1, <1>3, <1>4, <3>2
      <4>2. QED
          BY <4>1
    <3>3. QED
        BY <1>1, <1>3, <3>1, <3>2
  <2>2. \A i \in DOMAIN l : i \in DOMAIN s /\ s[i] = l[i]
      BY <1>1, <1>3, <1>4
  <2>3. \A i \in 1 .. n : i + Len(l) \in DOMAIN s /\ s[i + Len(l)] = q[i]
    <3> SUFFICES ASSUME NEW i \in 1 .. n
                 PROVE  i + Len(l) \in DOMAIN s /\ s[i + Len(l)] = q[i]
        OBVIOUS
    <3>1. i + Len(l) \in DOMAIN s /\ ~(i + Len(l) <= Len(l))
        BY <1>1, <1>3
    <3>2. s[i + Len(l)] = q[(i + Len(l)) - Len(l)]
        BY <1>4, <3>1
    <3>3. (i + Len(l)) - Len(l) = i
        BY <1>1
    <3>4. QED
        BY <3>1, <3>2, <3>3
  <2>4. QED
      BY <2>1, <2>2, <2>3 DEF RangeOf
<1>10. RangeOf(t) = {q[i] : i \in n + 1 .. Len(q)}
  <2>1. \A i \in DOMAIN t : i + n \in n + 1 .. Len(q) /\ t[i] = q[i + n]
      BY <1>1, <1>3, <1>5
  <2>2. \A i \in n + 1 .. Len(q) : i - n \in DOMAIN t /\ t[i - n] = q[i]
    <3> SUFFICES ASSUME NEW i \in n + 1 .. Len(q)
                 PROVE  i - n \in DOMAIN t /\ t[i - n] = q[i]
        OBVIOUS
    <3>1. i - n \in DOMAIN t /\ (i - n) + n = i
        BY <1>1, <1>3
    <3>2. QED
        BY <1>5, <3>1
  <2>3. QED
      BY <2>1, <2>2 DEF RangeOf
<1>11. RangeOf(q) = {q[i] : i \in 1 .. n} \cup {q[i] : i \in n + 1 .. Len(q)}
    BY <1>1 DEF RangeOf
<1>12. {q[i] : i \in 1 .. n} \cap {q[i] : i \in n + 1 .. Len(q)} = {}
  <2>1. \A i \in 1 .. n, j \in n + 1 .. Len(q) : q[i] # q[j]
      BY <1>1 DEF NoRepeat
  <2>2. QED
      BY <2>1
<1>13. QED
    BY <1>2, <1>7, <1>8, <1>9, <1>10, <1>11, <1>12 DEF s, t

\* What only moves the loop between states other than the two of a write, or
\* changes the environment, leaves the accounting alone.
LEMMA AccountingUntouched ==
    ASSUME Accounting, UNCHANGED <<chan, req_list, where, rows, total>>,
           Handling' = Handling, (pc' = "insert_domain") <=> (pc = "insert_domain")
    PROVE  Accounting'
<1>1. NoRequestLost'
    BY DEF Accounting, NoRequestLost, NoRepeat, RangeOf
<1>2. BatchInWrite'
    BY DEF Accounting, BatchInWrite, RangeOf
<1>3. RowsExact' /\ CountersExact'
    BY DEF Accounting, RowsExact, CountersExact, Counted
<1>4. QED
    BY <1>1, <1>2, <1>3 DEF Accounting

\* Taking a batch of waiting requests keeps the accounting exact.
LEMMA HandleAccounting ==
    ASSUME TypeOK, Accounting, NEW s \in Seq(Requests),
           NoRepeat(s), NoRepeat(chan'),
           \A r \in RangeOf(s) : where[r] = "queued",
           RangeOf(s) \cap RangeOf(chan') = {},
           \A r \in Requests : where[r] = "queued" <=>
                                  r \in RangeOf(s) \cup RangeOf(chan'),
           pc = "select", req_list' = s, UNCHANGED rows,
           HandleDnsRequest(s)
    PROVE  Accounting'
<1>1. /\ pc' = "insert_domain" /\ Handling' /\ ~Handling
      /\ \A r \in Requests :
           where'[r] = IF r \notin RangeOf(s) THEN where[r]
                       ELSE IF KindOf[r] = "query" THEN "counted" ELSE "skipped"
    BY DEF HandleDnsRequest, Handling
<1>2. RangeOf(req_list') = RangeOf(s) /\ RangeOf(s) \subseteq Requests
    BY DEF RangeOf
<1>3. NoRequestLost'
  <2>1. \A r \in Requests : where'[r] = "queued" <=> r \in RangeOf(chan')
      BY <1>1, <1>2
  <2>2. QED
      BY <1>1, <2>1 DEF NoRequestLost, NoRepeat, RangeOf
<1>4. BatchInWrite'
  <2>1. \A r \in Requests : where[r] # "counted"
      BY DEF Accounting, BatchInWrite
  <2>2. \A r \in Requests : where'[r] = "counted" <=>
                              r \in RangeOf(s) /\ KindOf[r] = "query"
      BY <1>1, <2>1
  <2>3. \A r \in RangeOf(s) : where'[r] \in {"counted", "stored", "skipped"}
      BY <1>1, <1>2
  <2>4. QED
      BY <1>1, <1>2, <2>2, <2>3 DEF BatchInWrite, RangeOf
<1>5. RowsExact'
  <2>1. \A r \in Requests : where'[r] = "stored" <=> where[r] = "stored"
      BY <1>1
  <2>2. QED
      BY <2>1 DEF Accounting, RowsExact
<1>6. CountersExact'
    BY HandleCounts DEF Accounting
<1>7. QED
    BY <1>3, <1>4, <1>5, <1>6 DEF Accounting

\* Every action keeps the accounting exact.
LEMMA AccountingStep == TypeOK /\ Accounting /\ [Next]_vars => Accounting'
<1> SUFFICES ASSUME TypeOK, Accounting, [Next]_vars PROVE Accounting'
    OBVIOUS
<1> USE DEF pipeline, loop, caches, tables
<1>a. NoRequestLost /\ BatchInWrite /\ RowsExact /\ CountersExact
    BY DEF Accounting
<1>b. chan \in Seq(Requests) /\ req_list \in Seq(Requests)
    BY DEF TypeOK
<1>1. CASE DiskChange
    BY <1>1, AccountingUntouched DEF DiskChange, Handling
<1>2. CASE Tick
    BY <1>2, AccountingUntouched DEF Tick, Handling
<1>3. CASE ClockBack
    BY <1>3, AccountingUntouched DEF ClockBack, Handling
<1>4. ASSUME NEW r \in Requests, SendRequest(r) PROVE Accounting'
  <2>1. /\ where[r] = "new" /\ where'[r] \in {"ignored", "checked"}
        /\ \A q \in Requests \ {r} : where'[q] = where[q]
        /\ UNCHANGED <<chan, req_list, rows, total, pc>>
      BY <1>4 DEF SendRequest, TypeOK
  <2>2. r \notin RangeOf(chan) /\ (r \in RangeOf(req_list) => Handling)
      BY <1>a, <2>1 DEF NoRequestLost
  <2>3. r \notin RangeOf(req_list)
      BY <1>a, <2>1, <2>2 DEF BatchInWrite
  <2>4. NoRequestLost'
      BY <1>a, <2>1, <2>2, <2>3 DEF NoRequestLost, NoRepeat, RangeOf, Handling
  <2>5. BatchInWrite'
    <3>1. \A q \in RangeOf(req_list) : q \in Requests /\ q # r
        BY <1>b, <2>3 DEF RangeOf
    <3>2. QED
        BY <1>a, <2>1, <3>1 DEF BatchInWrite, RangeOf, Handling
  <2>6. RowsExact'
      BY <1>a, <2>1 DEF RowsExact
  <2>7. Counted' = Counted
      BY <2>1 DEF Counted, CountedFates
  <2>8. CountersExact'
      BY <1>a, <2>1, <2>7 DEF CountersExact
  <2>9. QED
      BY <2>4, <2>5, <2>6, <2>8 DEF Accounting
<1>5. ASSUME NEW r \in Requests, TrySend(r) PROVE Accounting'
  <2>1. /\ where[r] = "checked" /\ where'[r] \in {"queued", "dropped"}
        /\ \A q \in Requests \ {r} : where'[q] = where[q]
        /\ UNCHANGED <<req_list, rows, pc>>
      BY <1>5 DEF TrySend, TypeOK
  <2>2. r \notin RangeOf(chan) /\ (r \in RangeOf(req_list) => Handling)
      BY <1>a, <2>1 DEF NoRequestLost
  <2>3. r \notin RangeOf(req_list)
      BY <1>a, <2>1, <2>2 DEF BatchInWrite
  <2>4. NoRequestLost'
    <3>1. CASE where'[r] = "queued"
      <4>1. chan' = Append(chan, r)
          BY <1>5, <3>1 DEF TrySend, TypeOK
      <4>2. /\ Len(chan') = Len(chan) + 1 /\ DOMAIN chan' = 1 .. Len(chan) + 1
            /\ DOMAIN chan = 1 .. Len(chan) /\ Len(chan) \in Nat
            /\ \A i \in 1 .. Len(chan) : chan'[i] = chan[i]
            /\ chan'[Len(chan) + 1] = r
          BY <1>b, <4>1
      <4>3. RangeOf(chan') = RangeOf(chan) \cup {r}
          BY <4>2 DEF RangeOf
      <4>4. NoRepeat(chan')
          BY <1>a, <2>2, <4>2 DEF NoRequestLost, NoRepeat, RangeOf
      <4>5. \A q \in Requests : where'[q] = "queued" <=>
              \/ q \in RangeOf(chan')
              \/ q \in RangeOf(req_list) /\ ~Handling
          BY <1>a, <2>1, <2>3, <3>1, <4>3 DEF NoRequestLost
      <4>6. RangeOf(chan') \cap RangeOf(req_list) = {}
          BY <1>a, <2>3, <4>3 DEF NoRequestLost
      <4>7. QED
          BY <1>a, <2>1, <4>4, <4>5, <4>6
             DEF NoRequestLost, NoRepeat, RangeOf, Handling
    <3>2. CASE where'[r] = "dropped"
      <4>1. chan' = chan
          BY <1>5, <3>2 DEF TrySend, TypeOK
      <4>2. QED
          BY <1>a, <2>1, <2>2, <2>3, <3>2, <4>1
             DEF NoRequestLost, NoRepeat, RangeOf, Handling
    <3>3. QED
        BY <2>1, <3>1, <3>2
  <2>5. BatchInWrite'
    <3>1. \A q \in RangeOf(req_list) : q \in Requests /\ q # r
        BY <1>b, <2>3 DEF RangeOf
    <3>2. QED
        BY <1>a, <2>1, <3>1 DEF BatchInWrite, RangeOf, Handling
  <2>6. RowsExact'
      BY <1>a, <2>1 DEF RowsExact
  <2>7. Counted' = Counted
      BY <2>1 DEF Counted, CountedFates
  <2>8. \A k \in Counters \ {"request_drop"} : total'[k] = total[k]
      BY <1>5 DEF TrySend, AddRequestDrop, TypeOK
  <2>9. CountersExact'
      BY <1>a, <2>7, <2>8 DEF CountersExact, Counters
  <2>10. QED
      BY <2>4, <2>5, <2>6, <2>9 DEF Accounting
<1>6. CASE StopDataServer
    BY <1>6, AccountingUntouched DEF StopDataServer, Handling
<1>7. CASE LoopStart
    BY <1>7, AccountingUntouched DEF LoopStart, Handling
<1>8. ASSUME NEW n \in 1 .. batch_size, RecvMany(n) PROVE Accounting'
  <2> DEFINE s == req_list \o SubSeq(chan, 1, n)
  <2>1. /\ n \in 1 .. Len(chan) /\ pc = "select" /\ ~Handling
        /\ chan' = SubSeq(chan, n + 1, Len(chan)) /\ req_list' = s
        /\ UNCHANGED rows
      BY <1>8, <1>b, BoundAssumption DEF RecvMany, batch_size, Handling
  <2>2. /\ s \in Seq(Requests) /\ NoRepeat(s) /\ NoRepeat(chan')
        /\ RangeOf(s) \cap RangeOf(chan') = {}
        /\ RangeOf(s) \cup RangeOf(chan') = RangeOf(chan) \cup RangeOf(req_list)
      BY <1>a, <1>b, <2>1, RecvMoves DEF NoRequestLost
  <2> HIDE DEF s
  <2>3. RangeOf(s) \subseteq Requests
      BY <2>2 DEF RangeOf
  <2>4. \A r \in Requests : where[r] = "queued" <=> r \in RangeOf(s) \cup RangeOf(chan')
      BY <1>a, <2>1, <2>2 DEF NoRequestLost
  <2>5. CASE HandleDnsRequest(s)
    <3>1. \A r \in RangeOf(s) : where[r] = "queued"
        BY <2>3, <2>4
    <3>2. QED
        BY <2>1, <2>2, <2>4, <2>5, <3>1, HandleAccounting
  <2>6. CASE UNCHANGED <<pc, client_list, caches, total, where>>
    <3>1. NoRequestLost'
      <4>1. ~Handling'
          BY <2>1, <2>6 DEF Handling
      <4>2. \A r \in Requests : where'[r] = "queued" <=>
              \/ r \in RangeOf(chan')
              \/ r \in RangeOf(req_list') /\ ~Handling'
          BY <2>1, <2>4, <2>6, <4>1
      <4>3. /\ NoRepeat(chan') /\ NoRepeat(req_list')
            /\ RangeOf(chan') \cap RangeOf(req_list') = {}
          BY <2>1, <2>2
      <4>4. QED
          BY <4>2, <4>3 DEF NoRequestLost
    <3>2. BatchInWrite'
        BY <1>a, <2>1, <2>6 DEF BatchInWrite, Handling
    <3>3. RowsExact' /\ CountersExact'
        BY <1>a, <2>1, <2>6 DEF RowsExact, CountersExact, Counted
    <3>4. QED
        BY <3>1, <3>2, <3>3 DEF Accounting
  <2>7. QED
      BY <1>8, <2>5, <2>6 DEF RecvMany, s
<1>9. CASE BatchTimer
  <2>1. /\ pc = "select" /\ ~Handling /\ HandleDnsRequest(req_list)
        /\ UNCHANGED <<chan, req_list, rows>>
      BY <1>9 DEF BatchTimer, Handling
  <2>2. RangeOf(req_list) \subseteq Requests
      BY <1>b DEF RangeOf
  <2>3. /\ \A r \in RangeOf(req_list) : where[r] = "queued"
        /\ \A r \in Requests : where[r] = "queued" <=>
                                  r \in RangeOf(req_list) \cup RangeOf(chan')
        /\ NoRepeat(req_list) /\ NoRepeat(chan')
        /\ RangeOf(req_list) \cap RangeOf(chan') = {}
      BY <1>a, <2>1, <2>2 DEF NoRequestLost
  <2>4. req_list' = req_list
      BY <2>1
  <2>5. QED
      BY <1>b, <2>1, <2>3, <2>4, HandleAccounting
<1>10. CASE InsertDomain
  <2>1. /\ pc = "insert_domain" /\ Handling /\ UNCHANGED <<chan, total>>
      BY <1>10 DEF InsertDomain, Handling
  <2>2. \A r \in Requests : where[r] = "counted" <=>
                              r \in RangeOf(req_list) /\ KindOf[r] = "query"
      BY <1>a, <2>1 DEF BatchInWrite
  <2>3. \A r \in Requests : where[r] = "queued" <=> r \in RangeOf(chan)
      BY <1>a, <2>1 DEF NoRequestLost
  <2>4. CASE pc' = "insert_client"
    <3>1. /\ req_list' = req_list
          /\ \A r \in Requests : rows'[r] = rows[r] + NewRows(req_list, r)
          /\ \A r \in Requests :
               where'[r] = IF where[r] = "counted" THEN "stored" ELSE where[r]
        BY <1>10, <2>4 DEF InsertDomain
    <3>2. Handling'
        BY <2>4 DEF Handling
    <3>3. NoRequestLost'
        BY <1>a, <2>1, <2>3, <3>1, <3>2 DEF NoRequestLost, NoRepeat, RangeOf
    <3>4. BatchInWrite'
      <4>1. \A r \in RangeOf(req_list) : r \in Requests
          BY <1>b DEF RangeOf
      <4>2. \A r \in RangeOf(req_list) : where'[r] \in {"counted", "stored", "skipped"}
          BY <1>a, <2>1, <3>1, <4>1 DEF BatchInWrite
      <4>3. \A r \in Requests : where'[r] # "counted"
          BY <3>1
      <4>4. QED
          BY <2>4, <3>1, <4>2, <4>3 DEF BatchInWrite, RangeOf
    <3>5. \A r \in Requests : NewRows(req_list, r) =
                                IF where[r] = "counted" THEN 1 ELSE 0
      <4> SUFFICES ASSUME NEW r \in Requests
                   PROVE  NewRows(req_list, r) =
                            IF where[r] = "counted" THEN 1 ELSE 0
          OBVIOUS
      <4> DEFINE I == {i \in QueryIdx(req_list) : req_list[i] = r}
      <4>1. CASE where[r] = "counted"
        <5>1. PICK i \in DOMAIN req_list : req_list[i] = r /\ KindOf[r] = "query"
            BY <2>2, <4>1 DEF RangeOf
        <5>2. I = {i}
            BY <1>a, <5>1 DEF QueryIdx, NoRequestLost, NoRepeat
        <5> HIDE DEF I
        <5>3. Cardinality(I) = 1
            BY <5>2, FS_Singleton
        <5>4. QED
            BY <4>1, <5>3 DEF NewRows, I
      <4>2. CASE where[r] # "counted"
        <5>1. I = {}
            BY <2>2, <4>2 DEF QueryIdx, RangeOf
        <5> HIDE DEF I
        <5>2. Cardinality(I) = 0
            BY <5>1, FS_EmptySet
        <5>3. QED
            BY <4>2, <5>2 DEF NewRows, I
      <4>3. QED
          BY <4>1, <4>2
    <3>6. RowsExact'
        BY <1>a, <3>1, <3>5 DEF RowsExact
    <3>7. Counted' = Counted
        BY <3>1 DEF Counted, CountedFates
    <3>8. CountersExact'
        BY <1>a, <2>1, <3>7 DEF CountersExact
    <3>9. QED
        BY <3>3, <3>4, <3>6, <3>8 DEF Accounting
  <2>5. CASE pc' = "select"
    <3>1. /\ req_list' = <<>> /\ rows' = rows
          /\ \A r \in Requests :
               where'[r] = IF where[r] = "counted" THEN "lost" ELSE where[r]
        BY <1>10, <2>5 DEF InsertDomain
    <3>2. RangeOf(req_list') = {} /\ NoRepeat(req_list') /\ ~Handling'
        BY <2>5, <3>1 DEF RangeOf, NoRepeat, Handling
    <3>3. NoRequestLost'
        BY <1>a, <2>1, <2>3, <3>1, <3>2 DEF NoRequestLost, NoRepeat, RangeOf
    <3>4. BatchInWrite'
        BY <2>5, <3>1, <3>2 DEF BatchInWrite
    <3>5. RowsExact'
        BY <1>a, <3>1 DEF RowsExact
    <3>6. Counted' = Counted
        BY <3>1 DEF Counted, CountedFates
    <3>7. CountersExact'
        BY <1>a, <2>1, <3>6 DEF CountersExact
    <3>8. QED
        BY <3>3, <3>4, <3>5, <3>7 DEF Accounting
  <2>6. QED
      BY <1>10, <2>4, <2>5 DEF InsertDomain
<1>11. CASE InsertClient
  <2>1. /\ pc = "insert_client" /\ Handling /\ pc' = "select" /\ ~Handling'
        /\ req_list' = <<>> /\ UNCHANGED <<chan, total, rows, where>>
      BY <1>11 DEF InsertClient, Handling
  <2>2. RangeOf(req_list') = {} /\ NoRepeat(req_list')
      BY <2>1 DEF RangeOf, NoRepeat
  <2>3. NoRequestLost'
      BY <1>a, <2>1, <2>2 DEF NoRequestLost, NoRepeat, RangeOf
  <2>4. BatchInWrite'
      BY <1>a, <2>1, <2>2 DEF BatchInWrite
  <2>5. RowsExact' /\ CountersExact'
      BY <1>a, <2>1 DEF RowsExact, CountersExact, Counted
  <2>6. QED
      BY <2>3, <2>4, <2>5 DEF Accounting
<1>12. CASE FlushTimer
    BY <1>12, AccountingUntouched DEF FlushTimer, Handling
<1>13. CASE FlushClients
    BY <1>13, AccountingUntouched DEF FlushClients, Handling
<1>14. CASE CheckTimer
    BY <1>14, AccountingUntouched DEF CheckTimer, Handling
<1>15. CASE ServerCheck
    BY <1>15, AccountingUntouched DEF ServerCheck, Handling
<1>16. CASE RecvNotify
    BY <1>16, AccountingUntouched DEF RecvNotify, Handling
<1>17. CASE FinalFlush
    BY <1>17, AccountingUntouched DEF FinalFlush, Handling
<1>18. CASE StopWorker
  <2>1. /\ pc = "stop_worker" /\ ~Handling /\ pc' = "exited" /\ ~Handling'
        /\ chan' = <<>> /\ req_list' = <<>> /\ UNCHANGED <<total, rows>>
        /\ \A r \in Requests :
             where'[r] = IF where[r] = "queued" THEN "abandoned" ELSE where[r]
      BY <1>18 DEF StopWorker, Handling
  <2>2. /\ RangeOf(req_list') = {} /\ NoRepeat(req_list')
        /\ RangeOf(chan') = {} /\ NoRepeat(chan')
      BY <2>1 DEF RangeOf, NoRepeat
  <2>3. NoRequestLost'
      BY <2>1, <2>2 DEF NoRequestLost
  <2>4. BatchInWrite'
      BY <1>a, <2>1, <2>2 DEF BatchInWrite
  <2>5. RowsExact'
      BY <1>a, <2>1 DEF RowsExact
  <2>6. Counted' = Counted
      BY <2>1 DEF Counted, CountedFates
  <2>7. CountersExact'
      BY <1>a, <2>1, <2>6 DEF CountersExact
  <2>8. QED
      BY <2>3, <2>4, <2>5, <2>7 DEF Accounting
<1>19. CASE UNCHANGED vars
    BY <1>19, AccountingUntouched DEF vars, Handling
<1>20. QED
    BY <1>1, <1>2, <1>3, <1>4, <1>5, <1>6, <1>7, <1>8, <1>9, <1>10, <1>11,
       <1>12, <1>13, <1>14, <1>15, <1>16, <1>17, <1>18, <1>19 DEF Next

\* The accounting holds before anything happened.
LEMMA AccountingInit == Init => Accounting
<1> SUFFICES ASSUME Init PROVE Accounting
    OBVIOUS
<1>1. NoRequestLost /\ BatchInWrite
    BY DEF Init, NoRequestLost, BatchInWrite, NoRepeat, RangeOf, Handling
<1>2. RowsExact
    BY DEF Init, RowsExact
<1>3. CountersExact
  <2>1. Counted = {}
      BY DEF Init, Counted, CountedFates
  <2>2. Counted \cap Blocked = {} /\ Counted \cap Failed = {}
      BY <2>1
  <2>3. QED
      BY <2>1, <2>2, FS_EmptySet DEF Init, CountersExact, Counters
<1>4. QED
    BY <1>1, <1>2, <1>3 DEF Accounting

\* For any number of requests, any capacity and any batch size: the counters
\* are exact, every committed query has exactly one row, and nothing is lost or
\* duplicated between the channel and a batch.
THEOREM AccountingCorrect == Spec => []Accounting
<1>1. QED
    BY AccountingInit, AccountingStep, TypeCorrect, PTL DEF Spec

\* The counters of DataStats are exact in every reachable state.
THEOREM CountersCorrect == Spec => []CountersExact
<1>1. Accounting => CountersExact
    BY DEF Accounting
<1>2. QED
    BY <1>1, AccountingCorrect, PTL

\* A request has one row when its batch was committed and none otherwise.
THEOREM RowsCorrect == Spec => []RowsExact
<1>1. Accounting => RowsExact
    BY DEF Accounting
<1>2. QED
    BY <1>1, AccountingCorrect, PTL

\* A request that the channel accepted waits in exactly one place.
THEOREM NoneLost == Spec => []NoRequestLost
<1>1. Accounting => NoRequestLost
    BY DEF Accounting
<1>2. QED
    BY <1>1, AccountingCorrect, PTL

-----------------------------------------------------------------------------
(* The clients of the counted queries                                      *)

\* Some request of client c carried the MAC m.
Witnessed(c, m) == \E r \in Requests : ClientOf[r] = c /\ MacOf[r] = m

\* The MACs of a list of pending clients are witnessed.
PendingWitnessed(list) ==
    \A c \in DOMAIN list : list[c].mac # NoMac => Witnessed(c, list[c].mac)

\* Every MAC the loop holds, not only the ones being written or in the table,
\* was carried by a request of the client it is held for.
MacsInv ==
    /\ \A c \in DOMAIN mac_cache : Witnessed(c, mac_cache[c])
    /\ PendingWitnessed(pending)
    /\ MacsWitnessed

\* The clients the loop has not forgotten.
Known == DOMAIN pending \cup {d[1] : d \in client_list \cup client_rows}
                        \cup lost_clients

\* A client list exists only while it is being written, so that a step that
\* fills it overwrites no other; and from the final flush on nothing is pending.
ClientsInv ==
    /\ \A r \in Counted : ClientOf[r] \in Known
    /\ client_list # {} => pc \in {"insert_domain", "insert_client",
                                   "flush_clients", "final_flush"}
    /\ pc \in {"final_flush", "stop_worker", "exited"} => DOMAIN pending = {}

\* The rows made of a list of pending clients have the MACs of the list.
LEMMA ClientDataWitnessed ==
    ASSUME NEW list, PendingWitnessed(list), NEW D \in SUBSET DOMAIN list
    PROVE  /\ PendingWitnessed(Without(list, D))
           /\ \A d \in ClientData(list, D) : d[2] # NoMac => Witnessed(d[1], d[2])
<1>1. DOMAIN Without(list, D) = DOMAIN list \ D
    BY DEF Without
<1>2. \A c \in DOMAIN list \ D : Without(list, D)[c] = list[c]
    BY DEF Without
<1>3. \A d \in ClientData(list, D) :
        \E c \in DOMAIN list : d[1] = c /\ d[2] = list[c].mac
    BY DEF ClientData
<1>4. \A d \in ClientData(list, D) : d[2] # NoMac => Witnessed(d[1], d[2])
    BY <1>3 DEF PendingWitnessed
<1>5. QED
    BY <1>1, <1>2, <1>4 DEF PendingWitnessed

\* The clients of a list are the ones that stay in it and the ones written.
LEMMA ClientDataClients ==
    ASSUME NEW list, NEW D \in SUBSET DOMAIN list
    PROVE  DOMAIN list
             = DOMAIN Without(list, D) \cup {d[1] : d \in ClientData(list, D)}
<1>1. DOMAIN Without(list, D) = DOMAIN list \ D
    BY DEF Without
<1>2. \A d \in ClientData(list, D) : d[1] \in D
    BY DEF ClientData
<1>3. \A c \in D : <<c, list[c].mac>> \in ClientData(list, D)
    BY DEF ClientData
<1>4. \A c \in D : \E d \in ClientData(list, D) : d[1] = c
    BY <1>3
<1>5. QED
    BY <1>1, <1>2, <1>4

\* Handling a batch caches and resolves MACs that its requests carried, or that
\* were witnessed before.
LEMMA HandleWitnessed ==
    ASSUME TypeOK, MacsInv, NEW s \in Seq(Requests), HandleDnsRequest(s),
           UNCHANGED client_rows
    PROVE  MacsInv'
<1> DEFINE cache  == CachedMacs(s)
           merged == MergedPending(s, cache)
           due    == Due(merged, BatchAge)
<1>s. /\ Len(s) \in Nat
      /\ DOMAIN s = 1 .. Len(s)
      /\ \A i \in DOMAIN s : s[i] \in Requests
    OBVIOUS
<1>1. \A c \in DOMAIN cache : Witnessed(c, cache[c])
  <2> DEFINE kept == IF Cardinality(DOMAIN mac_cache) > MacCacheLimit
                     THEN {} ELSE DOMAIN mac_cache
             seen == {c \in Clients : MacIdx(s, c) # {}}
             val(c) == IF c \in seen THEN MacOf[s[LastIdx(MacIdx(s, c))]]
                                     ELSE mac_cache[c]
  <2>1. cache = [c \in kept \cup seen |-> val(c)]
      BY DEF CachedMacs
  <2>2. ASSUME NEW c \in seen PROVE Witnessed(c, val(c))
    <3>1. LastIdx(MacIdx(s, c)) \in MacIdx(s, c)
        BY <1>s, LastIdxIn DEF MacIdx
    <3>2. /\ s[LastIdx(MacIdx(s, c))] \in Requests
          /\ ClientOf[s[LastIdx(MacIdx(s, c))]] = c
        BY <1>s, <3>1 DEF MacIdx
    <3>3. QED
        BY <3>2 DEF Witnessed
  <2>3. ASSUME NEW c \in kept, c \notin seen PROVE Witnessed(c, val(c))
      BY <2>3 DEF MacsInv
  <2> HIDE DEF kept, seen, val, cache
  <2>4. \A c \in kept \cup seen : Witnessed(c, val(c))
      BY <2>2, <2>3
  <2>5. DOMAIN cache = kept \cup seen /\ \A c \in kept \cup seen : cache[c] = val(c)
      BY <2>1
  <2>6. QED
      BY <2>4, <2>5
<1>2. PendingWitnessed(merged)
  <2> DEFINE D == DOMAIN pending \cup QueryClients(s)
             old(c) == IF c \in DOMAIN pending THEN pending[c]
                                               ELSE [age |-> 0, mac |-> NoMac]
             mac(c) == IF c \in QueryClients(s)
                       THEN ResolvedMac(s[LastIdx(ClientIdx(s, c))], cache)
                       ELSE NoMac
             val(c) == IF mac(c) = NoMac THEN old(c)
                                         ELSE [old(c) EXCEPT !.mac = mac(c)]
  <2>1. merged = [c \in D |-> val(c)]
      BY DEF MergedPending
  <2>2. \A c \in DOMAIN pending : pending[c] \in PendingEntry
      BY PartialFunctionIff DEF TypeOK
  <2>3. \A c \in D : old(c) \in PendingEntry
      BY <2>2, BoundAssumption DEF PendingEntry, MaxAge, MacOrNone
  <2>4. \A c \in D : old(c).mac # NoMac => Witnessed(c, old(c).mac)
      BY DEF MacsInv, PendingWitnessed
  <2>5. ASSUME NEW c \in QueryClients(s), mac(c) # NoMac
        PROVE  Witnessed(c, mac(c))
    <3> DEFINE r == s[LastIdx(ClientIdx(s, c))]
    <3>1. LastIdx(ClientIdx(s, c)) \in ClientIdx(s, c)
        BY <1>s, LastIdxIn DEF ClientIdx, QueryIdx, QueryClients
    <3>2. r \in Requests /\ ClientOf[r] = c
        BY <1>s, <3>1 DEF ClientIdx, QueryIdx
    <3>3. mac(c) = ResolvedMac(r, cache)
        OBVIOUS
    <3> HIDE DEF r, cache, mac
    <3>4. CASE MacOf[r] # NoMac
        BY <3>2, <3>3, <3>4 DEF ResolvedMac, Witnessed
    <3>5. CASE MacOf[r] = NoMac
      <4>1. c \in DOMAIN cache /\ mac(c) = cache[c]
          BY <2>5, <3>2, <3>3, <3>5 DEF ResolvedMac
      <4>2. QED
          BY <1>1, <4>1
    <3>6. QED
        BY <3>4, <3>5
  <2>6. \A c \in D : c \notin QueryClients(s) => mac(c) = NoMac
      OBVIOUS
  <2>7. ASSUME NEW c \in D, val(c).mac # NoMac PROVE Witnessed(c, val(c).mac)
    <3>1. CASE mac(c) = NoMac
        BY <2>4, <2>7, <3>1
    <3>2. CASE mac(c) # NoMac
      <4>1. val(c) = [old(c) EXCEPT !.mac = mac(c)]
          BY <3>2
      <4>2. val(c).mac = mac(c)
        <5> HIDE DEF val, old, mac
        <5>1. QED
            BY <2>3, <4>1 DEF PendingEntry
      <4>3. QED
          BY <2>5, <2>6, <3>2, <4>2
    <3>3. QED
        BY <3>1, <3>2
  <2> HIDE DEF D, val, merged
  <2>8. DOMAIN merged = D /\ \A c \in D : merged[c] = val(c)
      BY <2>1
  <2>9. QED
      BY <2>7, <2>8 DEF PendingWitnessed
<1>3. due \in SUBSET DOMAIN merged
    BY DEF Due
<1>4. mac_cache' = cache /\ pending' = Without(merged, due)
      /\ client_list' = ClientData(merged, due)
    BY DEF HandleDnsRequest
<1> HIDE DEF cache, merged, due
<1>5. PendingWitnessed(pending')
    BY <1>2, <1>3, <1>4, ClientDataWitnessed
<1>6. \A d \in client_list' : d[2] # NoMac => Witnessed(d[1], d[2])
    BY <1>2, <1>3, <1>4, ClientDataWitnessed
<1>7. MacsWitnessed'
    BY <1>6 DEF MacsInv, MacsWitnessed, Witnessed
<1>8. QED
    BY <1>1, <1>4, <1>5, <1>7 DEF MacsInv, PendingWitnessed, Witnessed

\* A write of clients invents no MAC.
LEMMA WriteWitnessed ==
    ASSUME MacsInv, WriteClients, UNCHANGED caches
    PROVE  MacsInv'
<1>1. client_rows' \cup client_list' \subseteq client_rows \cup client_list
    BY DEF WriteClients
<1>2. MacsWitnessed'
    BY <1>1 DEF MacsInv, MacsWitnessed
<1>3. QED
    BY <1>2 DEF MacsInv, PendingWitnessed, Witnessed, caches

\* No action attributes a MAC to a client that none of its requests carried.
LEMMA MacsStep == TypeOK /\ MacsInv /\ [Next]_vars => MacsInv'
<1> SUFFICES ASSUME TypeOK, MacsInv, [Next]_vars PROVE MacsInv'
    OBVIOUS
<1> USE DEF pipeline, loop, tables
<1>a. ASSUME UNCHANGED <<mac_cache, pending, client_list, client_rows>>
      PROVE  MacsInv'
    BY <1>a DEF MacsInv, MacsWitnessed, PendingWitnessed, Witnessed
<1>b. ASSUME DOMAIN pending' = DOMAIN pending,
             \A c \in DOMAIN pending : pending'[c].mac = pending[c].mac,
             UNCHANGED <<mac_cache, client_list, client_rows>>
      PROVE  MacsInv'
    BY <1>b DEF MacsInv, MacsWitnessed, PendingWitnessed, Witnessed
<1>c. \A c \in DOMAIN pending : pending[c] \in PendingEntry
    BY PartialFunctionIff DEF TypeOK
<1>d. ASSUME NEW D \in SUBSET DOMAIN pending,
             pending' = Without(pending, D),
             client_list' = ClientData(pending, D),
             UNCHANGED <<mac_cache, client_rows>>
      PROVE  MacsInv'
  <2>1. /\ PendingWitnessed(pending')
        /\ \A d \in client_list' : d[2] # NoMac => Witnessed(d[1], d[2])
      BY <1>d, ClientDataWitnessed DEF MacsInv
  <2>2. MacsWitnessed'
      BY <1>d, <2>1 DEF MacsInv, MacsWitnessed, Witnessed
  <2>3. QED
      BY <1>d, <2>1, <2>2 DEF MacsInv, PendingWitnessed, Witnessed
<1>1. CASE DiskChange
    BY <1>1, <1>a DEF DiskChange, caches
<1>2. CASE Tick
    BY <1>2, <1>b, <1>c DEF Tick, PendingEntry
<1>3. CASE ClockBack
    BY <1>3, <1>b, <1>c DEF ClockBack, PendingEntry
<1>4. ASSUME NEW r \in Requests, SendRequest(r) PROVE MacsInv'
    BY <1>4, <1>a DEF SendRequest, caches
<1>5. ASSUME NEW r \in Requests, TrySend(r) PROVE MacsInv'
    BY <1>5, <1>a DEF TrySend, caches
<1>6. CASE StopDataServer
    BY <1>6, <1>a DEF StopDataServer, caches
<1>7. CASE LoopStart
    BY <1>7, <1>a DEF LoopStart, caches
<1>8. ASSUME NEW n \in 1 .. batch_size, RecvMany(n) PROVE MacsInv'
  <2> DEFINE s == req_list \o SubSeq(chan, 1, n)
  <2>1. UNCHANGED client_rows
      BY <1>8 DEF RecvMany
  <2>2. \/ UNCHANGED <<pc, client_list, caches, total, where>>
        \/ HandleDnsRequest(s)
      BY <1>8 DEF RecvMany
  <2>3. s \in Seq(Requests)
    <3>1. n \in Nat /\ n >= 1 /\ n <= Len(chan)
        BY <1>8, BoundAssumption DEF RecvMany, batch_size
    <3>2. chan \in Seq(Requests) /\ req_list \in Seq(Requests)
        BY DEF TypeOK
    <3>3. SubSeq(chan, 1, n) \in Seq(Requests)
        BY <3>1, <3>2
    <3>4. QED
        BY <3>2, <3>3
  <2> HIDE DEF s
  <2>4. QED
      BY <1>a, <2>1, <2>2, <2>3, HandleWitnessed DEF caches
<1>9. CASE BatchTimer
  <2>1. req_list \in Seq(Requests) /\ HandleDnsRequest(req_list)
        /\ UNCHANGED client_rows
      BY <1>9 DEF BatchTimer, TypeOK
  <2>2. QED
      BY <2>1, HandleWitnessed
<1>10. CASE InsertDomain
  <2>1. /\ client_list' \subseteq client_list
        /\ UNCHANGED <<mac_cache, pending, client_rows>>
      BY <1>10 DEF InsertDomain, caches
  <2>2. MacsWitnessed'
      BY <2>1 DEF MacsInv, MacsWitnessed
  <2>3. QED
      BY <2>1, <2>2 DEF MacsInv, PendingWitnessed, Witnessed
<1>11. CASE InsertClient
    BY <1>11, WriteWitnessed DEF InsertClient
<1>12. CASE FlushTimer
  <2>1. Due(pending, FlushAge) \in SUBSET DOMAIN pending
      BY DEF Due
  <2>2. QED
      BY <1>12, <1>d, <2>1 DEF FlushTimer
<1>13. CASE FlushClients
    BY <1>13, WriteWitnessed DEF FlushClients
<1>14. CASE CheckTimer
    BY <1>14, <1>a DEF CheckTimer, caches
<1>15. CASE ServerCheck
    BY <1>15, <1>a DEF ServerCheck, caches
<1>16. CASE RecvNotify
    BY <1>16, <1>d DEF RecvNotify
<1>17. CASE FinalFlush
    BY <1>17, WriteWitnessed DEF FinalFlush
<1>18. CASE StopWorker
    BY <1>18, <1>a DEF StopWorker, caches
<1>19. CASE UNCHANGED vars
    BY <1>19, <1>a DEF vars, caches
<1>20. QED
    BY <1>1, <1>2, <1>3, <1>4, <1>5, <1>6, <1>7, <1>8, <1>9, <1>10, <1>11,
       <1>12, <1>13, <1>14, <1>15, <1>16, <1>17, <1>18, <1>19 DEF Next

\* A client is recorded with a MAC only if one of its requests carried it,
\* whatever the order of the requests, the batches, the timers and the clears
\* of the MAC cache.
THEOREM MacsCorrect == Spec => []MacsWitnessed
<1>1. Init => MacsInv
    BY DEF Init, MacsInv, MacsWitnessed, PendingWitnessed
<1>2. MacsInv => MacsWitnessed
    BY DEF MacsInv
<1>3. QED
    BY <1>1, <1>2, MacsStep, TypeCorrect, PTL DEF Spec

\* Handling a batch forgets no client and learns the one of every query.
LEMMA HandleClients ==
    ASSUME TypeOK, ClientsInv, NEW s \in Seq(Requests), HandleDnsRequest(s),
           pc = "select", UNCHANGED <<client_rows, lost_clients>>
    PROVE  ClientsInv'
<1> DEFINE merged == MergedPending(s, CachedMacs(s))
           due    == Due(merged, BatchAge)
<1>1. DOMAIN merged = DOMAIN pending \cup QueryClients(s)
    BY DEF MergedPending
<1>2. due \in SUBSET DOMAIN merged
    BY DEF Due
<1>3. /\ pending' = Without(merged, due)
      /\ client_list' = ClientData(merged, due)
      /\ pc' = "insert_domain"
    BY DEF HandleDnsRequest
<1>4. client_list = {}
    BY DEF ClientsInv
<1>5. Known \cup QueryClients(s) \subseteq Known'
  <2> HIDE DEF merged, due
  <2>1. DOMAIN merged = DOMAIN pending' \cup {d[1] : d \in client_list'}
      BY <1>2, <1>3, ClientDataClients
  <2>2. QED
      BY <1>1, <1>4, <2>1 DEF Known
<1>6. ASSUME NEW r \in Counted' PROVE ClientOf[r] \in Known'
  <2>1. \/ r \in Counted
        \/ r \in RangeOf(s) /\ KindOf[r] = "query"
      BY DEF HandleDnsRequest, Counted, CountedFates
  <2>2. CASE r \in Counted
      BY <1>5, <2>2 DEF ClientsInv
  <2>3. CASE r \in RangeOf(s) /\ KindOf[r] = "query"
    <3>1. PICK i \in DOMAIN s : s[i] = r
        BY <2>3 DEF RangeOf
    <3>2. i \in ClientIdx(s, ClientOf[r])
        BY <2>3, <3>1 DEF ClientIdx, QueryIdx
    <3>3. ClientOf[r] \in QueryClients(s)
        BY <3>2, DataAssumption DEF QueryClients, Counted
    <3>4. QED
        BY <1>5, <3>3
  <2>4. QED
      BY <2>1, <2>2, <2>3
<1>7. QED
    BY <1>3, <1>6 DEF ClientsInv

\* A write of clients moves them to the table or to the failed ones.
LEMMA WriteClientsKnown ==
    ASSUME WriteClients, UNCHANGED pending
    PROVE  Known \subseteq Known'
BY DEF WriteClients, Known

\* No action forgets the client of a counted query.
LEMMA ClientsStep == TypeOK /\ ClientsInv /\ [Next]_vars => ClientsInv'
<1> SUFFICES ASSUME TypeOK, ClientsInv, [Next]_vars PROVE ClientsInv'
    OBVIOUS
<1> USE DEF pipeline, loop, caches, tables
<1>a. ASSUME DOMAIN pending' = DOMAIN pending, Counted' = Counted,
             UNCHANGED <<client_list, client_rows, lost_clients>>
      PROVE  \A r \in Counted' : ClientOf[r] \in Known'
    BY <1>a DEF ClientsInv, Known
<1>b. ASSUME NEW D \in SUBSET DOMAIN pending,
             pending' = Without(pending, D),
             client_list' = ClientData(pending, D), pc = "select",
             UNCHANGED <<where, client_rows, lost_clients>>
      PROVE  \A r \in Counted' : ClientOf[r] \in Known'
  <2>1. client_list = {}
      BY <1>b DEF ClientsInv
  <2>2. DOMAIN pending = DOMAIN pending' \cup {d[1] : d \in client_list'}
      BY <1>b, ClientDataClients
  <2>3. Known \subseteq Known'
      BY <1>b, <2>1, <2>2 DEF Known
  <2>4. QED
      BY <1>b, <2>3 DEF ClientsInv, Counted
<1>c. ASSUME WriteClients, UNCHANGED <<pending, where>>
      PROVE  (\A r \in Counted' : ClientOf[r] \in Known') /\ client_list' = {}
    BY <1>c, WriteClientsKnown DEF ClientsInv, Counted, WriteClients
<1>1. CASE DiskChange
    BY <1>1, <1>a DEF DiskChange, ClientsInv, Counted
<1>2. CASE Tick
    BY <1>2, <1>a DEF Tick, ClientsInv, Counted
<1>3. CASE ClockBack
    BY <1>3, <1>a DEF ClockBack, ClientsInv, Counted
<1>4. ASSUME NEW r \in Requests, SendRequest(r) PROVE ClientsInv'
  <2>1. Counted' = Counted
      BY <1>4 DEF SendRequest, Counted, CountedFates, TypeOK
  <2>2. QED
      BY <1>4, <1>a, <2>1 DEF SendRequest, ClientsInv
<1>5. ASSUME NEW r \in Requests, TrySend(r) PROVE ClientsInv'
  <2>1. Counted' = Counted
      BY <1>5 DEF TrySend, Counted, CountedFates, TypeOK
  <2>2. QED
      BY <1>5, <1>a, <2>1 DEF TrySend, ClientsInv
<1>6. CASE StopDataServer
    BY <1>6, <1>a DEF StopDataServer, ClientsInv, Counted
<1>7. CASE LoopStart
    BY <1>7, <1>a DEF LoopStart, ClientsInv, Counted
<1>8. ASSUME NEW n \in 1 .. batch_size, RecvMany(n) PROVE ClientsInv'
  <2> DEFINE s == req_list \o SubSeq(chan, 1, n)
  <2>1. pc = "select" /\ UNCHANGED <<client_rows, lost_clients>>
      BY <1>8 DEF RecvMany
  <2>2. \/ UNCHANGED <<pc, client_list, caches, total, where>>
        \/ HandleDnsRequest(s)
      BY <1>8 DEF RecvMany
  <2>3. s \in Seq(Requests)
    <3>1. n \in Nat /\ n >= 1 /\ n <= Len(chan)
        BY <1>8, BoundAssumption DEF RecvMany, batch_size
    <3>2. chan \in Seq(Requests) /\ req_list \in Seq(Requests)
        BY DEF TypeOK
    <3>3. SubSeq(chan, 1, n) \in Seq(Requests)
        BY <3>1, <3>2
    <3>4. QED
        BY <3>2, <3>3
  <2> HIDE DEF s
  <2>4. CASE UNCHANGED <<pc, client_list, caches, total, where>>
      BY <1>a, <2>1, <2>4 DEF ClientsInv, Counted
  <2>5. QED
      BY <2>1, <2>2, <2>3, <2>4, HandleClients
<1>9. CASE BatchTimer
  <2>1. /\ req_list \in Seq(Requests) /\ HandleDnsRequest(req_list)
        /\ pc = "select" /\ UNCHANGED <<client_rows, lost_clients>>
      BY <1>9 DEF BatchTimer, TypeOK
  <2>2. QED
      BY <2>1, HandleClients
<1>10. CASE InsertDomain
  <2>1. Counted' = Counted
      BY <1>10 DEF InsertDomain, Counted, CountedFates
  <2>2. Known \subseteq Known'
      BY <1>10 DEF InsertDomain, Known
  <2>3. \A r \in Counted' : ClientOf[r] \in Known'
      BY <2>1, <2>2 DEF ClientsInv
  <2>4. (client_list' # {} => pc' = "insert_client")
        /\ pc' \in {"insert_client", "select"}
      BY <1>10 DEF InsertDomain
  <2>5. QED
      BY <2>3, <2>4 DEF ClientsInv
<1>11. CASE InsertClient
    BY <1>11, <1>c DEF InsertClient, ClientsInv
<1>12. CASE FlushTimer
  <2> DEFINE due == Due(pending, FlushAge)
  <2>1. due \in SUBSET DOMAIN pending
      BY DEF Due
  <2>2. \A r \in Counted' : ClientOf[r] \in Known'
      BY <1>12, <1>b, <2>1 DEF FlushTimer
  <2>3. due = {} => client_list' = {}
      BY <1>12 DEF FlushTimer, ClientData
  <2>4. pc' = IF due = {} THEN "select" ELSE "flush_clients"
      BY <1>12 DEF FlushTimer
  <2>5. QED
      BY <2>2, <2>3, <2>4 DEF ClientsInv
<1>13. CASE FlushClients
    BY <1>13, <1>c DEF FlushClients, ClientsInv
<1>14. CASE CheckTimer
    BY <1>14, <1>a DEF CheckTimer, ClientsInv, Counted
<1>15. CASE ServerCheck
    BY <1>15, <1>a DEF ServerCheck, ClientsInv, Counted
<1>16. CASE RecvNotify
  <2>1. \A r \in Counted' : ClientOf[r] \in Known'
      BY <1>16, <1>b DEF RecvNotify
  <2>2. DOMAIN pending' = {}
      BY <1>16 DEF RecvNotify, Without
  <2>3. DOMAIN pending = {} => client_list' = {}
      BY <1>16 DEF RecvNotify, ClientData
  <2>4. pc' = IF DOMAIN pending = {} THEN "stop_worker" ELSE "final_flush"
      BY <1>16 DEF RecvNotify
  <2>5. QED
      BY <2>1, <2>2, <2>3, <2>4 DEF ClientsInv
<1>17. CASE FinalFlush
    BY <1>17, <1>c DEF FinalFlush, ClientsInv
<1>18. CASE StopWorker
  <2>1. Counted' = Counted
      BY <1>18 DEF StopWorker, Counted, CountedFates
  <2>2. QED
      BY <1>18, <1>a, <2>1 DEF StopWorker, ClientsInv
<1>19. CASE UNCHANGED vars
    BY <1>19, <1>a DEF vars, ClientsInv, Counted
<1>20. QED
    BY <1>1, <1>2, <1>3, <1>4, <1>5, <1>6, <1>7, <1>8, <1>9, <1>10, <1>11,
       <1>12, <1>13, <1>14, <1>15, <1>16, <1>17, <1>18, <1>19 DEF Next

\* The client of every counted query is pending, being written, in the table or
\* one whose write failed, and the loop exits with none left in memory.
THEOREM ClientsCorrect == Spec => []ClientsAccounted
<1>1. Init => ClientsInv
    BY DEF Init, ClientsInv, Counted, CountedFates
<1>2. ClientsInv => ClientsAccounted
  <2> SUFFICES ASSUME ClientsInv PROVE ClientsAccounted
      OBVIOUS
  <2>1. ASSUME NEW r \in Counted
        PROVE  \/ ClientOf[r] \in DOMAIN pending
               \/ \E d \in client_list \cup client_rows : d[1] = ClientOf[r]
               \/ ClientOf[r] \in lost_clients
      BY DEF ClientsInv, Known
  <2>2. pc = "exited" => DOMAIN pending = {} /\ client_list = {}
      BY DEF ClientsInv
  <2>3. QED
      BY <2>1, <2>2 DEF ClientsAccounted
<1>3. QED
    BY <1>1, <1>2, ClientsStep, TypeCorrect, PTL DEF Spec

-----------------------------------------------------------------------------
(* The pipeline implements the query log: every step of DataServer is a    *)
(* step of QueryLog under the mapping of DataServer, or leaves its state   *)
(* alone.  That rests on the accounting above: it says that a batch is     *)
(* taken from waiting requests, that at most one is being written, and     *)
(* which requests have a row.                                              *)


Stored == {r \in Requests : where[r] = "stored"}

\* The rows of the query log belong to the requests whose batch was committed.
LEMMA LogIsStored ==
    ASSUME RowsExact
    PROVE  {r \in Requests : rows[r] > 0} = Stored
BY DEF RowsExact, Stored

\* A step that keeps the fates, the rows, the counter of requests and the end
\* of the loop is no step of the log.
LEMMA LogUntouched ==
    ASSUME UNCHANGED <<where, rows>>, total'["total_request"] = total["total_request"],
           (pc' = "exited") <=> (pc = "exited")
    PROVE  UNCHANGED Log!vars
<1>1. (pc' = "exited") = (pc = "exited")
    OBVIOUS
<1>2. QED
    BY <1>1 DEF Log!vars, QueriesIn

\* A batch of waiting requests that is counted is a Handle of its queries.
LEMMA HandleIsHandle ==
    ASSUME TypeOK, Accounting, NEW s \in Seq(Requests), NoRepeat(s),
           \A r \in RangeOf(s) : where[r] = "queued",
           pc = "select", UNCHANGED rows, HandleDnsRequest(s)
    PROVE  Log!Next
<1> DEFINE New == {s[i] : i \in QueryIdx(s)}
<1>s. DOMAIN s = 1 .. Len(s) /\ \A i \in DOMAIN s : s[i] \in Requests
    OBVIOUS
<1>1. New = {r \in RangeOf(s) : KindOf[r] = "query"} /\ RangeOf(s) \subseteq Requests
    BY <1>s DEF QueryIdx, RangeOf
<1>2. /\ pc' = "insert_domain"
      /\ \A r \in Requests :
           where'[r] = IF r \notin RangeOf(s) THEN where[r]
                       ELSE IF KindOf[r] = "query" THEN "counted" ELSE "skipped"
    BY DEF HandleDnsRequest
<1>3. \A r \in Requests : where[r] # "counted"
    BY DEF Accounting, BatchInWrite
<1>4. New \in SUBSET QueriesIn({"queued"})
    BY <1>1 DEF QueriesIn
<1>5. QueriesIn({"counted"}) = {} /\ QueriesIn({"counted"})' = New
    BY <1>1, <1>2, <1>3 DEF QueriesIn
<1>6. QueriesIn({"queued"})' = QueriesIn({"queued"}) \ New
    BY <1>1, <1>2 DEF QueriesIn
<1>7. QueriesIn({"new", "checked"})' = QueriesIn({"new", "checked"})
    BY <1>1, <1>2 DEF QueriesIn
<1>8. total'["total_request"] = total["total_request"] + Cardinality(New)
  <2>1. Cardinality(QueryIdx(s)) = Cardinality(New)
      BY PositionsCount DEF QueryIdx
  <2>2. total'["total_request"] = total["total_request"] + Cardinality(QueryIdx(s))
      BY DEF HandleDnsRequest, AddBatch, TypeOK, Counters
  <2>3. QED
      BY <2>1, <2>2
<1>9. (pc = "exited") = FALSE /\ (pc' = "exited") = FALSE
    BY <1>2
<1>10. {r \in Requests : rows[r] > 0}' = {r \in Requests : rows[r] > 0}
    OBVIOUS
<1>11. Log!Cardinality(New) = Cardinality(New)
    BY DEF Log!Cardinality, Cardinality
<1> HIDE DEF New
<1>12. Log!Handle(New)
    BY <1>5, <1>6, <1>7, <1>8, <1>9, <1>10, <1>11 DEF Log!Handle
<1>13. QED
    BY <1>4, <1>12 DEF Log!Next

\* A query that is accepted or refused, and a request that is no query.
LEMMA SendIsAcceptOrRefuse ==
    ASSUME TypeOK, NEW r \in Requests,
           where[r] \in {"new", "checked"},
           \A q \in Requests \ {r} : where'[q] = where[q],
           UNCHANGED <<rows, pc>>, total'["total_request"] = total["total_request"],
           \/ where'[r] \in {"checked", "ignored", "dropped"}
           \/ where'[r] = "queued" /\ pc # "exited"
    PROVE  Log!Next \/ UNCHANGED Log!vars
<1> DEFINE Same == UNCHANGED <<QueriesIn({"counted"}), {q \in Requests : rows[q] > 0},
                               total["total_request"], pc = "exited">>
<1>1. Same
    BY DEF QueriesIn
<1>2. CASE KindOf[r] # "query" \/ where'[r] = "checked"
  <2>1. UNCHANGED <<QueriesIn({"new", "checked"}), QueriesIn({"queued"})>>
      BY <1>2 DEF QueriesIn
  <2>2. QED
      BY <1>1, <2>1 DEF Log!vars
<1>3. CASE KindOf[r] = "query" /\ where'[r] # "checked"
  <2>1. /\ r \in {q \in Requests : KindOf[q] = "query"}
        /\ r \in QueriesIn({"new", "checked"})
        /\ QueriesIn({"new", "checked"})' = QueriesIn({"new", "checked"}) \ {r}
      BY <1>3 DEF QueriesIn
  <2>2. CASE where'[r] = "queued"
    <3>1. QueriesIn({"queued"})' = QueriesIn({"queued"}) \cup {r}
        BY <1>3, <2>2 DEF QueriesIn
    <3>2. Log!Accept(r)
        BY <1>1, <2>1, <2>2, <3>1 DEF Log!Accept
    <3>3. QED
        BY <2>1, <3>2 DEF Log!Next
  <2>3. CASE where'[r] # "queued"
    <3>1. QueriesIn({"queued"})' = QueriesIn({"queued"})
        BY <2>3 DEF QueriesIn
    <3>2. Log!Refuse(r)
        BY <1>1, <2>1, <3>1 DEF Log!Refuse
    <3>3. QED
        BY <2>1, <3>2 DEF Log!Next
  <2>4. QED
      BY <2>2, <2>3
<1>4. QED
    BY <1>2, <1>3

\* Every step of the pipeline is a step of the query log or none.
LEMMA LogStep ==
    ASSUME TypeOK, Accounting, Accounting', [Next]_vars
    PROVE  Log!Next \/ UNCHANGED Log!vars
<1> USE DEF pipeline, loop, caches, tables
<1>a. NoRequestLost /\ BatchInWrite /\ RowsExact /\ RowsExact'
    BY DEF Accounting
<1>b. chan \in Seq(Requests) /\ req_list \in Seq(Requests)
    BY DEF TypeOK
<1>1. CASE DiskChange \/ Tick \/ ClockBack \/ StopDataServer \/ LoopStart
    BY <1>1, LogUntouched DEF DiskChange, Tick, ClockBack, StopDataServer, LoopStart
<1>2. CASE InsertClient \/ FlushTimer \/ FlushClients \/ CheckTimer \/ ServerCheck
    BY <1>2, LogUntouched
       DEF InsertClient, FlushTimer, FlushClients, CheckTimer, ServerCheck
<1>3. CASE RecvNotify \/ FinalFlush \/ UNCHANGED vars
    BY <1>3, LogUntouched DEF RecvNotify, FinalFlush, vars
<1>4. ASSUME NEW r \in Requests, SendRequest(r)
      PROVE  Log!Next \/ UNCHANGED Log!vars
  <2>1. /\ where[r] = "new" /\ where'[r] \in {"ignored", "checked"}
        /\ \A q \in Requests \ {r} : where'[q] = where[q]
        /\ UNCHANGED <<rows, total, pc>>
      BY <1>4 DEF SendRequest, TypeOK
  <2>2. QED
      BY <2>1, SendIsAcceptOrRefuse
<1>5. ASSUME NEW r \in Requests, TrySend(r)
      PROVE  Log!Next \/ UNCHANGED Log!vars
  <2>1. /\ where[r] = "checked"
        /\ where'[r] = "dropped" \/ (where'[r] = "queued" /\ pc # "exited")
        /\ \A q \in Requests \ {r} : where'[q] = where[q]
        /\ UNCHANGED <<rows, pc>>
      BY <1>5 DEF TrySend, TypeOK
  <2>2. total'["total_request"] = total["total_request"]
      BY <1>5 DEF TrySend, AddRequestDrop, TypeOK, Counters
  <2>3. QED
      BY <2>1, <2>2, SendIsAcceptOrRefuse
<1>6. ASSUME NEW n \in 1 .. batch_size, RecvMany(n)
      PROVE  Log!Next \/ UNCHANGED Log!vars
  <2> DEFINE s == req_list \o SubSeq(chan, 1, n)
  <2>1. /\ n \in 1 .. Len(chan) /\ pc = "select" /\ ~Handling /\ UNCHANGED rows
      BY <1>6, <1>b, BoundAssumption DEF RecvMany, batch_size, Handling
  <2>2. /\ s \in Seq(Requests) /\ NoRepeat(s)
        /\ RangeOf(s) \subseteq RangeOf(chan) \cup RangeOf(req_list)
      BY <1>a, <1>b, <2>1, RecvMoves DEF NoRequestLost
  <2>3. HandleDnsRequest(s) \/ UNCHANGED <<pc, total, where>>
      BY <1>6 DEF RecvMany
  <2> HIDE DEF s
  <2>4. \A r \in RangeOf(s) : where[r] = "queued"
    <3>1. RangeOf(s) \subseteq Requests
        BY <2>2 DEF RangeOf
    <3>2. QED
        BY <1>a, <2>1, <2>2, <3>1 DEF NoRequestLost
  <2>5. CASE HandleDnsRequest(s)
      BY <2>1, <2>2, <2>4, <2>5, HandleIsHandle
  <2>6. CASE UNCHANGED <<pc, total, where>>
      BY <2>1, <2>6, LogUntouched
  <2>7. QED
      BY <2>3, <2>5, <2>6
<1>7. CASE BatchTimer
  <2>1. pc = "select" /\ ~Handling /\ UNCHANGED rows /\ HandleDnsRequest(req_list)
      BY <1>7 DEF BatchTimer, Handling
  <2>2. NoRepeat(req_list) /\ \A r \in RangeOf(req_list) : where[r] = "queued"
    <3>1. RangeOf(req_list) \subseteq Requests
        BY <1>b DEF RangeOf
    <3>2. QED
        BY <1>a, <2>1, <3>1 DEF NoRequestLost
  <2>3. QED
      BY <1>b, <2>1, <2>2, HandleIsHandle
<1>8. CASE InsertDomain
  <2>1. /\ pc = "insert_domain" /\ pc' \in {"insert_client", "select"}
        /\ UNCHANGED total
        /\ \/ \A r \in Requests :
                where'[r] = IF where[r] = "counted" THEN "stored" ELSE where[r]
           \/ /\ \A r \in Requests :
                   where'[r] = IF where[r] = "counted" THEN "lost" ELSE where[r]
      BY <1>8 DEF InsertDomain
  <2>2. \A r \in Requests : where[r] = "counted" => KindOf[r] = "query"
      BY <1>a, <2>1 DEF BatchInWrite
  <2>3. /\ QueriesIn({"new", "checked"})' = QueriesIn({"new", "checked"})
        /\ QueriesIn({"queued"})' = QueriesIn({"queued"})
        /\ QueriesIn({"counted"})' = {}
      BY <2>1 DEF QueriesIn
  <2>4. {r \in Requests : rows[r] > 0} = Stored
      BY <1>a, LogIsStored
  <2>5. {r \in Requests : rows'[r] > 0} = Stored'
      BY <1>a DEF RowsExact, Stored
  <2>6. Stored' = Stored \cup QueriesIn({"counted"}) \/ Stored' = Stored
      BY <2>1, <2>2 DEF Stored, QueriesIn
  <2>7. (pc = "exited") = FALSE /\ (pc' = "exited") = FALSE
      BY <2>1
  <2>8. Log!Commit \/ Log!Fail
      BY <2>1, <2>3, <2>4, <2>5, <2>6, <2>7 DEF Log!Commit, Log!Fail
  <2>9. QED
      BY <2>8 DEF Log!Next
<1>9. CASE StopWorker
  <2>1. /\ pc = "stop_worker" /\ pc' = "exited" /\ UNCHANGED <<rows, total>>
        /\ \A r \in Requests :
             where'[r] = IF where[r] = "queued" THEN "abandoned" ELSE where[r]
      BY <1>9 DEF StopWorker
  <2>2. \A r \in Requests : where[r] # "counted"
      BY <1>a, <2>1 DEF BatchInWrite
  <2>3. /\ QueriesIn({"new", "checked"})' = QueriesIn({"new", "checked"})
        /\ QueriesIn({"queued"})' = {}
        /\ QueriesIn({"counted"}) = {} /\ QueriesIn({"counted"})' = {}
      BY <2>1, <2>2 DEF QueriesIn
  <2>4. (pc' = "exited") = TRUE
      BY <2>1
  <2>5. Log!Close
      BY <2>1, <2>3, <2>4 DEF Log!Close
  <2>6. QED
      BY <2>5 DEF Log!Next
<1>10. QED
    BY <1>1, <1>2, <1>3, <1>4, <1>5, <1>6, <1>7, <1>8, <1>9 DEF Next

\* The log is empty and open before anything happened.
LEMMA LogInit == Init => Log!Init
<1> SUFFICES ASSUME Init PROVE Log!Init
    OBVIOUS
<1>1. /\ QueriesIn({"new", "checked"}) = {r \in Requests : KindOf[r] = "query"}
      /\ QueriesIn({"queued"}) = {} /\ QueriesIn({"counted"}) = {}
    BY DEF Init, QueriesIn
<1>2. {r \in Requests : rows[r] > 0} = {}
    BY DEF Init
<1>3. (pc = "exited") = FALSE /\ total["total_request"] = 0
    BY DEF Init, Counters
<1>4. QED
    BY <1>1, <1>2, <1>3 DEF Log!Init

\* The query pipeline of data_server.rs implements the query log.
THEOREM Implements == Spec => ImplementsQueryLog
<1>1. TypeOK /\ Accounting /\ Accounting' /\ [Next]_vars => [Log!Next]_(Log!vars)
    BY LogStep
<1>2. QED
    BY <1>1, LogInit, TypeCorrect, AccountingCorrect, PTL
       DEF Spec, ImplementsQueryLog, Log!Spec
=============================================================================
