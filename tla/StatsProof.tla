----------------------------- MODULE StatsProof -----------------------------
(***************************************************************************)
(* Proofs about Stats: for any number of queries, hours and restarts, any  *)
(* retention and any failures of the database, the counters never claim    *)
(* more than happened, and they are exact as long as they were saved       *)
(* completely at the end of every life and read back when the next began.  *)
(***************************************************************************)
EXTENDS Stats, FiniteSetTheorems, TLAPS

\* What load_status_data may fall back to is bounded by the queries seen.
Blocked == {r \in rows : r.blocked}

RowsInv ==
    /\ IsFiniteSet(rows)
    /\ Cardinality(rows) <= ever["total_request"]
    /\ Cardinality(Blocked) <= ever["total_blocked_request"]

CountersType ==
    /\ total \in [Counters -> Nat]
    /\ status \in [Counters -> Nat]
    /\ ever \in [Counters -> Nat]
    /\ ever["request_drop"] = 0

\* The keys before save_idx have been saved.
SaveProgress ==
    /\ life \in {"down", "running", "saving"}
    /\ save_idx \in 1 .. Len(StatusKeys)
    /\ life # "saving" => save_idx = 1
    /\ life = "saving" /\ clean =>
          \A i \in 1 .. save_idx - 1 : status[StatusKeys[i]] = ever[StatusKeys[i]]
    /\ life = "down" /\ clean => status = ever

StatsInv ==
    /\ CountersType
    /\ RowsInv
    /\ SaveProgress
    /\ NeverOvercounts
    /\ CleanRestartExact

-----------------------------------------------------------------------------
(* The operators                                                           *)

\* The keys saved are the counters, request_drop last.
LEMMA KeysAreCounters ==
    /\ Len(StatusKeys) = 4
    /\ \A i \in 1 .. 4 : StatusKeys[i] \in Counters
    /\ \A k \in Counters : \E i \in 1 .. 4 : StatusKeys[i] = k
    /\ StatusKeys[4] = "request_drop"
<1>1. /\ StatusKeys[1] = "total_request" /\ StatusKeys[2] = "total_blocked_request"
      /\ StatusKeys[3] = "total_failed_request" /\ StatusKeys[4] = "request_drop"
      /\ Len(StatusKeys) = 4
    BY DEF StatusKeys
<1>2. \A i \in 1 .. 4 : i = 1 \/ i = 2 \/ i = 3 \/ i = 4
    OBVIOUS
<1>3. QED
    BY <1>1, <1>2 DEF Counters

\* add_total_request and the others count a query once in each counter it
\* belongs to.
LEMMA Counted ==
    ASSUME NEW c \in [Counters -> Nat], NEW k
    PROVE  /\ CountQuery(c, k) \in [Counters -> Nat]
           /\ CountQuery(c, k)["total_request"] = c["total_request"] + 1
           /\ CountQuery(c, k)["total_blocked_request"] =
                c["total_blocked_request"] + (IF k = "blocked" THEN 1 ELSE 0)
           /\ CountQuery(c, k)["total_failed_request"] =
                c["total_failed_request"] + (IF k = "failed" THEN 1 ELSE 0)
           /\ CountQuery(c, k)["request_drop"] = c["request_drop"]
    BY DEF CountQuery, Counters

\* Rows that are deleted are not counted.
LEMMA RowsLeave ==
    ASSUME RowsInv, rows' \subseteq rows, UNCHANGED ever, CountersType
    PROVE  RowsInv'
<1>1. IsFiniteSet(rows') /\ Cardinality(rows') <= Cardinality(rows)
    BY FS_Subset DEF RowsInv
<1>2. IsFiniteSet(Blocked) /\ Blocked' \subseteq Blocked
    BY FS_Subset DEF RowsInv, Blocked
<1>3. IsFiniteSet(Blocked') /\ Cardinality(Blocked') <= Cardinality(Blocked)
    BY <1>2, FS_Subset
<1>4. /\ Cardinality(rows) \in Nat /\ Cardinality(rows') \in Nat
      /\ Cardinality(Blocked) \in Nat /\ Cardinality(Blocked') \in Nat
      /\ ever["total_request"] \in Nat /\ ever["total_blocked_request"] \in Nat
    BY <1>1, <1>2, <1>3, FS_CardinalityType DEF RowsInv, CountersType, Counters
<1>5. QED
    BY <1>1, <1>3, <1>4 DEF RowsInv

\* load_status_data loads no more than was counted, whatever it fails to read,
\* and exactly what was counted when all of it was saved and is read.
LEMMA LoadsCounted ==
    ASSUME StatsInv, NEW failed
    PROVE  /\ LoadStatusData(failed) \in [Counters -> Nat]
           /\ \A k \in Counters : LoadStatusData(failed)[k] <= ever[k]
           /\ status = ever /\ failed = {} => LoadStatusData(failed) = ever
<1> DEFINE load == LoadStatusData(failed)
           all == Cardinality(rows)
           blocked == Cardinality({r \in rows : r.blocked})
           read(k) == Found(status[k], k \in failed)
<1>1. /\ all \in Nat /\ blocked \in Nat
      /\ all <= ever["total_request"]
      /\ blocked <= ever["total_blocked_request"]
    BY FS_CardinalityType, FS_Subset DEF StatsInv, RowsInv, Blocked
<1>2. /\ status \in [Counters -> Nat] /\ ever \in [Counters -> Nat]
      /\ ever["request_drop"] = 0
      /\ \A k \in Counters : status[k] <= ever[k]
    BY DEF StatsInv, CountersType, NeverOvercounts
<1>3. /\ load["total_request"] = Loaded(read("total_request"), Found(all, "rows" \in failed))
      /\ load["total_blocked_request"] =
           Loaded(read("total_blocked_request"), Found(blocked, "blocked_rows" \in failed))
      /\ load["total_failed_request"] = read("total_failed_request")
      /\ load["request_drop"] = 0
      /\ load = [k \in Counters |-> load[k]]
    BY DEF LoadStatusData, Counters
<1>4. \A k \in Counters : /\ read(k) \in Nat /\ read(k) <= ever[k]
                          /\ failed = {} => read(k) = status[k]
    BY <1>2 DEF Found
<1>5. /\ Found(all, "rows" \in failed) \in Nat
      /\ Found(all, "rows" \in failed) <= ever["total_request"]
      /\ Found(blocked, "blocked_rows" \in failed) \in Nat
      /\ Found(blocked, "blocked_rows" \in failed) <= ever["total_blocked_request"]
  <2>1. ever["total_request"] \in Nat /\ ever["total_blocked_request"] \in Nat
      BY <1>2 DEF Counters
  <2> HIDE DEF all, blocked
  <2>2. QED
      BY <1>1, <2>1 DEF Found
<1> HIDE DEF load, all, blocked, read
<1>6. ASSUME NEW k \in Counters
      PROVE  load[k] \in Nat /\ load[k] <= ever[k]
             /\ (status[k] = ever[k] /\ failed = {} => load[k] = ever[k])
  <2>1. ever[k] \in Nat /\ read(k) \in Nat /\ read(k) <= ever[k]
        /\ (failed = {} => read(k) = status[k])
      BY <1>2, <1>4
  <2>2. CASE k = "total_request"
      BY <1>3, <1>5, <2>1, <2>2 DEF Loaded
  <2>3. CASE k = "total_blocked_request"
      BY <1>3, <1>5, <2>1, <2>3 DEF Loaded
  <2>4. CASE k = "total_failed_request"
      BY <1>3, <2>1, <2>4
  <2>5. CASE k = "request_drop"
      BY <1>2, <1>3, <2>1, <2>5
  <2>6. QED
      BY <2>2, <2>3, <2>4, <2>5 DEF Counters
<1>7. load \in [Counters -> Nat]
    BY <1>3, <1>6
<1>8. status = ever /\ failed = {} => load = ever
    BY <1>2, <1>6, <1>7
<1>9. QED
    BY <1>6, <1>7, <1>8 DEF load

-----------------------------------------------------------------------------
(* The invariant                                                           *)

\* Every step keeps the invariant.
LEMMA StatsStep == StatsInv /\ [StatsNext]_vars => StatsInv'
<1> SUFFICES ASSUME StatsInv, [StatsNext]_vars
             PROVE  StatsInv'
    OBVIOUS
<1>a. /\ CountersType /\ RowsInv /\ SaveProgress /\ NeverOvercounts /\ CleanRestartExact
      /\ total \in [Counters -> Nat] /\ status \in [Counters -> Nat]
      /\ ever \in [Counters -> Nat]
    BY DEF StatsInv, CountersType
<1>z. Zero \in [Counters -> Nat] /\ \A k \in Counters : Zero[k] = 0 /\ Zero[k] <= ever[k]
    BY <1>a DEF Zero
<1>1. ASSUME NEW failed \in SUBSET FailingReads, Start(failed)
      PROVE  StatsInv'
  <2>1. /\ life = "down" /\ life' = "running" /\ total' = LoadStatusData(failed)
        /\ clean' = (clean /\ failed = {})
        /\ UNCHANGED <<save_idx, rows, status, ever>>
      BY <1>1 DEF Start, database
  <2>2. CountersType' /\ NeverOvercounts'
      BY <1>a, <2>1, LoadsCounted DEF CountersType, NeverOvercounts
  <2>3. RowsInv'
      BY <1>a, <2>1 DEF RowsInv, Blocked
  <2>4. SaveProgress' /\ CleanRestartExact'
      BY <1>a, <2>1, LoadsCounted DEF SaveProgress, CleanRestartExact
  <2>5. QED
      BY <2>2, <2>3, <2>4 DEF StatsInv
<1>2. CASE Crash
  <2>1. /\ life' = "down" /\ total' = Zero /\ save_idx' = 1 /\ ~clean'
        /\ UNCHANGED <<rows, status, ever>>
      BY <1>2 DEF Crash, ProcessEnds, database
  <2>2. CountersType' /\ NeverOvercounts'
      BY <1>a, <1>z, <2>1 DEF CountersType, NeverOvercounts
  <2>3. RowsInv'
      BY <1>a, <2>1 DEF RowsInv, Blocked
  <2>4. SaveProgress' /\ CleanRestartExact'
      BY <1>a, <2>1, KeysAreCounters DEF SaveProgress, CleanRestartExact
  <2>5. QED
      BY <2>2, <2>3, <2>4 DEF StatsInv
<1>3. CASE RecvStop
  <2>1. /\ life = "running" /\ life' = "saving"
        /\ UNCHANGED <<total, save_idx, rows, status, ever, clean>>
      BY <1>3 DEF RecvStop, database, ghost
  <2>2. CountersType' /\ NeverOvercounts' /\ RowsInv'
      BY <1>a, <2>1 DEF CountersType, NeverOvercounts, RowsInv, Blocked
  <2>3. SaveProgress' /\ CleanRestartExact'
      BY <1>a, <2>1 DEF SaveProgress, CleanRestartExact
  <2>4. QED
      BY <2>2, <2>3 DEF StatsInv
<1>4. CASE SaveStatusKey
  <2> DEFINE k == StatusKeys[save_idx]
  <2>1. /\ life = "saving" /\ UNCHANGED <<rows, ever>>
        /\ save_idx \in 1 .. 4 /\ k \in Counters
      BY <1>4, <1>a, KeysAreCounters DEF SaveStatusKey, SaveProgress
  <2>2. CASE ProcessEnds /\ ~clean' /\ UNCHANGED status
    <3>1. life' = "down" /\ total' = Zero /\ save_idx' = 1
        BY <2>2 DEF ProcessEnds
    <3>2. CountersType' /\ NeverOvercounts' /\ RowsInv'
        BY <1>a, <1>z, <2>1, <2>2, <3>1 DEF CountersType, NeverOvercounts, RowsInv, Blocked
    <3>3. SaveProgress' /\ CleanRestartExact'
        BY <1>a, <2>2, <3>1, KeysAreCounters DEF SaveProgress, CleanRestartExact
    <3>4. QED
        BY <3>2, <3>3 DEF StatsInv
  <2>3. ASSUME status' = [status EXCEPT ![k] = total[k]], UNCHANGED clean,
               \/ /\ save_idx < Len(StatusKeys) /\ save_idx' = save_idx + 1
                  /\ UNCHANGED <<life, total>>
               \/ /\ save_idx = Len(StatusKeys) /\ ProcessEnds
        PROVE  StatsInv'
    <3>1. /\ status' \in [Counters -> Nat] /\ status'[k] = total[k]
          /\ \A j \in Counters : j # k => status'[j] = status[j]
        BY <1>a, <2>1, <2>3
    <3>2. CountersType' /\ NeverOvercounts' /\ RowsInv'
      <4>1. total' \in [Counters -> Nat] /\ \A j \in Counters : total'[j] <= ever[j]
          BY <1>a, <1>z, <2>3 DEF ProcessEnds, NeverOvercounts
      <4>2. QED
          BY <1>a, <2>1, <3>1, <4>1 DEF CountersType, NeverOvercounts, RowsInv, Blocked
    <3>3. clean => total = ever
        BY <1>a, <2>1 DEF CleanRestartExact
    <3>4. ASSUME clean, NEW i \in 1 .. save_idx
          PROVE  status'[StatusKeys[i]] = ever[StatusKeys[i]]
      <4>1. StatusKeys[i] \in Counters
          BY <2>1, KeysAreCounters
      <4>2. CASE StatusKeys[i] = k
          BY <3>1, <3>3, <3>4, <4>2
      <4>3. CASE StatusKeys[i] # k
        <5>1. i \in 1 .. save_idx - 1
            BY <2>1, <4>3
        <5>2. QED
            BY <1>a, <2>1, <3>1, <3>4, <4>1, <4>3, <5>1 DEF SaveProgress
      <4>4. QED
          BY <4>2, <4>3
    <3>5. CASE save_idx < Len(StatusKeys) /\ save_idx' = save_idx + 1 /\ UNCHANGED <<life, total>>
      <4>1. save_idx' \in 1 .. Len(StatusKeys) /\ save_idx' - 1 = save_idx
          BY <2>1, <3>5, KeysAreCounters
      <4>2. SaveProgress'
          BY <2>1, <2>3, <3>4, <3>5, <4>1 DEF SaveProgress
      <4>3. CleanRestartExact'
          BY <2>1, <2>3, <3>3, <3>5 DEF CleanRestartExact
      <4>4. QED
          BY <3>2, <4>2, <4>3 DEF StatsInv
    <3>6. CASE save_idx = Len(StatusKeys) /\ ProcessEnds
      <4>1. life' = "down" /\ save_idx' = 1 /\ save_idx = 4
          BY <3>6, KeysAreCounters DEF ProcessEnds
      <4>2. clean => \A j \in Counters : status'[j] = ever[j]
          BY <3>4, <4>1, KeysAreCounters
      <4>3. clean => status' = ever
          BY <1>a, <3>1, <4>2
      <4>4. SaveProgress' /\ CleanRestartExact'
          BY <2>1, <2>3, <4>1, <4>3, KeysAreCounters DEF SaveProgress, CleanRestartExact
      <4>5. QED
          BY <3>2, <4>4 DEF StatsInv
    <3>7. QED
        BY <2>3, <3>5, <3>6
  <2>4. QED
      BY <1>4, <2>2, <2>3 DEF SaveStatusKey
<1>5. ASSUME NEW c \in Clients, NEW k \in Kinds, Query(c, k)
      PROVE  StatsInv'
  <2> DEFINE row == [id |-> next_id, client |-> c, blocked |-> k = "blocked", hour |-> now]
  <2>1. /\ life = "running" /\ total' = CountQuery(total, k) /\ ever' = CountQuery(ever, k)
        /\ UNCHANGED <<life, save_idx, status, clean>>
        /\ rows' = rows \/ rows' = rows \cup {row}
      BY <1>5 DEF Query
  <2>2. CountersType'
      BY <1>a, <2>1, Counted DEF CountersType
  <2>3. \A j \in Counters : /\ total[j] <= ever[j] => total'[j] <= ever'[j]
                            /\ ever[j] <= ever'[j]
      BY <1>a, <2>1, Counted DEF Counters
  <2>4. NeverOvercounts'
    <3> SUFFICES ASSUME NEW j \in Counters
                 PROVE  total'[j] <= ever'[j] /\ status'[j] <= ever'[j]
        BY DEF NeverOvercounts
    <3>1. /\ total[j] <= ever[j] /\ status[j] <= ever[j]
          /\ status[j] \in Nat /\ ever[j] \in Nat /\ ever'[j] \in Nat
        BY <1>a, <2>2 DEF NeverOvercounts, CountersType
    <3>2. QED
        BY <2>1, <2>3, <3>1
  <2>5. RowsInv'
    <3>1. /\ IsFiniteSet(rows) /\ IsFiniteSet(Blocked) /\ Cardinality(rows) \in Nat
          /\ Cardinality(Blocked) \in Nat
        BY <1>a, FS_Subset, FS_CardinalityType DEF RowsInv, Blocked
    <3>2. /\ IsFiniteSet(rows') /\ Cardinality(rows') \in Nat
          /\ Cardinality(rows') <= Cardinality(rows) + 1
      <4>1. /\ IsFiniteSet(rows \cup {row})
            /\ \/ Cardinality(rows \cup {row}) = Cardinality(rows)
               \/ Cardinality(rows \cup {row}) = Cardinality(rows) + 1
          BY <3>1, FS_AddElement
      <4> HIDE DEF row
      <4>2. QED
          BY <2>1, <3>1, <4>1
    <3>3. Blocked' \subseteq Blocked \cup (IF k = "blocked" THEN {row} ELSE {})
      <4>1. row.blocked <=> k = "blocked"
          OBVIOUS
      <4> HIDE DEF row
      <4>2. QED
          BY <2>1, <4>1 DEF Blocked
    <3>4. /\ Cardinality(Blocked') \in Nat
          /\ Cardinality(Blocked') <= Cardinality(Blocked) + (IF k = "blocked" THEN 1 ELSE 0)
      <4>1. CASE k = "blocked"
        <5>1. /\ IsFiniteSet(Blocked \cup {row})
              /\ Cardinality(Blocked \cup {row}) \in Nat
              /\ Cardinality(Blocked \cup {row}) <= Cardinality(Blocked) + 1
          <6>1. /\ IsFiniteSet(Blocked \cup {row})
                /\ \/ Cardinality(Blocked \cup {row}) = Cardinality(Blocked)
                   \/ Cardinality(Blocked \cup {row}) = Cardinality(Blocked) + 1
              BY <3>1, FS_AddElement
          <6> HIDE DEF row
          <6>2. QED
              BY <3>1, <6>1
        <5>2. IsFiniteSet(Blocked') /\ Cardinality(Blocked') <= Cardinality(Blocked \cup {row})
            BY <3>3, <4>1, <5>1, FS_Subset
        <5>3. QED
            BY <3>1, <4>1, <5>1, <5>2, FS_CardinalityType
      <4>2. CASE k # "blocked"
        <5>1. IsFiniteSet(Blocked') /\ Cardinality(Blocked') <= Cardinality(Blocked)
            BY <3>1, <3>3, <4>2, FS_Subset
        <5>2. QED
            BY <3>1, <4>2, <5>1, FS_CardinalityType
      <4>3. QED
          BY <4>1, <4>2
    <3>5. /\ ever'["total_request"] = ever["total_request"] + 1
          /\ ever'["total_blocked_request"] =
               ever["total_blocked_request"] + (IF k = "blocked" THEN 1 ELSE 0)
          /\ ever["total_request"] \in Nat /\ ever["total_blocked_request"] \in Nat
        BY <1>a, <2>1, Counted DEF Counters
    <3> HIDE DEF row
    <3>6. QED
        BY <1>a, <3>1, <3>2, <3>4, <3>5 DEF RowsInv
  <2>6. SaveProgress' /\ CleanRestartExact'
      BY <1>a, <2>1 DEF SaveProgress, CleanRestartExact
  <2>7. QED
      BY <2>2, <2>4, <2>5, <2>6 DEF StatsInv
<1>6. ASSUME rows' \subseteq rows, UNCHANGED <<life, total, save_idx, status, ever, clean>>
      PROVE  StatsInv'
  <2>1. CountersType' /\ NeverOvercounts'
      BY <1>a, <1>6 DEF CountersType, NeverOvercounts
  <2>2. RowsInv'
      BY <1>a, <1>6, RowsLeave
  <2>3. SaveProgress' /\ CleanRestartExact'
      BY <1>a, <1>6 DEF SaveProgress, CleanRestartExact
  <2>4. QED
      BY <2>1, <2>2, <2>3 DEF StatsInv
<1>7. CASE \/ \E r \in rows : DeleteDomainById(r)
           \/ \E h \in Hours : DeleteDomainBefore(h)
           \/ \E f \in Refreshers : RefreshDelete(f)
    BY <1>6, <1>7
    DEF DeleteDomainById, DeleteDomainBefore, DeleteDomains, RefreshDelete, worker, ghost
<1>8. CASE \/ Tick \/ HourTimer \/ ApiRefresh \/ UNCHANGED vars
           \/ \E f \in Refreshers : RefreshRead(f) \/ RefreshWrite(f)
    BY <1>6, <1>8
    DEF Tick, HourTimer, ApiRefresh, RefreshRead, RefreshWrite, vars, worker, database, ghost
<1>9. QED
    BY <1>1, <1>2, <1>3, <1>4, <1>5, <1>7, <1>8 DEF StatsNext

\* The counters, what is saved of them and the rows stay in step.
THEOREM StatsInvariant == StatsSpec => []StatsInv
<1>1. StatsInit => StatsInv
  <2> SUFFICES ASSUME StatsInit PROVE StatsInv
      OBVIOUS
  <2>1. /\ Zero \in [Counters -> Nat] /\ \A k \in Counters : Zero[k] = 0
        /\ Zero["request_drop"] = 0 /\ Zero["total_request"] = 0
        /\ Zero["total_blocked_request"] = 0
      BY DEF Zero, Counters
  <2>2. RowsInv
    <3>1. rows = {} /\ Blocked = {}
        BY DEF StatsInit, Blocked
    <3>2. QED
        BY <2>1, <3>1, FS_EmptySet DEF StatsInit, RowsInv
  <2>3. CountersType /\ NeverOvercounts
      BY <2>1 DEF StatsInit, CountersType, NeverOvercounts
  <2>4. SaveProgress /\ CleanRestartExact
      BY KeysAreCounters DEF StatsInit, SaveProgress, CleanRestartExact
  <2>5. QED
      BY <2>2, <2>3, <2>4 DEF StatsInv
<1>2. QED
    BY <1>1, StatsStep, PTL DEF StatsSpec

\* load_status_data and save_status_data: in no life does a counter claim more
\* than happened, whatever crashed, failed or was deleted before.
THEOREM CountersBounded == StatsSpec => []NeverOvercounts
<1>1. StatsInv => NeverOvercounts
    BY DEF StatsInv
<1>2. QED
    BY <1>1, StatsInvariant, PTL

\* After any number of restarts that saved all counters, and read all of them
\* back, they are exact.
THEOREM RestartsExact == StatsSpec => []CleanRestartExact
<1>1. StatsInv => CleanRestartExact
    BY DEF StatsInv
<1>2. QED
    BY <1>1, StatsInvariant, PTL
=============================================================================
