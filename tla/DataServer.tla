----------------------------- MODULE DataServer -----------------------------
(***************************************************************************)
(* The query pipeline of smartdns-plus-ui (src/src/data_server.rs).        *)
(*                                                                         *)
(* smartdns hands every finished DNS request to DataServerControl::        *)
(* send_request on one of its own threads.  The request goes through a     *)
(* bounded channel to one asynchronous task, data_server_loop, which       *)
(* collects batches, counts them, remembers which client sent them and     *)
(* writes both to the database from a blocking thread that it awaits.      *)
(* While the task awaits, callers of send_request keep running, the disk   *)
(* fills up or is cleaned, time passes and the plugin may ask for a stop.  *)
(***************************************************************************)
EXTENDS Integers, Sequences, FiniteSets

CONSTANTS
    Requests,       \* the requests smartdns finishes, each of them once
    Clients,        \* client addresses (get_remote_addr)
    Macs,           \* MAC addresses other than 00:00:00:00:00:00
    NoMac,          \* 00:00:00:00:00:00, the MAC of a client not resolved yet
    ClientOf,       \* request -> its client
    MacOf,          \* request -> the MAC that smartdns knew, or NoMac
    KindOf,         \* request -> "query", "prefetch" or "dualstack"
    Blocked,        \* the requests with get_is_blocked()
    Failed,         \* the requests with get_rcode() # 0
    ChanSize,       \* capacity of the data channel (1024 * 256)
    BatchSize,      \* batch_size in batch mode (1024 * 8)
    BatchMode,      \* recv_in_batch, read once when the loop starts
    MacCacheLimit,  \* the MAC cache is cleared above this length (10000)
    BatchAge,       \* a batch writes a client older than this (3000 ms)
    FlushAge,       \* the flush timer writes a client older than this (10000 ms)
    MaxClockBack    \* bound: how often the wall clock is set back

MacOrNone == Macs \cup {NoMac}

ASSUME DataAssumption ==
    /\ IsFiniteSet(Requests)
    /\ NoMac \notin Macs
    /\ ClientOf \in [Requests -> Clients]
    /\ MacOf \in [Requests -> MacOrNone]
    /\ KindOf \in [Requests -> {"query", "prefetch", "dualstack"}]
    /\ Blocked \subseteq Requests
    /\ Failed \subseteq Requests

ASSUME BoundAssumption ==
    /\ ChanSize \in Nat \ {0}
    /\ BatchSize \in Nat \ {0}
    /\ BatchMode \in BOOLEAN
    /\ MacCacheLimit \in Nat
    /\ BatchAge \in Nat
    /\ FlushAge \in Nat
    /\ MaxClockBack \in Nat

VARIABLES
    \* The environment
    disk,            \* free space of the data directory: "ok" or "low"
    clock_back,      \* how often the wall clock was set back so far
    \* DataServerControl and the atomics of DataServer
    notify,          \* a stop message is in the notify channel
    disabled,        \* disable_handle_request
    chan,            \* the data channel
    \* data_server_loop
    pc,              \* where the loop task is
    req_list,        \* requests received and not yet handled
    batch_timer,     \* batch_timer.is_some()
    check_running,   \* is_check_timer_running
    client_list,     \* client_data_list or flush_list of the write awaited
    \* client_pending_list and mac_cache
    pending,         \* client -> time since first_seen and the MAC known
    mac_cache,       \* client -> the last MAC reported for it
    \* DataStats
    total,           \* the counters total_request, total_blocked_request,
                     \* total_failed_request and request_drop
    \* The database
    rows,            \* request -> how many rows of table domain it has
    client_rows,     \* rows of table client, by their key (client_ip, mac)
    status,          \* table status_data, the counters of the last exit
    \* History: not in the code, what became of each request and client
    where,           \* request -> its fate so far
    lost_clients     \* clients whose write failed

pipeline == <<notify, disabled, chan>>
loop     == <<pc, req_list, batch_timer, check_running, client_list>>
caches   == <<pending, mac_cache>>
tables   == <<rows, client_rows, status>>
vars     == <<disk, clock_back, pipeline, loop, caches, total, tables,
              where, lost_clients>>

-----------------------------------------------------------------------------
(* Types                                                                   *)

Counters == {"total_request", "total_blocked_request",
             "total_failed_request", "request_drop"}

\* The order in which save_status_data writes the counters.
StatusKeys == <<"total_request", "total_blocked_request",
                "total_failed_request", "request_drop">>

\* The awaits of the loop: a blocking call is running until the next step.
LoopStates == {"spawned", "select", "insert_domain", "insert_client",
               "flush_clients", "server_check", "final_flush",
               "stop_worker", "exited"}

Fates == {"new", "checked", "ignored", "dropped", "queued", "skipped",
          "counted", "stored", "lost", "abandoned"}

\* Ages saturate one past the larger limit; -1 is a first_seen in the future.
MaxAge == 1 + IF BatchAge > FlushAge THEN BatchAge ELSE FlushAge

PendingEntry == [age : -1 .. MaxAge, mac : MacOrNone]

PartialFunctions(S, T) == UNION {[D -> T] : D \in SUBSET S}

TypeOK ==
    /\ disk \in {"ok", "low"}
    /\ clock_back \in 0 .. MaxClockBack
    /\ notify \in BOOLEAN
    /\ disabled \in BOOLEAN
    /\ chan \in Seq(Requests)
    /\ pc \in LoopStates
    /\ req_list \in Seq(Requests)
    /\ batch_timer \in BOOLEAN
    /\ check_running \in BOOLEAN
    /\ client_list \in SUBSET (Clients \X MacOrNone)
    /\ pending \in PartialFunctions(Clients, PendingEntry)
    /\ mac_cache \in PartialFunctions(Clients, Macs)
    /\ total \in [Counters -> Nat]
    /\ rows \in [Requests -> Nat]
    /\ client_rows \in SUBSET (Clients \X MacOrNone)
    /\ status \in [Counters -> Nat]
    /\ where \in [Requests -> Fates]
    /\ lost_clients \in SUBSET Clients

Init ==
    /\ disk = "ok"
    /\ clock_back = 0
    /\ notify = FALSE
    /\ disabled = FALSE
    /\ chan = <<>>
    /\ pc = "spawned"
    /\ req_list = <<>>
    /\ batch_timer = FALSE
    /\ check_running = FALSE
    /\ client_list = {}
    /\ pending = [c \in {} |-> [age |-> 0, mac |-> NoMac]]
    /\ mac_cache = [c \in {} |-> NoMac]
    /\ total = [k \in Counters |-> 0]
    /\ rows = [r \in Requests |-> 0]
    /\ client_rows = {}
    /\ status = [k \in Counters |-> 0]
    /\ where = [r \in Requests |-> "new"]
    /\ lost_clients = {}

-----------------------------------------------------------------------------
(* The environment                                                         *)

DiskChange ==
    /\ disk' = IF disk = "ok" THEN "low" ELSE "ok"
    /\ UNCHANGED <<clock_back, pipeline, loop, caches, total, tables, where,
                   lost_clients>>

\* get_utc_time_ms advances: every pending client gets older.
Tick ==
    /\ pending' = [c \in DOMAIN pending |->
                     [pending[c] EXCEPT !.age = IF @ = MaxAge THEN @ ELSE @ + 1]]
    /\ UNCHANGED <<disk, clock_back, pipeline, loop, mac_cache, total, tables,
                   where, lost_clients>>

\* The wall clock is set back before every first_seen.
ClockBack ==
    /\ clock_back < MaxClockBack
    /\ clock_back' = clock_back + 1
    /\ pending' = [c \in DOMAIN pending |-> [pending[c] EXCEPT !.age = -1]]
    /\ UNCHANGED <<disk, pipeline, loop, mac_cache, total, tables, where,
                   lost_clients>>

-----------------------------------------------------------------------------
(* DataServerControl::send_request, on a thread of smartdns                *)

\* The early returns: a prefetch, or request handling suspended.
SendRequest(r) ==
    /\ where[r] = "new"
    /\ where' = [where EXCEPT ![r] =
                   IF KindOf[r] = "prefetch" \/ disabled THEN "ignored"
                                                         ELSE "checked"]
    /\ UNCHANGED <<disk, clock_back, pipeline, loop, caches, total, tables,
                   lost_clients>>

\* Mutant: the counter is lowered instead of being masked.
AddRequestDropSub == [total EXCEPT !["request_drop"] = @ - 1]

\* add_request_drop(1) is fetch_and(1) on 64-bit targets.
AddRequestDrop == [total EXCEPT !["request_drop"] = @ % 2]

ChanFull == Len(chan) = ChanSize

\* try_send fails on a full channel, or when the loop has dropped data_rx.
TrySend(r) ==
    /\ where[r] = "checked"
    /\ \/ /\ ~ChanFull /\ pc # "exited"
          /\ chan' = Append(chan, r)
          /\ where' = [where EXCEPT ![r] = "queued"]
          /\ UNCHANGED total
       \/ /\ ChanFull \/ pc = "exited"
          /\ total' = AddRequestDrop
          /\ where' = [where EXCEPT ![r] = "dropped"]
          /\ UNCHANGED chan
    /\ UNCHANGED <<disk, clock_back, notify, disabled, loop, caches, tables,
                   lost_clients>>

\* DataServerControl::stop_data_server sends the stop message, then joins.
StopDataServer ==
    /\ ~notify
    /\ notify' = TRUE
    /\ UNCHANGED <<disk, clock_back, disabled, chan, loop, caches, total,
                   tables, where, lost_clients>>

-----------------------------------------------------------------------------
(* data_server_handle_dns_request: the batch s is counted, its clients are *)
(* merged into the pending list and the ones that are due leave it.        *)

\* A u64 difference: a first_seen in the future wraps to a huge age.
Older(age, limit) == age < 0 \/ age > limit

\* Mutant: dualstack requests are not skipped.
QueryIdxAll(s) == DOMAIN s

QueryIdx(s) == {i \in DOMAIN s : KindOf[s[i]] = "query"}

\* The last position of a batch that satisfies a condition.
LastIdx(I) == CHOOSE i \in I : \A j \in I : j <= i

\* Mutant: the cache is not keyed by the client.
MacIdxAnyClient(s, c) == {i \in DOMAIN s : MacOf[s[i]] # NoMac}

\* Pass 1 reads every request of the batch, dualstack ones too.
MacIdx(s, c) == {i \in DOMAIN s : ClientOf[s[i]] = c /\ MacOf[s[i]] # NoMac}

\* mac_cache after pass 1; the map is cleared before it when it got too long.
CachedMacs(s) ==
    LET kept == IF Cardinality(DOMAIN mac_cache) > MacCacheLimit
                THEN {} ELSE DOMAIN mac_cache
        seen == {c \in Clients : MacIdx(s, c) # {}}
    IN  [c \in kept \cup seen |->
           IF c \in seen THEN MacOf[s[LastIdx(MacIdx(s, c))]]
                         ELSE mac_cache[c]]

\* The MAC pass 2 uses for a request: its own, else the cached one.
ResolvedMac(r, cache) ==
    IF MacOf[r] # NoMac THEN MacOf[r]
    ELSE IF ClientOf[r] \in DOMAIN cache THEN cache[ClientOf[r]] ELSE NoMac

ClientIdx(s, c) == {i \in QueryIdx(s) : ClientOf[s[i]] = c}

QueryClients(s) == {c \in Clients : ClientIdx(s, c) # {}}

\* client_pending_list after pass 2.  Queries of one client resolve to NoMac
\* either all or none, so its last query decides the MAC of the entry.
MergedPending(s, cache) ==
    [c \in DOMAIN pending \cup QueryClients(s) |->
       LET old == IF c \in DOMAIN pending THEN pending[c]
                                          ELSE [age |-> 0, mac |-> NoMac]
           mac == IF c \in QueryClients(s)
                  THEN ResolvedMac(s[LastIdx(ClientIdx(s, c))], cache)
                  ELSE NoMac
       IN  IF mac = NoMac THEN old ELSE [old EXCEPT !.mac = mac]]

\* Mutant: the || of the condition became an &&.
DueIfBoth(list, limit) ==
    {c \in DOMAIN list : Older(list[c].age, limit) /\ list[c].mac # NoMac}

\* The clients a list is due for: old enough, or their MAC is known.
Due(list, limit) ==
    {c \in DOMAIN list : Older(list[c].age, limit) \/ list[c].mac # NoMac}

\* Mutant: clients that were never resolved are not written.
ClientDataResolved(list, D) ==
    {<<c, list[c].mac>> : c \in {d \in D : list[d].mac # NoMac}}

ClientData(list, D) == {<<c, list[c].mac>> : c \in D}

Without(list, D) == [c \in DOMAIN list \ D |-> list[c]]

\* The counters are raised before anything is written.
AddBatch(s) ==
    [total EXCEPT
       !["total_request"] = @ + Cardinality(QueryIdx(s)),
       !["total_blocked_request"] =
            @ + Cardinality({i \in QueryIdx(s) : s[i] \in Blocked}),
       !["total_failed_request"] =
            @ + Cardinality({i \in QueryIdx(s) : s[i] \in Failed})]

RangeOf(s) == {s[i] : i \in DOMAIN s}

HandleDnsRequest(s) ==
    LET cache  == CachedMacs(s)
        merged == MergedPending(s, cache)
        due    == Due(merged, BatchAge)
    IN  /\ mac_cache' = cache
        /\ pending' = Without(merged, due)
        /\ client_list' = ClientData(merged, due)
        /\ total' = AddBatch(s)
        /\ where' = [r \in Requests |->
                       IF r \notin RangeOf(s) THEN where[r]
                       ELSE IF KindOf[r] = "query" THEN "counted" ELSE "skipped"]
        /\ pc' = "insert_domain"

-----------------------------------------------------------------------------
(* data_server_loop, one action per select! branch and per blocking call   *)

\* The loop takes both receivers and starts the statistics worker.
LoopStart ==
    /\ pc = "spawned"
    /\ pc' = "select"
    /\ UNCHANGED <<disk, clock_back, pipeline, req_list, batch_timer,
                   check_running, client_list, caches, total, tables, where,
                   lost_clients>>

batch_size == IF BatchMode THEN BatchSize ELSE 1

\* Mutant: the timer is armed for what was waiting before, not for the rest.
ArmBatchTimerEarly == batch_timer' = (req_list # <<>>)

\* A batch timer that is not running is created, one that runs is kept.
ArmBatchTimer == batch_timer' = TRUE

\* data_rx.recv_many: n requests are received; a full batch is handled now,
\* a smaller one waits for the batch timer, which is armed if it was not.
RecvMany(n) ==
    /\ pc = "select"
    /\ n <= Len(chan) /\ n <= batch_size
    /\ chan' = SubSeq(chan, n + 1, Len(chan))
    /\ LET s == req_list \o SubSeq(chan, 1, n)
       IN  /\ req_list' = s
           /\ IF BatchMode /\ Len(s) < batch_size
              THEN /\ ArmBatchTimer
                   /\ UNCHANGED <<pc, client_list, caches, total, where>>
              ELSE /\ batch_timer' = FALSE
                   /\ HandleDnsRequest(s)
    /\ UNCHANGED <<disk, clock_back, notify, disabled, check_running, tables,
                   lost_clients>>

\* The batch timer fires.
BatchTimer ==
    /\ pc = "select"
    /\ batch_timer
    /\ batch_timer' = FALSE
    /\ HandleDnsRequest(req_list)
    /\ UNCHANGED <<disk, clock_back, pipeline, req_list, check_running, tables,
                   lost_clients>>

\* Mutant: dualstack requests get a row too.
NewRowsAll(s, r) == Cardinality({i \in DOMAIN s : s[i] = r})

\* The rows of table domain that a batch adds for a request.
NewRows(s, r) == Cardinality({i \in QueryIdx(s) : s[i] = r})

\* DB::insert_domain, one transaction: all rows of the batch or none.  On an
\* error the client list of the batch is dropped unwritten.
InsertDomain ==
    /\ pc = "insert_domain"
    /\ \/ /\ rows' = [r \in Requests |-> rows[r] + NewRows(req_list, r)]
          /\ where' = [r \in Requests |->
                         IF where[r] = "counted" THEN "stored" ELSE where[r]]
          /\ pc' = "insert_client"
          /\ UNCHANGED <<req_list, client_list, lost_clients>>
       \/ /\ where' = [r \in Requests |->
                         IF where[r] = "counted" THEN "lost" ELSE where[r]]
          /\ lost_clients' = lost_clients \cup {d[1] : d \in client_list}
          /\ client_list' = {}
          /\ req_list' = <<>>
          /\ pc' = "select"
          /\ UNCHANGED rows
    /\ UNCHANGED <<disk, clock_back, pipeline, batch_timer, check_running,
                   caches, total, client_rows, status>>

\* DB::insert_client, one transaction; an error only reaches the log.
WriteClients ==
    /\ client_list' = {}
    /\ \/ /\ client_rows' = client_rows \cup client_list
          /\ UNCHANGED lost_clients
       \/ /\ lost_clients' = lost_clients \cup {d[1] : d \in client_list}
          /\ UNCHANGED client_rows

\* Mutant: req_list is not cleared after the batch.
InsertClientKeepsList ==
    /\ pc = "insert_client"
    /\ WriteClients
    /\ pc' = "select"
    /\ UNCHANGED <<disk, clock_back, pipeline, req_list, batch_timer,
                   check_running, caches, total, rows, status, where>>

\* The second half of the blocking call of a batch, then req_list.clear().
InsertClient ==
    /\ pc = "insert_client"
    /\ WriteClients
    /\ req_list' = <<>>
    /\ pc' = "select"
    /\ UNCHANGED <<disk, clock_back, pipeline, batch_timer, check_running,
                   caches, total, rows, status, where>>

\* client_flush_timer fires: clients that are due are written on their own.
FlushTimer ==
    /\ pc = "select"
    /\ LET due == Due(pending, FlushAge)
       IN  /\ pending' = Without(pending, due)
           /\ client_list' = ClientData(pending, due)
           /\ pc' = IF due = {} THEN "select" ELSE "flush_clients"
    /\ UNCHANGED <<disk, clock_back, pipeline, req_list, batch_timer,
                   check_running, mac_cache, total, tables, where,
                   lost_clients>>

FlushClients ==
    /\ pc = "flush_clients"
    /\ WriteClients
    /\ pc' = "select"
    /\ UNCHANGED <<disk, clock_back, pipeline, req_list, batch_timer,
                   check_running, caches, total, rows, status, where>>

\* check_timer fires: fetch_xor on the flag, and the tick is skipped if it
\* was set.
CheckTimer ==
    /\ pc = "select"
    /\ check_running' = ~check_running
    /\ pc' = IF check_running THEN "select" ELSE "server_check"
    /\ UNCHANGED <<disk, clock_back, pipeline, req_list, batch_timer,
                   client_list, caches, total, tables, where, lost_clients>>

\* Mutant: handling is never resumed.
ServerCheckNoResume ==
    /\ pc = "server_check"
    /\ disabled' = (disabled \/ disk = "low")
    /\ check_running' = FALSE
    /\ pc' = "select"
    /\ UNCHANGED <<disk, clock_back, notify, chan, req_list, batch_timer,
                   client_list, caches, total, tables, where, lost_clients>>

\* server_check: requests are handled only while there is disk space.
ServerCheck ==
    /\ pc = "server_check"
    /\ disabled' = (disk = "low")
    /\ check_running' = FALSE
    /\ pc' = "select"
    /\ UNCHANGED <<disk, clock_back, notify, chan, req_list, batch_timer,
                   client_list, caches, total, tables, where, lost_clients>>

\* Mutant: the loop continues.
RecvNotifyContinue ==
    /\ pc = "select"
    /\ notify
    /\ notify' = FALSE
    /\ UNCHANGED <<disk, clock_back, disabled, chan, loop, caches, total,
                   tables, where, lost_clients>>

\* The stop message breaks the loop; the pending clients are drained.
RecvNotify ==
    /\ pc = "select"
    /\ notify
    /\ client_list' = ClientData(pending, DOMAIN pending)
    /\ pending' = Without(pending, DOMAIN pending)
    /\ pc' = IF DOMAIN pending = {} THEN "stop_worker" ELSE "final_flush"
    /\ UNCHANGED <<disk, clock_back, pipeline, req_list, batch_timer,
                   check_running, mac_cache, total, tables, where,
                   lost_clients>>

FinalFlush ==
    /\ pc = "final_flush"
    /\ WriteClients
    /\ pc' = "stop_worker"
    /\ UNCHANGED <<disk, clock_back, pipeline, req_list, batch_timer,
                   check_running, caches, total, rows, status, where>>

\* DataStats::stop_worker joins the worker, whose save_status_data writes the
\* counters one by one and stops at the first error.  Then the loop returns:
\* what is still in req_list or in the channel is gone.
StopWorker ==
    /\ pc = "stop_worker"
    /\ \E n \in 0 .. Len(StatusKeys) :
         status' = [k \in Counters |->
                      IF \E i \in 1 .. n : StatusKeys[i] = k
                      THEN total[k] ELSE status[k]]
    /\ where' = [r \in Requests |->
                   IF where[r] = "queued" THEN "abandoned" ELSE where[r]]
    /\ chan' = <<>>
    /\ req_list' = <<>>
    /\ batch_timer' = FALSE
    /\ pc' = "exited"
    /\ UNCHANGED <<disk, clock_back, notify, disabled, check_running,
                   client_list, caches, total, rows, client_rows,
                   lost_clients>>

-----------------------------------------------------------------------------
Next ==
    \/ DiskChange
    \/ Tick
    \/ ClockBack
    \/ \E r \in Requests : SendRequest(r)
    \/ \E r \in Requests : TrySend(r)
    \/ StopDataServer
    \/ LoopStart
    \/ \E n \in 1 .. batch_size : RecvMany(n)
    \/ BatchTimer
    \/ InsertDomain
    \/ InsertClient
    \/ FlushTimer
    \/ FlushClients
    \/ CheckTimer
    \/ ServerCheck
    \/ RecvNotify
    \/ FinalFlush
    \/ StopWorker

\* The runtime resumes the task after every blocking call, and select! polls
\* its branches in random order, so a branch that is ready again and again is
\* taken.  Timers keep firing and time keeps passing.
Fairness ==
    /\ WF_vars(LoopStart)
    /\ WF_vars(InsertDomain)
    /\ WF_vars(InsertClient)
    /\ WF_vars(FlushClients)
    /\ WF_vars(ServerCheck)
    /\ WF_vars(FinalFlush)
    /\ WF_vars(StopWorker)
    /\ WF_vars(Tick)
    /\ SF_vars(\E n \in 1 .. batch_size : RecvMany(n))
    /\ SF_vars(BatchTimer)
    /\ SF_vars(FlushTimer)
    /\ SF_vars(CheckTimer)
    /\ SF_vars(RecvNotify)

Spec == Init /\ [][Next]_vars

FairSpec == Spec /\ Fairness

-----------------------------------------------------------------------------
(* Safety properties                                                       *)

CountedFates == {"counted", "stored", "lost"}

Counted == {r \in Requests : where[r] \in CountedFates}

\* The three counters of DataStats are exact: a query that left the channel is
\* counted once, whatever batch, timer or failed write it went through, and
\* neither a prefetch nor a dualstack request is ever counted.
CountersExact ==
    /\ total["total_request"] = Cardinality(Counted)
    /\ total["total_blocked_request"] = Cardinality(Counted \cap Blocked)
    /\ total["total_failed_request"] = Cardinality(Counted \cap Failed)

\* A request gets at most one row of table domain, only a request that was
\* counted gets one, and it gets it exactly when its batch was committed.
RowsExact ==
    \A r \in Requests : rows[r] = IF where[r] = "stored" THEN 1 ELSE 0

\* The batch in req_list has been counted and is being written.
Handling == pc \in {"insert_domain", "insert_client"}

NoRepeat(s) == \A i, j \in DOMAIN s : s[i] = s[j] => i = j

\* Requests are neither lost nor duplicated between the channel and req_list:
\* one that try_send accepted waits in exactly one place until a batch takes
\* it or the loop exits, and nothing else waits there.
NoRequestLost ==
    /\ NoRepeat(chan) /\ NoRepeat(req_list)
    /\ RangeOf(chan) \cap RangeOf(req_list) = {}
    /\ \A r \in Requests :
         where[r] = "queued" <=>
             \/ r \in RangeOf(chan)
             \/ r \in RangeOf(req_list) /\ ~Handling

\* The client of every counted query is known somewhere: still pending, being
\* written, in table client, or its write failed.  Flushing by batch, by timer
\* and at exit never drops a client in between, and the loop exits with none
\* left in memory.
ClientsAccounted ==
    /\ \A r \in Counted :
        \/ ClientOf[r] \in DOMAIN pending
        \/ \E d \in client_list \cup client_rows : d[1] = ClientOf[r]
        \/ ClientOf[r] \in lost_clients
    /\ pc = "exited" => DOMAIN pending = {} /\ client_list = {}

\* A MAC is never attributed to the wrong client by the cache: a client that
\* is recorded with a MAC sent a request that carried it.
MacsWitnessed ==
    \A d \in client_rows \cup client_list :
        d[2] # NoMac => \E r \in Requests : ClientOf[r] = d[1] /\ MacOf[r] = d[2]

\* The queries counted but not yet written are those of the batch in req_list,
\* and only while its rows are being written; a batch that is being written
\* holds no request that could be taken again.
BatchInWrite ==
    /\ \A r \in Requests :
         where[r] = "counted" <=> /\ pc = "insert_domain"
                                  /\ r \in RangeOf(req_list)
                                  /\ KindOf[r] = "query"
    /\ Handling => \A r \in RangeOf(req_list) :
                     where[r] \in {"counted", "stored", "skipped"}

\* The inductive invariant behind the counters and the rows: a batch is
\* counted right only if none of its requests repeats or was counted before.
Accounting == NoRequestLost /\ BatchInWrite /\ RowsExact /\ CountersExact

-----------------------------------------------------------------------------
(* What the user interface says of the drop counter                        *)

\* The dashboard shows request_drop as the number of requests dropped
\* (src/wwwroot/app.js:543).
DropsCounted ==
    total["request_drop"] = Cardinality({r \in Requests : where[r] = "dropped"})

-----------------------------------------------------------------------------
(* Liveness properties, under FairSpec                                     *)

\* A request accepted by the channel does not wait forever: a batch takes it
\* or the loop exits.
QueuedHandled ==
    \A r \in Requests : where[r] = "queued" ~> where[r] # "queued"

\* A pending client is written (or its write fails) even if its MAC is never
\* learned and no further request arrives.
PendingFlushed ==
    \A c \in Clients : c \in DOMAIN pending ~> c \notin DOMAIN pending

\* Request handling follows the disk: it is suspended once space stays low and
\* resumed once space stays sufficient, as long as the loop runs.
SuspendFollowsDisk ==
    /\ <>[](disk = "low") => <>[](disabled \/ pc = "exited")
    /\ <>[](disk = "ok") => <>[](~disabled \/ pc = "exited")

\* Once stop_data_server has sent its message the loop ends, so that joining it
\* returns.
StopCompletes == notify ~> pc = "exited"
-----------------------------------------------------------------------------
(* Refinement                                                              *)

QueriesIn(fates) == {r \in Requests : KindOf[r] = "query" /\ where[r] \in fates}

Log == INSTANCE QueryLog WITH
           Queries <- {r \in Requests : KindOf[r] = "query"},
           fresh   <- QueriesIn({"new", "checked"}),
           waiting <- QueriesIn({"queued"}),
           batch   <- QueriesIn({"counted"}),
           log     <- {r \in Requests : rows[r] > 0},
           count   <- total["total_request"],
           closed  <- pc = "exited"

\* The pipeline implements the query log: whatever channel, timers, failing
\* writes and a stop make of it, queries are taken from what was accepted, a
\* batch at a time, counted with the batch, and logged all together or never.
ImplementsQueryLog == Log!Spec
=============================================================================
