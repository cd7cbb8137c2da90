-------------------------------- MODULE Stats --------------------------------
(***************************************************************************)
(* The statistics of smartdns-plus-ui over several lives of the process    *)
(* (src/src/data_stats.rs, src/src/db.rs).  The counters live in memory;   *)
(* they are saved one by one when the worker ends and loaded, with a       *)
(* fallback to the query log, when the process starts.  Every hour, and    *)
(* whenever a client of the API asks for it, a refresh deletes old rows of *)
(* the query log and rebuilds the top lists from it: it reads through a    *)
(* connection of its own and writes later, in a transaction.               *)
(***************************************************************************)
EXTENDS Integers, Sequences, FiniteSets

CONSTANTS
    Clients,
    LogAge,       \* max_log_age_ms, in hours
    TopAge,       \* the span of the top lists, in hours (7 * 24)
    Refreshers,   \* "hourly", and "api" if the API is used to refresh
    DbErrors,     \* whether a statement of the database may fail
    FailingReads, \* the reads of load_status_data that may fail
    MaxQueries,   \* bound: queries answered
    MaxHour       \* bound: hours that pass

ASSUME StatsAssumption ==
    /\ IsFiniteSet(Clients)
    /\ LogAge \in Nat \ {0}
    /\ TopAge \in Nat
    /\ Refreshers \in {{"hourly"}, {"hourly", "api"}}
    /\ DbErrors \in BOOLEAN
    /\ FailingReads \subseteq {"total_request", "total_blocked_request",
                               "total_failed_request", "request_drop",
                               "rows", "blocked_rows"}
    /\ MaxQueries \in Nat
    /\ MaxHour \in Nat

VARIABLES
    now,          \* the current hour
    life,         \* "down", "running" or "saving": the process, its worker
    total,        \* DataStatsItem: the counters
    save_idx,     \* the next key save_status_data writes
    hourly_work,  \* is_hourly_work_running
    refresher,    \* the hourly refresh and that of the API: where they are
    \* The database
    rows,         \* table domain
    next_id,      \* its AUTOINCREMENT sequence
    hourly,       \* table domain_hourly_count: hour -> count
    top,          \* table top_client_list: client -> count
    status,       \* table status_data
    \* History: not in the code
    ever,         \* what the counters should be
    clean         \* every life ended with all counters saved, and began with
                  \* a load in which no read failed

worker   == <<life, total, save_idx>>
refresh  == <<hourly_work, refresher>>
database == <<rows, next_id, hourly, top, status>>
ghost    == <<ever, clean>>
vars     == <<now, worker, refresh, database, ghost>>

-----------------------------------------------------------------------------
Hours == 0 .. MaxHour

Counters == {"total_request", "total_blocked_request",
             "total_failed_request", "request_drop"}

\* The order of save_status_data.
StatusKeys == <<"total_request", "total_blocked_request",
                "total_failed_request", "request_drop">>

Kinds == {"plain", "blocked", "failed"}

Row == [id : 1 .. MaxQueries, client : Clients, blocked : BOOLEAN, hour : Hours]

TopList == [Clients -> 0 .. MaxQueries]

\* Where a refresh is, and the counts it has read.
RefreshState == [pc : {"idle", "delete", "read", "write"}, list : TopList]

Empty == [c \in Clients |-> 0]

IdleRefresh == [pc |-> "idle", list |-> Empty]

Zero == [k \in Counters |-> 0]

StatsTypeOK ==
    /\ now \in Hours
    /\ life \in {"down", "running", "saving"}
    /\ total \in [Counters -> Nat]
    /\ save_idx \in 1 .. Len(StatusKeys)
    /\ hourly_work \in BOOLEAN
    /\ refresher \in [Refreshers -> RefreshState]
    /\ rows \in SUBSET Row
    /\ next_id \in 1 .. MaxQueries + 1
    /\ hourly \in [Hours -> Nat]
    /\ top \in TopList
    /\ status \in [Counters -> Nat]
    /\ ever \in [Counters -> Nat]
    /\ clean \in BOOLEAN

StatsInit ==
    /\ now = 0
    /\ life = "down"
    /\ total = Zero
    /\ save_idx = 1
    /\ hourly_work = FALSE
    /\ refresher = [r \in Refreshers |-> IdleRefresh]
    /\ rows = {}
    /\ next_id = 1
    /\ hourly = [h \in Hours |-> 0]
    /\ top = Empty
    /\ status = Zero
    /\ ever = Zero
    /\ clean = TRUE

Tick ==
    /\ now < MaxHour
    /\ now' = now + 1
    /\ UNCHANGED <<worker, refresh, database, ghost>>

-----------------------------------------------------------------------------
(* The life of the process                                                 *)

\* Mutants: the rows found are added to what was saved, or preferred to it.
LoadedAddsRows(saved, found) == saved + found

LoadedPrefersRows(saved, found) == IF found > 0 THEN found ELSE saved

\* A counter saved as zero, or not at all, is replaced by a count of rows.
Loaded(saved, found) == IF saved = 0 THEN found ELSE saved

\* What a query finds: what is there, or nothing if it fails.
Found(count, failed) == IF failed THEN 0 ELSE count

\* load_status_data, where the reads in failed find nothing: an error of
\* get_status_data_list is taken for an empty table, it skips rows it cannot
\* read, and get_domain_list_count answers 0.  Failed queries have no fallback,
\* and add_request_drop masks a counter that is zero, so it stays zero.
LoadStatusData(failed) ==
    LET saved(k) == Found(status[k], k \in failed)
        counted(name, found) == Found(Cardinality(found), name \in failed)
    IN [k \in Counters |->
          CASE k = "total_request" -> Loaded(saved(k), counted("rows", rows))
            [] k = "total_blocked_request" ->
                 Loaded(saved(k), counted("blocked_rows", {r \in rows : r.blocked}))
            [] k = "total_failed_request" -> saved(k)
            [] k = "request_drop" -> 0]

\* A refresh begins, on a blocking thread.
Begin == [IdleRefresh EXCEPT !.pc = "delete"]

\* init_db loads the counters, the worker begins with update_stats.  An error
\* in the load is not told: the process runs on with what was found.
Start(failed) ==
    /\ life = "down"
    /\ life' = "running"
    /\ total' = LoadStatusData(failed)
    /\ clean' = (clean /\ failed = {})
    /\ hourly_work' = TRUE
    /\ refresher' = [refresher EXCEPT !["hourly"] = Begin]
    /\ UNCHANGED <<now, save_idx, database, ever>>

\* What is in memory when the process ends is gone, refreshes included.
ProcessEnds ==
    /\ life' = "down"
    /\ total' = Zero
    /\ save_idx' = 1
    /\ hourly_work' = FALSE
    /\ refresher' = [r \in Refreshers |-> IdleRefresh]

Crash ==
    /\ life # "down"
    /\ ProcessEnds
    /\ clean' = FALSE
    /\ UNCHANGED <<now, database, ever>>

\* The stop message ends worker_loop, which saves the counters.
RecvStop ==
    /\ life = "running"
    /\ life' = "saving"
    /\ UNCHANGED <<now, total, save_idx, refresh, database, ghost>>

\* save_status_data writes the next key; the first error ends it.
SaveStatusKey ==
    /\ life = "saving"
    /\ \/ /\ status' = [status EXCEPT ![StatusKeys[save_idx]] =
                          total[StatusKeys[save_idx]]]
          /\ \/ /\ save_idx < Len(StatusKeys)
                /\ save_idx' = save_idx + 1
                /\ UNCHANGED <<life, total, refresh>>
             \/ /\ save_idx = Len(StatusKeys)
                /\ ProcessEnds
          /\ UNCHANGED clean
       \/ /\ DbErrors
          /\ ProcessEnds
          /\ clean' = FALSE
          /\ UNCHANGED status
    /\ UNCHANGED <<now, rows, next_id, hourly, top, ever>>

-----------------------------------------------------------------------------
(* The query log                                                           *)

\* add_total_request, add_total_blocked_request, add_total_failed_request.
CountQuery(counters, k) ==
    [counters EXCEPT
       !["total_request"] = @ + 1,
       !["total_blocked_request"] = IF k = "blocked" THEN @ + 1 ELSE @,
       !["total_failed_request"] = IF k = "failed" THEN @ + 1 ELSE @]

\* update_domain_hourly_count.
AddHour == [hourly EXCEPT ![now] = @ + 1]

\* A query is counted; then one transaction adds its row and counts its hour.
Query(c, k) ==
    /\ life = "running"
    /\ ever["total_request"] < MaxQueries
    /\ total' = CountQuery(total, k)
    /\ ever' = CountQuery(ever, k)
    /\ \/ /\ rows' = rows \cup {[id |-> next_id, client |-> c,
                                 blocked |-> k = "blocked", hour |-> now]}
          /\ hourly' = AddHour
          /\ next_id' = next_id + 1
       \/ /\ DbErrors
          /\ UNCHANGED <<rows, hourly, next_id>>
    /\ UNCHANGED <<now, life, save_idx, refresh, top, status, clean>>

\* The API deletes one row, or all rows up to a time.
DeleteDomains(deleted) ==
    /\ life = "running"
    /\ rows' = rows \ deleted
    /\ UNCHANGED <<now, worker, refresh, next_id, hourly, top, status, ghost>>

DeleteDomainById(r) == DeleteDomains({r})

DeleteDomainBefore(h) == DeleteDomains({r \in rows : r.hour <= h})

-----------------------------------------------------------------------------
(* DataStats::refresh                                                      *)

\* hour_timer: update_stats starts a refresh unless one is running.
HourTimer ==
    /\ life = "running"
    /\ ~hourly_work
    /\ hourly_work' = TRUE
    /\ refresher' = [refresher EXCEPT !["hourly"] = Begin]
    /\ UNCHANGED <<now, worker, database, ghost>>

\* api_stats_refresh calls refresh without looking at the flag.
ApiRefresh ==
    /\ life = "running"
    /\ "api" \in Refreshers
    /\ refresher["api"].pc = "idle"
    /\ refresher' = [refresher EXCEPT !["api"] = Begin]
    /\ UNCHANGED <<now, worker, hourly_work, database, ghost>>

\* delete_domain_before_timestamp(now - max_log_age_ms).
Expired == {r \in rows : r.hour <= now - LogAge}

RefreshDelete(f) ==
    /\ refresher[f].pc = "delete"
    /\ \/ rows' = rows \ Expired
       \/ DbErrors /\ UNCHANGED rows
    /\ refresher' = [refresher EXCEPT ![f].pc = "read"]
    /\ UNCHANGED <<now, worker, hourly_work, next_id, hourly, top, status, ghost>>

\* refresh_client_top_list, first half: the counts are read.
TopCounts ==
    [c \in Clients |->
       Cardinality({r \in rows : r.client = c /\ r.hour >= now - TopAge})]

RefreshRead(f) ==
    /\ refresher[f].pc = "read"
    /\ refresher' = [refresher EXCEPT ![f] =
                       [@ EXCEPT !.pc = "write", !.list = TopCounts]]
    /\ UNCHANGED <<now, worker, hourly_work, database, ghost>>

\* Mutant: the flag stays set.
FlagAfterStuck(f) == hourly_work

\* update_stats clears the flag after its refresh.
FlagAfter(f) == IF f = "hourly" THEN FALSE ELSE hourly_work

\* Second half: one transaction replaces the list; an error is only logged.
\* Deleting the hourly counts up to 30 days after 1970 deletes none of them.
RefreshWrite(f) ==
    /\ refresher[f].pc = "write"
    /\ \/ top' = refresher[f].list
       \/ DbErrors /\ UNCHANGED top
    /\ refresher' = [refresher EXCEPT ![f] = IdleRefresh]
    /\ hourly_work' = FlagAfter(f)
    /\ UNCHANGED <<now, worker, rows, next_id, hourly, status, ghost>>

-----------------------------------------------------------------------------
StatsNext ==
    \/ Tick
    \/ \E failed \in SUBSET FailingReads : Start(failed)
    \/ Crash
    \/ RecvStop
    \/ SaveStatusKey
    \/ \E c \in Clients, k \in Kinds : Query(c, k)
    \/ \E r \in rows : DeleteDomainById(r)
    \/ \E h \in Hours : DeleteDomainBefore(h)
    \/ HourTimer
    \/ ApiRefresh
    \/ \E f \in Refreshers : RefreshDelete(f) \/ RefreshRead(f) \/ RefreshWrite(f)

StatsSpec == StatsInit /\ [][StatsNext]_vars

\* The plugin is started again, blocking threads run, the hour timer fires.
StatsFairSpec ==
    /\ StatsSpec
    /\ WF_vars(\E failed \in SUBSET FailingReads : Start(failed))
    /\ WF_vars(HourTimer)
    /\ \A f \in Refreshers :
         WF_vars(RefreshDelete(f) \/ RefreshRead(f) \/ RefreshWrite(f))

-----------------------------------------------------------------------------
\* No counter ever claims more than happened, in any life: neither loading
\* what was saved, nor the fallback to the query log, nor a save that stopped
\* in the middle counts a query twice.
NeverOvercounts ==
    \A k \in Counters : total[k] <= ever[k] /\ status[k] <= ever[k]

\* As long as every life ends with all counters saved, and no read fails when
\* one begins, a restart loses nothing: the counters are exact, however many
\* rows were deleted or failed to insert.  A read that fails is not so harmless:
\* load_status_data takes the counter for missing, and the next save overwrites
\* what had been saved.
CleanRestartExact ==
    clean /\ life # "down" => total = ever

\* While the process stays up, rows past the retention age do not stay, unless
\* the deletion fails each time it is tried again: the hourly refresh keeps
\* running, whatever fails and whatever the API refreshes in between.
OldRowsPurged ==
    <>[](life = "running") =>
    []<>(Expired = {} \/ refresher["hourly"].pc = "delete")

=============================================================================
