------------------------------ MODULE Lifecycle ------------------------------
(***************************************************************************)
(* The life of the plugin in its host process: dns_plugin_init and         *)
(* dns_plugin_exit (smartdns.rs), SmartdnsPlugin::start and stop           *)
(* (plugin.rs), the opening and creation of the database (db.rs) and the   *)
(* start and end of the two loops the plugin spawns (data_server.rs,       *)
(* http_server.rs).                                                        *)
(*                                                                         *)
(* The host calls start and stop one after the other on its own thread;    *)
(* the loops run on the runtime's threads.  A call is a sequence of steps  *)
(* (host), so that a kill can fall between two of them and a loop can run  *)
(* in the middle.  What survives the process is the database file: db is   *)
(* the number of creation steps it has been through.                       *)
(***************************************************************************)
EXTENDS Naturals

CONSTANTS MaxRuns,    \* bound: processes started one after the other
          MaxStarts   \* bound: starts of the plugin in one process

ASSUME LifecycleAssumption == MaxRuns \in Nat \ {0} /\ MaxStarts \in Nat \ {0}

\* creation steps of the database file
NoFile     == 0
Created    == 1    \* the file, with at most the schema_version table
WithDomain == 2    \* the domain table and those after it
WithConfig == 3    \* the config table
Complete   == 4    \* status_data and the version

VARIABLES host,     \* where the host is, between and inside its calls
          db,       \* the database file
          plugin,   \* is_start, is_init, is_run, the thread handles
          loop,     \* the two loops, by name
          rx,       \* the loops whose notification receiver is still in place
          notified, \* the loops that have a notification waiting
          poisoned, \* HttpServer.conf was locked by a task that panicked
          exiting,  \* smartdns_exit was called
          starts,   \* starts in this process
          runs,     \* processes so far
          broken    \* a kill or an error left the database file incomplete

lifeVars == <<host, db, plugin, loop, rx, notified, poisoned, exiting, starts, runs, broken>>

Loops == {"data", "http"}
Calling == {"open", "create", "stats", "config", "data", "http", "kickoff"}
Stopping == {"join_http", "stop_data", "join_data"}

Loaded == [is_start |-> FALSE, is_init |-> FALSE, is_run |-> FALSE, http_thread |-> FALSE]

\* the memory of a process that has just loaded the plugin
Fresh == /\ host' = "idle" /\ plugin' = Loaded
         /\ loop' = [l \in Loops |-> "none"] /\ rx' = Loops /\ notified' = {}
         /\ poisoned' = FALSE /\ exiting' = FALSE /\ starts' = 0
-----------------------------------------------------------------------------
(***************************************************************************)
(* start                                                                   *)
(***************************************************************************)
\* start, parser_args: the arguments may be wrong
Start ==
    /\ host \in {"idle", "stopped"} /\ starts < MaxStarts /\ ~exiting
    /\ starts' = starts + 1
    /\ plugin' = [plugin EXCEPT !.is_start = TRUE]
    /\ host' \in {"open", "failed"}
    /\ UNCHANGED <<db, loop, rx, notified, poisoned, exiting, runs, broken>>

\* init_server, open: an existing file is taken as it is, without looking at its tables
OpenDb ==
    /\ host = "open"
    /\ \/ host' = "failed" /\ UNCHANGED db
       \/ db = NoFile /\ db' = Created /\ host' = "create"
       \/ db # NoFile /\ host' = "stats" /\ UNCHANGED db
    /\ UNCHANGED <<plugin, loop, rx, notified, poisoned, exiting, starts, runs, broken>>

CreateTable ==
    /\ host = "create"
    /\ IF db = Complete THEN host' = "stats" /\ UNCHANGED db
                        ELSE db' = db + 1 /\ UNCHANGED host
    /\ UNCHANGED <<plugin, loop, rx, notified, poisoned, exiting, starts, runs, broken>>

\* an error of init_db: the file is removed, unless that fails too
\* mutant: the file is left behind
CreateFailsKeeps ==
    /\ host = "create" /\ db # Complete
    /\ host' = "failed"
    /\ UNCHANGED <<db, plugin, loop, rx, notified, poisoned, exiting, starts, runs, broken>>
CreateFails ==
    /\ host = "create" /\ db # Complete
    /\ host' = "failed"
    /\ \/ db' = NoFile /\ UNCHANGED broken
       \/ broken' = TRUE /\ UNCHANGED db
    /\ UNCHANGED <<plugin, loop, rx, notified, poisoned, exiting, starts, runs>>

\* the pragmas of open may fail; load_status_data counts the queries of the domain table
InitStats ==
    /\ host = "stats"
    /\ \/ host' = "failed" /\ UNCHANGED plugin
       \/ db < WithDomain /\ host' = "aborted" /\ UNCHANGED plugin
       \/ db >= WithDomain /\ host' = "config" /\ plugin' = [plugin EXCEPT !.is_init = TRUE]
    /\ UNCHANGED <<db, loop, rx, notified, poisoned, exiting, starts, runs, broken>>

\* the second load_config reads the config table
LoadConfig ==
    /\ host = "config"
    /\ host' = IF db < WithConfig THEN "aborted" ELSE "data"
    /\ UNCHANGED <<db, plugin, loop, rx, notified, poisoned, exiting, starts, runs, broken>>

StartDataServer ==
    /\ host = "data"
    /\ loop' = [loop EXCEPT !["data"] = "spawned"]
    /\ plugin' = [plugin EXCEPT !.is_run = TRUE]
    /\ host' = "http"
    /\ UNCHANGED <<db, rx, notified, poisoned, exiting, starts, runs, broken>>

\* start_http_server: set_conf locks the configuration, then waits for the loop
StartHttpServer ==
    /\ host = "http"
    /\ IF poisoned THEN host' = "aborted" /\ UNCHANGED loop
                   ELSE host' = "kickoff" /\ loop' = [loop EXCEPT !["http"] = "spawned"]
    /\ UNCHANGED <<db, plugin, rx, notified, poisoned, exiting, starts, runs, broken>>

\* the loop has sent the kickoff or has dropped it: start returns Ok in both cases
Kickoff ==
    /\ host = "kickoff" /\ loop["http"] # "spawned"
    /\ plugin' = [plugin EXCEPT !.http_thread = TRUE]
    /\ host' = "started"
    /\ UNCHANGED <<db, loop, rx, notified, poisoned, exiting, starts, runs, broken>>
-----------------------------------------------------------------------------
(***************************************************************************)
(* The loops.  Each takes its receiver out of the server when it begins: a *)
(* second one finds none and panics, the one of the HTTP server with its   *)
(* configuration locked.  A key file without a private key makes it panic  *)
(* too, later, with nothing locked.                                        *)
(***************************************************************************)
DataLoopBegins ==
    /\ loop["data"] = "spawned"
    /\ loop' = [loop EXCEPT !["data"] = IF "data" \in rx THEN "running" ELSE "panicked"]
    /\ rx' = rx \ {"data"}
    /\ UNCHANGED <<host, db, plugin, notified, poisoned, exiting, starts, runs, broken>>

\* an error of the loop (address, certificate, bind) ends the process; a panic
\* ends the loop alone
HttpLoopBegins ==
    /\ loop["http"] = "spawned"
    /\ rx' = rx \ {"http"}
    /\ \/ "http" \in rx /\ loop' \in {[loop EXCEPT !["http"] = "running"],
                                     [loop EXCEPT !["http"] = "panicked"]}
                        /\ UNCHANGED <<poisoned, exiting>>
       \/ "http" \in rx /\ loop' = [loop EXCEPT !["http"] = "ended"] /\ exiting' = TRUE
                        /\ UNCHANGED poisoned
       \/ "http" \notin rx /\ loop' = [loop EXCEPT !["http"] = "panicked"] /\ poisoned' = TRUE
                           /\ UNCHANGED exiting
    /\ UNCHANGED <<host, db, plugin, notified, starts, runs, broken>>

\* setting the options of an accepted socket fails
AcceptFails ==
    /\ loop["http"] = "running"
    /\ loop' = [loop EXCEPT !["http"] = "ended"] /\ exiting' = TRUE
    /\ UNCHANGED <<host, db, plugin, rx, notified, poisoned, starts, runs, broken>>

LoopEnds(l) ==
    /\ loop[l] = "running" /\ l \in notified
    /\ loop' = [loop EXCEPT ![l] = "ended"]
    /\ notified' = notified \ {l}
    /\ UNCHANGED <<host, db, plugin, rx, poisoned, exiting, starts, runs, broken>>
-----------------------------------------------------------------------------
(***************************************************************************)
(* stop                                                                    *)
(***************************************************************************)
Done(l) == loop[l] \in {"none", "ended", "panicked"}

\* a notification waits in the channel while its receiver exists, taken or not
\* mutant: it reaches only a loop that is already waiting for it
NotifyWaiting(l) == notified' = IF loop[l] = "running" THEN notified \cup {l} ELSE notified
Notify(l) == notified' = IF l \in rx \/ loop[l] = "running" THEN notified \cup {l} ELSE notified

\* stop, stop_http_server
Stop ==
    /\ host \in {"started", "failed"}
    /\ plugin' = [plugin EXCEPT !.is_start = FALSE]
    /\ IF ~plugin.is_start THEN host' = "stopped" /\ UNCHANGED notified
       ELSE IF plugin.http_thread THEN host' = "join_http" /\ Notify("http")
                                  ELSE host' = "stop_data" /\ UNCHANGED notified
    /\ UNCHANGED <<db, loop, rx, poisoned, exiting, starts, runs, broken>>

JoinHttp ==
    /\ host = "join_http" /\ Done("http")
    /\ plugin' = [plugin EXCEPT !.http_thread = FALSE]
    /\ host' = "stop_data"
    /\ UNCHANGED <<db, loop, rx, notified, poisoned, exiting, starts, runs, broken>>

StopDataServer ==
    /\ host = "stop_data"
    /\ IF plugin.is_run THEN host' = "join_data" /\ Notify("data")
                        ELSE host' = "stopped" /\ UNCHANGED notified
    /\ UNCHANGED <<db, plugin, loop, rx, poisoned, exiting, starts, runs, broken>>

\* mutant: the handle of the loop is dropped instead of awaited
JoinDataUnawaited ==
    /\ host = "join_data"
    /\ plugin' = [plugin EXCEPT !.is_run = FALSE]
    /\ host' = "stopped"
    /\ UNCHANGED <<db, loop, rx, notified, poisoned, exiting, starts, runs, broken>>
JoinData ==
    /\ host = "join_data" /\ Done("data")
    /\ plugin' = [plugin EXCEPT !.is_run = FALSE]
    /\ host' = "stopped"
    /\ UNCHANGED <<db, loop, rx, notified, poisoned, exiting, starts, runs, broken>>
-----------------------------------------------------------------------------
(***************************************************************************)
(* The process: it is killed, aborts in a panic of a call, or ends.        *)
(***************************************************************************)
Kill == /\ host # "down"
        /\ broken' = (broken \/ (host = "create" /\ db # Complete))
        /\ host' = "down"
        /\ UNCHANGED <<db, plugin, loop, rx, notified, poisoned, exiting, starts, runs>>

Boot == /\ host = "down" /\ runs < MaxRuns
        /\ runs' = runs + 1
        /\ Fresh
        /\ UNCHANGED <<db, broken>>

LifeInit == /\ host = "idle" /\ db \in {NoFile, Complete} /\ plugin = Loaded
            /\ loop = [l \in Loops |-> "none"] /\ rx = Loops /\ notified = {}
            /\ poisoned = FALSE /\ exiting = FALSE /\ starts = 0 /\ runs = 1
            /\ broken = FALSE

\* the steps of a call, once it is made
InCall == \/ OpenDb \/ CreateTable \/ CreateFails \/ InitStats \/ LoadConfig
          \/ StartDataServer \/ StartHttpServer \/ Kickoff
          \/ JoinHttp \/ StopDataServer \/ JoinData
LoopStep == DataLoopBegins \/ HttpLoopBegins \/ \E l \in Loops : LoopEnds(l)

LifeNext == Start \/ Stop \/ InCall \/ LoopStep \/ AcceptFails \/ Kill \/ Boot
-----------------------------------------------------------------------------
LifeTypeOK ==
    /\ host \in {"idle", "started", "failed", "stopped", "aborted", "down"}
                   \cup Calling \cup Stopping
    /\ db \in NoFile..Complete
    /\ loop \in [Loops -> {"none", "spawned", "running", "ended", "panicked"}]
    /\ notified \subseteq Loops /\ rx \subseteq Loops
    /\ plugin.is_run => plugin.is_init

(***************************************************************************)
(* The loops follow the calls.  Once stop has returned no loop of the      *)
(* plugin runs, or is still to run, even when the loops had not begun yet  *)
(* (SmartdnsPlugin::stop); and a start that returned Ok the first time has *)
(* the web interface listening until the plugin is stopped, unless the     *)
(* process was told to exit or the loop panicked on a key file without a   *)
(* private key, which start does not notice (the kickoff that              *)
(* start_http_server waits for is then dropped).                           *)
(***************************************************************************)
LoopsFollowCalls ==
    /\ host = "stopped" => \A l \in Loops : Done(l)
    /\ host = "started" /\ starts = 1 => loop["http"] \in {"running", "panicked"} \/ exiting

(***************************************************************************)
(* A start does not bring the host down, whatever failed in the starts     *)
(* before it, unless the creation of the database was cut off or a loop    *)
(* had panicked in a second start.                                         *)
(***************************************************************************)
AbortsExplained == host = "aborted" => broken \/ poisoned

(***************************************************************************)
(* start and stop return: no loop is waited for that will not end, in      *)
(* whatever order the loops get to run (stop_http_server,                  *)
(* stop_data_server).                                                      *)
(***************************************************************************)
CallsReturn == (host \in Calling \cup Stopping) ~>
                  (host \in {"started", "failed", "stopped", "aborted", "down"})
=============================================================================
