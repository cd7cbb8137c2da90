# TLA+ specifications of smartdns-plus-ui

smartdns-plus-ui is a plugin of the DNS server smartdns. It records every
finished DNS request in an SQLite database, keeps statistics about them, and
serves a web interface through which an administrator looks at the log, edits
the configuration files and follows the server's logs. This directory holds
TLA+ modules for the parts of it whose correctness depends on the order of
events, TLC models that check them on small instances, and TLAPS proofs.

All paths below are relative to the root of this project; the program's own
sources are in `src/src/`. `PROJECT.json` maps every definition to its lines.

## 1. The system

### Components, their state, their operations

| Component | State | Operations that change it |
|---|---|---|
| Query pipeline, `data_server.rs` | data channel (bounded), `req_list`, batch timer, `client_pending_list`, `mac_cache`, `disable_handle_request`, `is_check_timer_running` | `send_request`, the five branches of `data_server_loop`, `data_server_handle_dns_request`, `server_check`, `stop_data_server` |
| Statistics worker, `data_stats.rs` | counters, `is_hourly_work_running` | `add_*`, `load_status_data`, `save_status_data`, `refresh`, `update_stats`, `worker_loop`, `stop_worker` |
| Database, `db.rs` | tables `domain`, `client`, `domain_hourly_count`, `domain_daily_count`, `top_*_list`, `status_data`, `config`, `schema_version` | `insert_domain`, `insert_client`, deletions, `refresh_*_top_list`, `set_status_data`, `set_config`, `open` |
| Login throttle, `http_server.rs` | attempt counter and instant | `login_attempts_check`, `login_attempts_reset` |
| Sessions and passwords, `http_server_api.rs`, `http_server.rs`, `http_jwt.rs`, `utils.rs` | `conf.password`, `conf.jwt_secret`, the same two keys of table `config`, tokens in browsers | login, refresh, change of the password, settings, `load_config` |
| Plugin life cycle, `plugin.rs` | `is_start`, runtime, the two servers and their receivers | `start`, `stop` |
| HTTP server and routing, `http_server.rs` | listener, TLS key | accept loop, static files |
| REST handlers, `http_server_api.rs` | none of their own | about fifty routes |
| JSON messages, `http_api_msg.rs` | none | encode, decode |
| Log and audit streams, `server_log.rs`, `http_server_stream.rs` | list of senders, the log level | register, dispatch, remove, pause, level guard |
| Web terminal, `http_server_stream.rs` | child process, pty with input and output that wait in it | open, copy, resize, pause, close |
| Configuration files, `config_ui.rs` | `smartdns.conf` and the managed files | parse, render, save, backup, restore |
| WHOIS client, `whois.rs` | server cache | query with referrals |
| smartdns bindings, `smartdns.rs`, `lib.rs` | none | calls into and out of the C code |
| Web interface, `wwwroot/` | browser | presentation |

### How they interact

smartdns calls `send_request` on its own threads. The only link from there to
the rest of the plugin is the data channel and a flag. One asynchronous task
runs `data_server_loop`; it owns the list of received requests and awaits every
database write in a blocking thread. It starts the statistics worker, a second
task, and stops it when it exits itself. Counters are atomics that both tasks
and the HTTP handlers use. HTTP handlers run on the threads of the runtime; they
share the configuration of the HTTP server behind a mutex, the throttle behind
another, and the database behind a third, with reads on connections of their
own. `stop` sends one message to each server and joins it.

A save of the configuration reads and writes its files in the thread of its
handler and takes no lock: saves meet only in the file system. A lookup or a
terminal session is a task of its own, which goes on after the accept loop has
ended and dies with the process.

### What is hard

* **Interleaving.** While the loop awaits a write the channel, the disk, the
  clock and the stop message change. Handlers that took a copy of the
  configuration run beside the handler that replaces it. Two refreshes of the
  top lists read and write at different moments.
* **Failure.** Each write may fail after others succeeded, in memory or in the
  database, and the process may die between any two.
* **Ordering and time.** Five timers decide when something is written; the ages
  they look at come from a wall clock that may be set back.
* **Files.** A save is a sequence of copies, writes and renames of several files;
  another save, an error or a kill may come between any two. Settings are read
  from files that the interface and the administrator both write.
* **Limits.** The channel and the batch are bounded, the MAC cache is emptied
  when it is full, arithmetic is unsigned.

`PROJECT.json` lists the hazards one by one, with the line and the properties
that would fail.

### What makes each part correct

* Pipeline: a request is counted once and written at most once; nothing that
  the channel accepted is lost before the loop exits; a client is never
  forgotten between lists; handling follows the free disk space; a stop
  completes.
* Statistics: counters survive a clean restart exactly, if they can be read, and never
  exceed the truth after a crash; old rows go.
* Sessions: a change of the password revokes what came before it, in every
  interleaving and across restarts; an acknowledged password stays.
* Throttle: a bounded number of guesses in any window.
* Streams: a closed stream is removed, a live one is not; the log level
  returns to what it was.
* Configuration files: a crash leaves the old or the new file; an answered save
  is in place; lines outside the managed block survive; what was saved is what is
  read, and saving what was read changes nothing; the overview lists what the
  included files say.
* Lists: a reader that pages through a table misses nothing and sees nothing
  twice; a deletion hits the row that was shown.
* Life cycle: start and stop return, in whatever order the loops get to run; a
  stopped plugin runs nothing; a start does not bring the DNS server down.
* WHOIS and terminal: a lookup ends, and a closed terminal leaves no shell, however
  much the shell prints.

## 2. Modules

| Module | Models | Extends |
|---|---|---|
| `DataServer` | the query pipeline | |
| `DataServerProof` | theorems about it, and that it implements `QueryLog` | `DataServer` |
| `QueryLog` | what the pipeline promises: the abstract specification | |
| `LoginThrottle` | the login throttle | |
| `Auth` | sessions and passwords over several lives of the process | `LoginThrottle` |
| `AuthProof` | theorems about both | `Auth` |
| `Stats` | counters, query log and top lists over several lives | |
| `StatsProof` | theorems about it | `Stats` |
| `LogStreams` | the log and audit streams and the log level | |
| `LogStreamsProof` | theorems about them | `LogStreams` |
| `QueryLists` | the paged lists of queries and clients, with cursors and deletions | |
| `QueryListsProof` | theorems about them | `QueryLists` |
| `ConfigStore` | the configuration files: overlapping saves, errors, kills | |
| `ConfigStoreProof` | theorems about them | `ConfigStore` |
| `ConfigLines` | lines, words and options of a configuration text | |
| `BeginnerConfig` | the settings: rendering and parsing | `ConfigLines` |
| `ManagedRules` | the rules and sets: rendering and parsing | `ConfigLines` |
| `ConfigPages` | what a save writes and the overview reads back | `BeginnerConfig`, `ManagedRules` |
| `ConfigSources` | the walk over included files and the assets listed from them | `ConfigLines` |
| `ConfigProof` | theorems about the walk and about the managed block | `ConfigPages`, `ConfigSources` |
| `Lifecycle` | start, stop, the loops, the creation of the database | |
| `WhoIs`, `Term` | lookups and terminal sessions, by connection (`Connections`) | |
| `Services` | the plugin with the connections it serves | `Lifecycle`, `WhoIs`, `Term` |
| `ServicesProof` | theorems about the life cycle, alone and in `Services`, and about what is served | `Services` |
| `MC...` | constants of the TLC models | the module they are named after |

### DataServer

*State.* `chan` is the data channel, `req_list` the requests received and not
handled, `pc` the await at which the loop task is suspended (`"select"`, or the
blocking call it waits for), `client_list` the client list that call writes.
`pending` maps a client to the time since `first_seen` and its MAC; `-1` is a
`first_seen` in the future, which the unsigned subtraction turns into a huge age.
`where` and `lost_clients` are history variables: what became of each request,
and the clients whose write failed.

*Actions.* `send_request` is two steps, `SendRequest` (the early returns, with
the read of the flag) and `TrySend`, because handling may be suspended in
between. Each branch of the `select!` is an action: `RecvNotify`, `FlushTimer`,
`CheckTimer`, `BatchTimer`, `RecvMany`. `HandleDnsRequest` is what happens up to
the blocking call of a batch; the call's two transactions are `InsertDomain` and
`InsertClient`, each of which may fail. `ServerCheck`, `FlushClients`,
`FinalFlush` and `StopWorker` are the other blocking calls. `DiskChange`, `Tick`
and `ClockBack` are the environment.

*Abstractions.* A request is a model value with a client, a MAC, a kind and two
flags; the rest of its row is not looked at by any property. `RecvMany(n)` takes
any `n` up to what is there: tokio's `recv_many` returns what it finds when it
is polled. The `qps` counter is left out: nothing else reads it. A row of
`client` stands for its key; the upsert never removes one.

### LoginThrottle and Auth

`count` and `elapsed` are the pair behind the mutex, `elapsed` being the time
since the stored instant. The attempt counter saturates above the limit, which
its comparisons cannot tell apart from the growing one. `window` is history.

A hash stands for its password and a token for the secret it was signed with; a
generated secret is new. A handler is a record with its own copy of the
configuration, as `get_conf` returns it. The steps of a handler are the points
at which it takes or releases the mutex or calls the throttle or the database:
`LoginSnapshot`, `LoginCheck`, `LoginVerify`; `RefreshAuth`, `Refresh`;
`ChangeAuth`, `ChangeCheck`, `ChangeVerify`, `ChangeSavePassword`,
`ChangeSaveSecret`, `ChangeReply`, which keeps the mutex from `ChangeVerify` on.
`Exit` is a stop or a crash at any point; `Start` is `SmartdnsPlugin::start`,
whose second `load_config` decides. `SetSettings` is the settings handler, which
may overwrite the key of the secret; it is assumed to write one that was not in
use before. Reads of an open database are assumed to succeed (`get_config` would
turn a failed read into a missing key). `acked` and `in_force` are history.

### Stats

`life` is the process with its worker, `total` its counters, `status` what the
last worker saved. Every read of `load_status_data` may fail at a start (`FailingReads`):
an error, or a row that is skipped, is taken for a missing value there, and the next save
writes over what was saved. `save_idx` is the key `save_status_data` writes next, so that
a crash or an error between two keys is a behaviour. `refresher` holds up to two
refreshes: the hourly one, guarded by `hourly_work`, and the one of the API,
which is not. A refresh is three steps: it deletes expired rows, reads the
counts, writes them. Table `top_client_list` stands for both top lists (they are
refreshed the same way), `domain_hourly_count` for the daily table too. Queries
are counted and written in one step here, the pipeline's own order being the
subject of `DataServer`. The LIMIT of the top lists is not modelled. Hours are
the unit of time.

### LogStreams

`threads` is the set of threads that log, one or two, fixed at the start, and `kind` says
which of the two lists a behaviour is about: `ServerLog`, whose streams guard the log level,
or `ServerAuditLog`, whose streams may be refused after they were listed. `streams` is the
vector of senders, `queue` the channel of each stream, `session` the local variables of the
task that serves it and `level` the log level. `DispatchLog`, one `TrySend` per stream and
`RemoveStreams` are `dispatch_log`; what is left after the removals is the list at the other
indexes (`Kept`); the list cannot change while a dispatcher is at `"send"`, because it holds
the read lock. An index out of range makes `Vec::remove` panic in a function that C code
called; the model ends there (`aborted`). A message is the thread that logged it and a
number. The level set through the API is two steps, setting and storing. `shown`, `next_msg`
and `base_level`, the level that the last open stream should leave, are history.

### QueryLog

The abstract specification: a query is fresh, waiting, in the batch, in the log,
or gone; a batch is counted and then logged as a whole or not at all. Only queries
are in it, since prefetch and dualstack requests are neither counted nor logged.
`DataServer` maps to it by the fate of each request (`where`): a query is in the
log if it has a row, `count` is `total_request`, and the log is closed when the
loop has exited. `ImplementsQueryLog` is this instance's `Spec`.

### ConfigStore, ConfigPages, ConfigSources

The configuration is in three models, because three different things can go wrong.

`ConfigStore` has the files and no texts: a text is a model value, whole or torn.
`cur`, `bak` and `tmp` are each file, its backup and its temporary file; `job` is a
request with its place in the plan of its files (`at`) and the step it is at there.
A set is a sequence of items, of which an edit keeps those at some positions, in
their order (`Picked`). The steps are the system calls of `backup_file` and `write_text_atomic`:
`ReadFile`, `BackupOpen`, `BackupCopy`, `TmpOpen`, `TmpWrite`, `Rename`, and
`RenameFails`, `DirectOpen`, `DirectWrite`, `RemoveTmp` for the two error paths. A
descriptor (`fd`) follows its file through a rename, so a request may write into
a file that another one has already put in place. `denied` is a file system that
refuses to rename over a file, chosen at the start. `Start` is any of the handlers
of `/api/plus` that write; one whose request is not valid changes nothing. `Fail`
and `Restart` come at any step. `raced` is history.

`ConfigPages` has the texts, and a save is one step. A line is its key and the
sequence of the words and separators of its value; `BeginnerConfig` and
`ManagedRules` render and parse them as the functions of the same names do, with
the defaults, the order and the options of each. `main` is `smartdns.conf`, `pages`
are the managed files. Comments and empty lines are left out: every reader skips
them. The administrator's edits (`EditMain`) add lines before or after the block
and leave its markers alone (`PagesAssumption`): a begin marker without its end
(`WellMarked`) would make the save after the next take everything up to the new
block for the old one.

`ConfigSources` is `collect_config_source_recursive` over a tree of files that may
include each other, one line per step. `calls` is its stack: a call for each file that
is being read, with its next line. `Follow` is a line that includes a file not yet read
with its group, whose call comes on top; `Pass` is any other line; `Return` is the end
of a file. `Canonical` gives the file that a name stands for, which depends on the file
it is written in. `MaxCalls` is the room on the stack. Then come the lists that the
overview builds from the sources found: rules for clients and addresses with their groups, groups
with their counts, the uses of sets. The properties compare these with definitions
that look at the texts as a whole, without a stack.

### QueryLists

One table, of queries or of clients, whose writers are reduced to what a reader of
the list can see of them, and a reader who asks for a first page and then moves
forward and back with cursors, or deletes what it is shown. `Where`, `OrderDesc` and
`Offset` are the clauses that `get_domain_sql_where` and `get_client_sql_where` put
together; the text filters are one key. `Listing` puts the rows found in the order of the
ORDER BY clause, given as the set of pairs of rows that are in that order. The list and its
count are two steps.

### Lifecycle, WhoIs, Term, Services

`host` is where the host's thread is inside `start` and `stop`, step by step; `loop`
says of each loop whether it is spawned, running, ended or panicked, and `rx` which
receivers are still in place. `db` counts the creation steps the database file has
been through. The runtime is multi-threaded, so a spawned loop begins at any
time, also after `stop` was called. `WhoIs` keeps for each connection the domains
still to look up and the server to ask next; whom a server refers to is fixed at
the start, what else it answers is a choice.

`Term` has the frames under way (`inbox`), what waits in the terminal in both directions
(`pty` unread by the shell, `out` unread by the loop), whether the shell has more to say
(`busy`: it then reads nothing) and the await at which the loop is: `"open"` is the
`select!`, `"writing"` a write to the shell, `"sending"` and `"ending"` a send to the peer.
Only in `"open"` does it read output or frames. The paths that leave `serve_term` by `?` or
by a panic end in `"dropped"`, with the shell left as it is.

`Services` puts the three together: connections are served while the loop runs, and all
is gone with the process. `Apart` is a bound for TLC: a behaviour has lookups or
terminals, which share nothing, and not both.

## 3. Runs

Deadlock is checked except where the system may stop: in `log_streams` a panic ends the
process, in `services` a panic or a kill the last one, in `config_store` the requests
are done, in `config_sources` the walk.

| Run | Configuration | What it shows |
|---|---|---|
| `data_server` | `MCDataServer.cfg` | six invariants of the pipeline in batch mode, four requests, and that it implements `QueryLog`; 0.9 million states |
| `data_server_live` | `MCDataServerLive.cfg` | four liveness properties under `FairSpec` |
| `request_drop` | `MCDataServerDrop.cfg` | **violated**: the drop counter |
| `auth` | `MCAuth.cfg` | revocation, durability and the bound on guesses, with two handlers, restarts and write errors |
| `stats` | `MCStats.cfg` | counters over restarts, crashes, errors and failed reads; retention; 1.7 million states, about three minutes |
| `log_streams` | `MCLogStreams.cfg` | the list of streams with one thread that logs, the order of messages with two, the log level |
| `config_store` | `MCConfigStore.cfg` | overlapping saves, errors and kills; 1.5 million states, one to two minutes |
| `config_pages` | `MCConfigPages.cfg` | saving and reading back |
| `groups_lost` | `MCConfigGroups.cfg` | **violated**: groups of rules |
| `config_sources` | `MCConfigSources.cfg` | included files, groups and sets |
| `lists` | `MCQueryLists.cfg` | paging while the table changes |
| `services` | `MCServices.cfg` | life cycle, lookups and terminals, with liveness; about three minutes |

### Properties of the passing runs

`TypeOK` of the pipeline is checked and proved. `AuthTypeOK`, `StatsTypeOK` and the
like in the other modules document the shape of their state and are in no run.

* `CountersExact`, `RowsExact`, `NoRequestLost`: where each request is, what was counted and
  what was written agree in every state, also while a batch is being written and after a
  write failed.
* `ClientsAccounted`, `MacsWitnessed`: clients move between the pending list, the list being
  written and the table without getting lost, and the loop exits with none pending; a MAC is
  attributed only to a client that reported it.
* `QueuedHandled`, `PendingFlushed`, `SuspendFollowsDisk`, `StopCompletes`: liveness.
* `GuessesBounded`: at most `2 * Limit` failed attempts get through in any window of
  `LockTime`. `Limit` alone would be wrong: the end of one series and the whole next one fit
  into one window.
* `SessionsRevoked`: a token whose credentials were read before an acknowledged change is
  never valid again, whatever straddled it and whatever failed since.
* `PasswordDurable`: the password in force, now or after a restart, is the one acknowledged
  last or that of a change answered with an error since.
* `NeverOvercounts`, `CleanRestartExact`: counters after crashes and clean stops. A read
  that fails at a start makes no counter too large, but loses what was saved
  (`data_stats.rs:312`), so the second property asks that every start could read.
* `OldRowsPurged`: retention.
* `RemovalsExact`: with one thread that logs, the indexes found under the read lock are
  still right under the write lock, and open streams stay listed. New streams are appended,
  and nobody else removes. With two threads it is false: both collect the index of the same
  closed stream, the first removes it, and the second removes its live successor or panics.
  `dispatch_log` does nothing to exclude this; whether smartdns logs from one thread only is
  not decided in this repository.
* `OrderKept`: messages of one thread reach a browser in order and none twice, in that case
  too. It does not say which are missed: those sent while the browser pauses or its channel
  is full, and, in that case, all once its stream was removed.
* `LevelRestored`: a level that a browser chose for its stream ends with it. With two
  streams, or a stream and a change through the API, that overlap, the level is the one
  found by the stream that closes last, which may be the other's.
* `ImplementsQueryLog`: the pipeline is a query log that loses a query only where `QueryLog`
  lets it.
* `WholeUnlessRaced`, `OverwriteBackedUp`: where files can be renamed, each is whole at
  every moment, through every error and kill, unless two requests had its temporary file
  open at the same time; where they cannot, a torn file has its text in the backup
  (`smartdns.conf` has none). Without the exception TLC finds the race: the second request
  truncates the file that the first then renames.
* `AnsweredInPlace`: an answer without an error means that every file was written, unless
  another request ran meanwhile. `SetEditExact`: a saved set is the old one with the edit,
  nothing lost or doubled.
* `SavedReadBack`, `PagesFixpoint`, `RulesKept`: rendering and parsing are inverse as far as
  they are meant to be. The exceptions are in the definitions: settings that `smartdns.conf`
  sets after the block win over those saved; lists and servers outside the block are read
  together with the saved ones, and are copied into the pages by the next save; a rule whose
  value has a slash is split at the wrong one. Two kinds of settings are shown once and then
  lost: keys of a certificate without a TLS listener (`config_ui.rs:759`), and directives
  that no page knows, which are read (`config_ui.rs:1170`) and rendered nowhere.
* `UserLinesKept`: no save touches a line outside the block.
* `SourcesExact`, `WalkEnds`: the walk begins with `smartdns.conf`, reads each file once for
  each group it is included with and nothing that is not included, and ends.
  `OverviewExact`: each rule is listed with its group, each group once with its matches and
  number of rules, and each use of a set, and no other, as the texts say; counts and uses
  for files whose groups are closed and have names of their own. A group may be listed once
  more without contents, which the property allows by name: for the line that includes a
  file into it (`config_ui.rs:1576`), whose entry is never merged with the one of the file,
  and for a file that is read again for another group.
* `BrowseComplete`, `CursorExact`, `PagesPartition`: paging with a cursor, and by page
  number, where each row is at one place of one page. The cases they exclude are
  real: the first page of the unfiltered queries is ordered by time and the following by id,
  so they must agree there; `order=asc` is ignored for clients and makes a cursor stand for
  the wrong end of a time window.
* `DeletesShown`: a deletion hits what was shown, for clients only if the one with the
  largest id was not deleted meanwhile, since its id is given out again.
* `LoopsFollowCalls`, `AbortsExplained`, `CallsReturn`: the life cycle: after the first
  start the web interface listens, after a stop no loop runs, and both calls return. The
  exceptions name what the code does not survive: a database whose creation was cut off; a
  key file without a private key, on which the HTTP loop of a first start panics
  (`http_server.rs:953`) without telling the process to exit; and a second start in the same
  process, whose loops find their receivers gone. The HTTP loop panics then with the
  configuration locked, which a third start would meet. In both panics the start that waits
  for the kickoff returns Ok.
* `LookupEnds`: lookups end, for referrals without a circle of two servers or more.
  `ShellEnds`: once the peer's Close frame is under way the shell is killed and waited for,
  as long as neither the peer nor the shell keeps the loop waiting for ever. Two outcomes
  are named because the code allows them: the session fails before the frame is read, or loop
  and shell wait for each other. In the second the loop waits in a write to a full terminal
  and so reads no output, and the shell waits for its output to be read and so reads nothing.

### Bounds, and why they are enough

* `data_server`: four requests, a channel of two and batches of two let the channel
  fill, a partial batch wait for the timer, a batch be received on top of a
  partial one, and three batches follow each other. The requests are chosen so
  that a client is first seen without a MAC, a dualstack request is the first to
  carry it, and the cache limit of one is passed. The ages 0 and 1 let a client
  be young for the timer and old for a batch; `MaxClockBack = 1` suffices for
  the wrap. `recv_in_batch` off is left to the theorems, which hold for both
  values of `BatchMode`.
* `data_server_live`, `request_drop`: three requests, one of them a prefetch that
  `send_request` ignores.
* `auth`: two handlers, two passwords, three secrets: one from the file or
  generated at the start, one per change, one more for a restart or a second
  change. Every question is about two sessions and one change between them. The
  throttle has a limit of one and a lock of two ticks, so that attempts come
  before, at and after the half and the end of the lock; time and counter saturate.
  Handlers are symmetric; passwords are not, because one is the file's.
* `stats`: two queries, three hours and `LogAge = 1` let a row expire while
  another stays; crashes and stops are unbounded. One client is enough: the
  properties do not compare clients. Both refreshers run, and statements fail. Of the
  reads of a start the one of `total_request` may fail: the others do to their counters what
  it does to its own. The theorems hold for any of them.
* `log_streams`: two streams and three messages of one thread or of two let a
  stream close before and another open between the two locks, both threads find
  the same closed stream, and a channel of one fill up. Two levels tell a level
  from the one before it. Streams are symmetric, and so are threads.
* `config_store`: two requests at once and three in all, so that a third meets what
  two left behind; two pages and `smartdns.conf` have a file before, a file after and
  the one without backup, and a set has two items to lose one of. One failure or
  kill: a second one finds nothing in memory that the first left. Requests, texts
  and items are symmetric.
* `config_pages`: two saves with an edit before, between or after them; the settings
  differ from the defaults in each way the renderers tell apart, a server has every
  sequence of up to three option words, and there are rules of each kind. A third
  save would see nothing new where `PagesFixpoint` holds.
* `config_sources`: every text of up to three lines in one file and two in another
  from a choice of includes, group lines and rules, and every text of up to five lines of
  groups and rules in an included file, or of four in one that is included twice: cycles, two
  names and nesting of two. `MaxCalls` is 5:
  the walk never needs more (`WalkEnds` would fail), and `StackIsBounded` says how many
  calls are enough for any files.
* `lists`: three ids, two times, two keys and pages of one or two rows: a page
  before, a page after and a row inserted or deleted in between.
* `services`: two processes of two starts each, so that a cut-off creation is met by
  the next process and a panicked loop by the next start; two servers, which may
  refer to each other or themselves; one connection, with lookups or with terminals
  (`Apart`), one after the other: what lookups share is `server_lists`, which each leaves to
  the next, and terminals share nothing. A terminal is full after one write and one read of
  output, and a frame may come while the loop waits in a write, so that each side comes to
  wait for the other. That frames are taken in their order is a theorem for any number.

### Fairness

`FairSpec` of `DataServer` assumes weak fairness of each blocking call (the
blocking pool runs them to the end and the runtime resumes the task), of the
start of the loop and of the passing of time, and strong fairness of the branches
of `select!`: tokio polls them in random order, so that a branch that is ready
again and again is not passed over for ever. Nothing is assumed of smartdns, of
the disk or of a stop. `StatsFairSpec` assumes that a stopped plugin is started
again, that the hour timer fires and that a refresh on a blocking thread runs to
its end; nothing is assumed of crashes, stops or the API.
`OldRowsPurged` is only claimed while the process stays up; with a deletion that
fails every time it says that the deletion is tried again and again.
`SourcesSpec` assumes that the walk, a plain recursive function, goes on.
`ServicesSpec` assumes that a call that was made and a task that can run go on, and that
a WHOIS server which does not answer is given up (`query_from_server` has timeouts). For
the frames of a terminal it assumes strong fairness, because `select!` polls its two
branches in random order: output that never ends does not keep a frame from being read.
Nothing is assumed of the host's calls, faults or kills, and nothing of shells and peers:
a shell may never read, write or exit, and a peer may never read.

### Findings

1. `DropsCounted` (`src/src/data_stats.rs:98`): on 64-bit targets
   `add_request_drop` masks the counter (`fetch_and`) instead of adding, so it
   reads 0 for ever; the other branch of the same function adds.
2. `GroupsKept` (`src/src/config_ui.rs:2458`): the page sends groups of rules and
   rules for clients, the save checks them and reads them, and no renderer writes
   them: every save removes them.

One disagreement between a comment and the code has no run: where no secret is configured or
stored, `load_config` generates one at each load and stores none, although the comment above
the line says that the load after `init_db` persists it (`http_server.rs:162`). Only a change
of the password stores a secret; until then every restart ends all sessions.

Other behaviours have no run because nothing in the repository states the opposite: the
cut-offs of the hourly and daily counts are durations and not times before now, so
nothing is ever deleted from them (`data_stats.rs:441`); an answer of a WHOIS server
without a referral is cached as an empty server name (`whois.rs:227`); a refresh of the
top lists that read earlier may be written later (`db.rs:1036`); a log stream restores
the level it found even when another was set meanwhile (`http_server_stream.rs:55`); a
read of the saved counters that fails at a start loses them (`data_stats.rs:312`); a key
file without a private key leaves a started plugin that listens nowhere
(`http_server.rs:953`); a terminal whose shell waits for its output to be read, while
the loop waits in a write to it, does not hear its peer close
(`http_server_stream.rs:529`), and a session that fails leaves its shell running
(`http_server_stream.rs:491`).

## 4. Proofs

Eight modules hold theorems. All of them are about the specifications that the runs
check, for every value of the constants that satisfies the assumptions, which TLC
evaluates in each run of the module.

| Module | Theorem | Statement |
|---|---|---|
| `DataServerProof` | `TypeCorrect` | `Spec => []TypeOK` |
| | `AccountingCorrect` | `Spec => []Accounting` |
| | `CountersCorrect`, `RowsCorrect`, `NoneLost` | `[]CountersExact`, `[]RowsExact`, `[]NoRequestLost` |
| | `MacsCorrect`, `ClientsCorrect` | `[]MacsWitnessed`, `[]ClientsAccounted` |
| | `Implements` | `Spec => ImplementsQueryLog` |
| `ServicesProof` | `ServicesImplementLife` | `ServicesSpec => LifeSpec` |
| | `LifeInvariant` | `ServicesSpec => []LifeInv` |
| | `LoopsCorrect`, `AbortsCorrect` | `[]LoopsFollowCalls`, `[]AbortsExplained` |
| | `StopsAreHeard`, `CallsShrink` | `[]WaitsEnd`, `[][CallShrinks]_lifeVars` |
| | `LookupTypes`, `LookupsShrink` | `[]LookupType`, `[][LookupShrinks]_vars` |
| | `TerminalsCorrect` | `[]SessionInv` |
| | `ClosesHeard`, `MutualWaitLasts` | `[][CloseHeard]_vars`, `[][WaitsLast]_vars` |
| `AuthProof` | `ThrottleCorrect`, `AuthInvariant` | `[]ThrottleInv`, `[]AuthInv` |
| | `GuessesCorrect` | `[]GuessesBounded` |
| | `SessionsCorrect`, `PasswordsCorrect` | `[]SessionsRevoked`, `[]PasswordDurable` |
| `StatsProof` | `StatsInvariant` | `StatsSpec => []StatsInv` |
| | `CountersBounded`, `RestartsExact` | `[]NeverOvercounts`, `[]CleanRestartExact` |
| `LogStreamsProof` | `ListInvariant` | `StreamsSpec => []ListInv` |
| | `RemovalsCorrect`, `LevelCorrect`, `OrderCorrect` | `[]RemovalsExact`, `[]LevelRestored`, `[]OrderKept` |
| `ConfigStoreProof` | `StoreTypes` | `StoreSpec => []StoreTypeOK` |
| | `WholeInvariant`, `WholeCorrect` | `[]WriteInv`, `[]WholeUnlessRaced` |
| | `SaveInvariant` | `StoreSpec => []SaveInv` |
| | `BackupsCorrect`, `SetEditsCorrect`, `AnswersCorrect` | `OverwriteBackedUp`, `SetEditExact`, `AnsweredInPlace` |
| `ConfigProof` | `SourcesInvariant` | `SourcesSpec => []WalkInv` |
| | `SourcesAreExact`, `SourcesAreReachable` | `[]SourcesExact`, `[]ReadsReachable` |
| | `StackIsBounded`, `WalkShrinks` | `[]StackSuffices`, `[][Shrinks]_sourcesVars` |
| | `BlocksStayWhole`, `UserLinesAreKept` | `PagesSpec => []MainInv`, `UserLinesKept` |
| `QueryListsProof` | `ListsInvariant`, `ListsTypes` | `ListsSpec => []ListsInv`, `[]ListsTypeOK` |
| | `BrowseIsComplete`, `PagesArePartition` | `[]BrowseComplete`, `[]PagesPartition` |
| | `CursorIsExact`, `DeletesAreShown` | `CursorExact`, `DeletesShown` |

In each module the operators come first, then the invariant with one lemma per group
of actions that says they keep it, then the theorems. `Spec` of the pipeline and the
specifications above have no fairness; those with fairness imply them. `SourcesSpec` has
one fairness condition, which its proofs do not use. Each invariant
was checked with TLC, on the instances of the runs, before it was proved.

### The pipeline (`DataServerProof`)

The assumptions are `DataAssumption` (requests are finite, each has a client, a
MAC or none, and a kind) and `BoundAssumption` (sizes are positive, ages are
natural numbers).

The counters alone are not inductive: the number of queries in a
batch is the number of *requests* it adds to the counted ones only if no request
occurs twice in it and none was counted before. `NoRequestLost` says that what
waits in the channel and in `req_list` is repeated nowhere and still has the fate
`"queued"`. When a batch is handled its requests stay in `req_list`, counted, until
the blocking call returns, so the invariant also has to say what `req_list` is then:
`BatchInWrite`. With it, the commit of `InsertDomain` gives a row to exactly the
requests counted and not written, which is `RowsExact`. `Accounting` is the
conjunction of the four, and is inductive together with `TypeOK`.

A MAC goes from a request through the cache or the pending list into a row.
`MacsInv` says of all three places that a request of that client carried it.
`ClientsInv` says of every counted query in which of the places its client is; that a
client is dropped from the pending list only when it goes to the list being written
holds because that list is empty between two writes, which the invariant
has to say for each step of the loop (`HandleClients`, `WriteClientsKnown`).

`Implements` needs `Accounting`: that `HandleDnsRequest` is one
`Handle` step of the log holds because the requests of a batch are still queued
and are repeated nowhere (`HandleIsHandle`), so that the counter grows by the number of
queries in it; that the commit adds exactly the batch holds because a row is given
to what was counted and not written (`LogIsStored`). `SendIsAcceptOrRefuse` is about the
two steps of `send_request`, `LogUntouched` about all the steps that the log does not see.

### The life cycle, lookups and terminals (`ServicesProof`)

`Services` composes the life cycle with lookups and terminals; `ServesLife` shows that each
of its steps is a step of the life cycle or changes none of its variables, so that the
theorems need the invariant of `Lifecycle` alone. A loop that runs after a stop would be one
that no handle led to: `LoopsTracked` says which loops are done and which handles there
are at each step of both calls. `FirstStart` is why the first start listens: the
receiver is in place and nobody has notified it, so that it ends only with the process, or in
the panic that `LoopsFollowCalls` names. `DbCreated` follows the database file
through its creation, which only a kill cuts off.

The three liveness properties of this module cannot be proved, but the reasons for them
can, since they are about single steps.

* `CallsReturn`: `StopsAreHeard` says that a stop waits only for a loop that has ended,
  has a notification waiting or will panic for want of its receiver. `CallsShrink` says
  that each step of the plugin during a call makes the triple of steps of the call, tables to create
  and stages of the loops smaller.
* `LookupEnds`: `LookupsShrink` says that each step of a lookup goes to fewer domains or to
  a server of a lower rank, for every ranking in which servers refer down, to none or to
  themselves. That there is a ranking when `ReferralsEnd` holds would be an induction
  over servers.
* `ShellEnds`: `ClosesHeard` says that no step loses a Close frame that is under way, or
  puts another frame before it, and that a session ends with its shell reaped or as a failed
  one. That an ended session has no frames (`SessionInv`) makes this inductive. A measure
  that each step makes smaller does not exist: a shell may print for ever, and only the
  random order of `select!` lets the frame be read. `MutualWaitLasts` is about the case that
  the property excludes: no step of the plugin or of the peer ends the wait of loop and
  shell for each other, only the end of the shell.

### Sessions, passwords, guesses (`AuthProof`)

`AuthAssumption` says that there is a password in the file and room for one more secret.
A token is not accepted if its secret is not the one in use. So every copy of the
credentials, in a token or in a handler, that is older than the last acknowledged change
must hold a secret that is in use nowhere, nor stored, where a restart would find it:
`Outdated`. It holds of a new secret because secrets are not used twice. A change is
acknowledged when it has written the password and the secret to memory and to the
database; `HandlerInv` says how far the handler that holds the mutex has got, and that no
credentials read earlier hold the secret that it wrote.

The throttle appears in `Auth` as three operations; `AuthUsesThrottle` shows that nothing else
changes it. `WindowBound` counts the attempts of the series before the lock and those of
the one that began it: all but those after its first attempt are as old as the lock.

### Statistics (`StatsProof`)

`RowsInv` is needed because `load_status_data` replaces a counter of zero by a count of rows,
which must not exceed what happened: deletions only lower it (`RowsLeave`), and so does a read
that fails. `SaveProgress` says which keys a save has passed; when it has passed them all in
every life, and every start could read, memory, table and history agree (`LoadsCounted`).

### Streams (`LogStreamsProof`)

The list is changed by index. `KeptList` says what a removal leaves, and `ListInv` that no
stream is listed twice, so that an index names one stream. With one thread that logs, the
indexes it collects stay right because others only append (`RemovalInv`). For the order,
`OrderInv` relates what was shown, what is in the channel and the message being sent:
each part is sorted by thread and number and older than the next one, and the streams that
the thread has yet to reach have only older messages. `LevelInv` says that the one open
stream has kept the level in force before.

### Configuration files (`ConfigStoreProof`)

`StoreAssumption` says that the pages, `smartdns.conf` and the set are different files, named
once in a plan, and that torn files are no texts.

`Shapes` says once what each action makes of the requests, `AtFile` what it makes of its file,
and `StepKinds` and `OtherFiles` that everything else is left alone (`Still`): a step
disturbs the invariants of the one file that its request is at, so that each is proved
with a lemma for the other files and one case per action for that one.

`WholeUnlessRaced` needs that what is renamed over a file is whole. `WriteInv` says that of
the one request that has the temporary file open: what it writes through its descriptor goes
to an empty temporary file, or to one that a failed save has removed. That the text
itself is whole holds because it was made from a whole file (`NewTextLeft`).

The other three properties are about saves that nothing raced with, on their file (`raced`)
or in the server (`alone`). `SoleAt` is the reason that this is inductive: a second request
that reads the file is noted in `raced` and ends `alone`. `SaveOK` then follows the save:
the text in hand is made from what the file holds, the copy is what the file holds, and so
is the temporary file what is in hand; after the file was opened for overwriting its
copy alone has the text, and the text in hand was made from it. `DoneOK` says that the
files behind a request that is alone have its text. `CurChanges` draws from this in which
three ways the text of a file can change.

What an edit makes of a set is `EditedItems`: each item once, and none lost. `Picked` lists
positions in ascending order. That they can be listed (`AscendingExists`) would be an
induction over sets of positions; the library's induction theorems cannot be used, so the
proof takes a smallest counterexample instead (`LeastIn`, from the well-foundedness of `<`),
and shows that the set without its last position would be a smaller one.

### What the configuration says (`ConfigProof`)

`SourcesAssumption` says that there are finitely many files, that names stand for files, and
that a file is a sequence of lines; which lines, and who includes whom, is arbitrary.

`SourcesExact` says something about the end of the walk, and what holds before is `WalkInv`:
each call reads a source (`CallsAreSources`), what the lines before its next one include was
visited (`ReadSoFar`), and a source that no call reads any more has had all its lines
(`OpenOrRead`). The one thing a step could break is `OpenOrRead`, when a call returns; then
`ReadSoFar` covers the whole file. `SourcesAreReachable` draws the consequence that needs
no order: the sources are the least set with `smartdns.conf` that is closed under inclusion.
A smallest source outside another closed set would be included by an earlier one inside it.

`StackIsBounded` needs that the calls are not more than the sources, which are different and
of which there are no more than included files and groups (`AllSources`, finite). That the
walk ends, for a thread that runs on, is a liveness property. What makes it true is not, and
is proved: `WalkShrinks` says that each step makes the triple of sources not found, calls
not returned and lines left in the file smaller in the lexicographic order, in natural
numbers.

`PagesAssumption` says that `smartdns.conf` has no open block at first and that the
administrator adds no markers. `UserLinesAreKept` is then about one text, whatever the
settings and rules are: what surrounds the first block (`Around`) has no begin marker before it
and no open block after it, so that a save finds its own block again at the same place
(`BlockFound`). Without `WellMarked` this is false, and `BlocksStayWhole` says that no
sequence of saves, reloads and edits loses it. Where the first marker is, is a smallest
position (`LeastIn`).

### Lists (`QueryListsProof`)

`ListsAssumption` says that there are keys and page sizes, and that sizes are not zero; the
set of page sizes, of keys and the bounds are otherwise arbitrary.

Every property rests on what ORDER BY and LIMIT leave, so the module begins with ordered
sets: a finite set with a strict total order can be listed (`ListExists`, by a smallest
counterexample, like `AscendingExists`), in one way only (`ListsUnique`), and the place
of a member is the number of members before it plus one (`ListsRank`). `OrdersRows` is why the
rows are such a set: their ids differ, so that ORDER BY by time and id leaves no tie.

`BrowseComplete` is not inductive: `SeenOK` says that what was seen ends with the
last row of the page, and that what is watched and not seen comes after it, while the page
is full. A step to the next page keeps it because the cursor id cuts off exactly what is
not after the last row (`CursorBounds`) and the page ends before every row it found and
does not show (`PageEnds`); a first page because its order is that of the ids
(`OrderIsById`), which for the unfiltered queries is the condition that the times agree with
the ids. An insertion keeps it because a new row has an id that no watched row has.

`DeletesShown` is `PageOK`: the row with the id of a row of the page is that row still,
because the ids given out since are larger than those of the page. `CursorExact` holds of
each step by itself: what the query finds is the side of the cursor (`StepSelects`), and
the first page_size places of the list are the rows with fewer than page_size others nearer
to the cursor (`StepShowsNearest`). `PagesPartition` is arithmetic: each place is on one page
up to `total_page` (`SamePage`), and each of these pages has one (`PlacesOnPages`); a list
has a row at one place only (`GetListOnce`).

### Only model-checked

* Liveness: `QueuedHandled`, `PendingFlushed`, `SuspendFollowsDisk`, `StopCompletes`,
  `OldRowsPurged`, `WalkEnds`, `CallsReturn`, `LookupEnds`, `ShellEnds`. It needs fairness and
  ENABLED, which the prover does not handle. For `WalkEnds`, `CallsReturn` and `LookupEnds`
  the measure that each step makes smaller is a theorem, for `ShellEnds` that a Close frame
  is not lost.
* `SavedReadBack`, `PagesFixpoint`, `RulesKept`, `OverviewExact`: what the renderers, the
  parsers and the lists of the overview compute is defined by folds over lines. For
  every text that would need an induction over data with an operator as its parameter,
  which the provers cannot instantiate.

These thirteen are all: each of the other properties of the passing runs is a theorem.

## 5. What is not modelled

* `http_api_msg.rs` (field-by-field JSON), the wrappers of `smartdns.rs` (FFI), TLS,
  static files and CORS: input, output and formatting without state of interest.
* `insert_domain` and the getters of `DataServerControl`: reads, or entries that
  only tests use.
* The content of rows other than client, flags and time; `qps`; memory usage.
* The metrics stream, the list of backups, explanations, descriptions and previews of
  the configuration, and the handlers that only read or forward to smartdns.
* Reads that fail, other than those of the counters at a start and those of a save: the
  overview answers an error for an included file that it cannot read (`config_ui.rs:1204`);
  `get_config` turns a failed read into a missing key (`data_server.rs:370`).
* Comments: a `smartdns.conf` that holds nothing else counts as empty in `ConfigPages`, where
  the overview would take its settings from it.
* Edits of a set that add several items, or only remove some: `SetEditExact` is about edits
  that add one.
* Text filters of the lists (`db.rs:775` swaps two of them): a filter is one key.
* What two processes would do with the same database or the same files.

## 6. What could come next

`DropsCounted` and `GroupsKept` hold once the two findings are fixed.
`RulesKept` could lose its condition on slashes if a rule were split at its second slash.
