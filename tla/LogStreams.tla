----------------------------- MODULE LogStreams -----------------------------
(***************************************************************************)
(* The log and the audit log as browsers follow them.  ServerLog and       *)
(* ServerAuditLog (src/src/server_log.rs) each keep a list of senders, one *)
(* per open stream, behind a read-write lock.  A thread of smartdns that   *)
(* logs sends the message to all of them under the read lock, and removes  *)
(* the closed ones later, by their index, under the write lock.  Every     *)
(* stream is served by a task of its own (src/src/http_server_stream.rs).  *)
(* A stream of the log also saves the log level and restores it when it    *)
(* ends.                                                                   *)
(***************************************************************************)
EXTENDS Integers, Sequences, FiniteSets, SequencesExt

CONSTANTS
    Dispatchers,    \* threads of smartdns
    Sessions,       \* the streams, each opened once
    Levels,         \* log levels
    NoLevel,        \* no level
    FirstLevel,     \* the level at the start
    QueueSize,      \* capacity of a stream's channel (4096)
    MaxMsgs         \* bound: messages logged

ASSUME StreamsAssumption ==
    /\ IsFiniteSet(Dispatchers)
    /\ FirstLevel \in Levels
    /\ NoLevel \notin Levels
    /\ QueueSize \in Nat \ {0}
    /\ MaxMsgs \in Nat

VARIABLES
    kind,           \* "log" or "audit": which of the two lists this is
    threads,        \* the threads that log
    streams,        \* the list of senders
    queue,          \* session -> what is in its channel
    session,        \* session -> where its task is, and its local variables
    disp,           \* dispatcher -> where it is in dispatch_log
    aborted,        \* a panic reached the C code that called the plugin
    level,          \* the log level of smartdns
    stored,         \* log-level in table config
    saving,         \* the level that api_log_set_level is about to store
    \* History: not in the code
    next_msg,       \* number of the next message
    shown,          \* session -> the messages its browser received
    base_level      \* the level once no stream is open, NoLevel when streams
                    \* or a change through the API overlapped a stream

list   == <<streams, queue, session, shown>>
levels == <<level, stored, saving, base_level>>
world  == <<kind, threads>>
vars   == <<world, list, disp, aborted, levels, next_msg>>

-----------------------------------------------------------------------------
LevelOrNone == Levels \cup {NoLevel}

Message == [by : Dispatchers, n : 1 .. MaxMsgs]

SessionState == [pc : {"new", "registered", "open", "closed"},
                 is_pause : BOOLEAN, old_log_level : LevelOrNone]

\* msg is the number of the message, i the index in the list.
DispatcherState == [pc : {"idle", "send", "remove"}, msg : 0 .. MaxMsgs,
                    i : Nat, remove_list : SUBSET Nat]

NewSession == [pc |-> "new", is_pause |-> FALSE, old_log_level |-> NoLevel]

ClosedSession == [pc |-> "closed", is_pause |-> FALSE, old_log_level |-> NoLevel]

IdleDispatcher == [pc |-> "idle", msg |-> 0, i |-> 1, remove_list |-> {}]

StreamsTypeOK ==
    /\ kind \in {"log", "audit"}
    /\ threads \in SUBSET Dispatchers
    /\ streams \in Seq(Sessions)
    /\ queue \in [Sessions -> Seq(Message)]
    /\ \A s \in Sessions : Len(queue[s]) <= QueueSize
    /\ session \in [Sessions -> SessionState]
    /\ disp \in [Dispatchers -> DispatcherState]
    /\ aborted \in BOOLEAN
    /\ level \in Levels
    /\ stored \in LevelOrNone
    /\ saving \in LevelOrNone
    /\ next_msg \in 1 .. MaxMsgs + 1
    /\ shown \in [Sessions -> Seq(Message)]
    /\ base_level \in LevelOrNone

StreamsInit ==
    /\ kind \in {"log", "audit"}
    /\ threads \in SUBSET Dispatchers \ {{}}
    /\ streams = <<>>
    /\ queue = [s \in Sessions |-> <<>>]
    /\ session = [s \in Sessions |-> NewSession]
    /\ disp = [d \in Dispatchers |-> IdleDispatcher]
    /\ aborted = FALSE
    /\ level = FirstLevel
    /\ stored = NoLevel
    /\ saving = NoLevel
    /\ next_msg = 1
    /\ shown = [s \in Sessions |-> <<>>]
    /\ base_level = FirstLevel

-----------------------------------------------------------------------------
(* ServerLog::dispatch_log and ServerAuditLog::dispatch_audit_log          *)

\* The read lock is held while a message is sent.
WriteLockFree == \A d \in Dispatchers : disp[d].pc # "send"

Live(s) == session[s].pc \in {"registered", "open"}

\* A message is logged; without streams dispatch_log returns at once.
DispatchLog(d) ==
    /\ d \in threads
    /\ disp[d].pc = "idle"
    /\ next_msg <= MaxMsgs
    /\ next_msg' = next_msg + 1
    /\ disp' = IF streams = <<>> THEN disp
               ELSE [disp EXCEPT ![d] = [pc |-> "send", msg |-> next_msg,
                                         i |-> 1, remove_list |-> {}]]
    /\ UNCHANGED <<world, list, aborted, levels>>

HasRoom(s) == Len(queue[s]) < QueueSize

\* Mutant: a full stream is taken for a closed one.
ClosedOrFull(s) == ~Live(s) \/ ~HasRoom(s)

\* TrySendError::Closed.
Closed(s) == ~Live(s)

\* try_send to one stream: a full one misses the message, a closed one is
\* remembered for removal.
TrySend(d) ==
    LET i == disp[d].i
        s == streams[i]
        removed == disp[d].remove_list \cup (IF Closed(s) THEN {i} ELSE {})
    IN  /\ disp[d].pc = "send"
        /\ \/ /\ Live(s) /\ HasRoom(s)
              /\ queue' = [queue EXCEPT ![s] =
                             Append(@, [by |-> d, n |-> disp[d].msg])]
           \/ /\ ~Live(s) \/ ~HasRoom(s)
              /\ UNCHANGED queue
        /\ disp' = [disp EXCEPT ![d] =
             IF i < Len(streams)
             THEN [pc |-> "send", msg |-> disp[d].msg, i |-> i + 1,
                   remove_list |-> removed]
             ELSE IF removed = {} THEN IdleDispatcher
             ELSE [pc |-> "remove", msg |-> 0, i |-> 1, remove_list |-> removed]]
        /\ UNCHANGED <<world, streams, session, shown, aborted, levels, next_msg>>

\* The enumeration of a set of indexes in ascending order, which is unique.
Ascending(S) ==
    {f \in [1 .. Cardinality(S) -> S] :
       \A j, k \in 1 .. Cardinality(S) : j < k => f[j] < f[k]}

\* The list after its indexes in R were removed, the largest first: the others
\* stay in their order.
Kept(seq, R) ==
    {[k \in 1 .. Cardinality(DOMAIN seq \ R) |-> seq[f[k]]] :
       f \in Ascending(DOMAIN seq \ R)}

\* Vec::remove panics on an index out of range.  The largest one is removed
\* first, so either it is out of range or none is.
RemoveStreams(d) ==
    LET R == disp[d].remove_list
    IN  /\ disp[d].pc = "remove"
        /\ WriteLockFree
        /\ disp' = [disp EXCEPT ![d] = IdleDispatcher]
        /\ \/ /\ R \subseteq DOMAIN streams
              /\ streams' \in Kept(streams, R)
              /\ UNCHANGED aborted
           \/ /\ ~(R \subseteq DOMAIN streams)
              /\ aborted' = TRUE
              /\ UNCHANGED streams
        /\ UNCHANGED <<world, queue, session, shown, levels, next_msg>>

-----------------------------------------------------------------------------
(* serve_log_stream and serve_audit_log_stream                             *)

Pushed(s) == Append(streams, s)

\* get_log_stream: the channel is created and its sender is listed.
GetLogStream(s) ==
    /\ session[s].pc = "new"
    /\ WriteLockFree
    /\ streams' = Pushed(s)
    /\ session' = [session EXCEPT ![s].pc = "registered"]
    /\ UNCHANGED <<world, queue, shown, disp, aborted, levels, next_msg>>

\* The sessions whose guard will restore a level.
OpenSessions == {s \in Sessions : kind = "log" /\ session[s].pc = "open"}

\* Mutant: the level is not restored.
EndKeepsLevel(s) ==
    /\ session' = [session EXCEPT ![s] = ClosedSession]
    /\ queue' = [queue EXCEPT ![s] = <<>>]
    /\ UNCHANGED level

\* The task ends: the guard restores the level and the receiver is dropped.
End(s) ==
    /\ session' = [session EXCEPT ![s] = ClosedSession]
    /\ queue' = [queue EXCEPT ![s] = <<>>]
    /\ level' = IF kind = "log" THEN session[s].old_log_level ELSE level

\* LogLevelGuard::new for the log.  The audit log may be disabled: the stream
\* ends, and its sender stays in the list.
EnterLoop(s) ==
    /\ session[s].pc = "registered"
    /\ \/ /\ session' = [session EXCEPT ![s] =
                           [pc |-> "open", is_pause |-> session[s].is_pause,
                            old_log_level |-> IF kind = "log" THEN level
                                                              ELSE NoLevel]]
          /\ base_level' = IF OpenSessions = {} THEN base_level ELSE NoLevel
          /\ UNCHANGED <<queue, level>>
       \/ /\ kind = "audit"
          /\ End(s)
          /\ UNCHANGED base_level
    /\ UNCHANGED <<world, streams, shown, disp, aborted, stored, saving,
                   next_msg>>

\* Mutant: the message is kept for later.
ReceivedKept(s) == Append(Tail(queue[s]), Head(queue[s]))

\* A stream takes messages out of its channel when it is paused too.
Received(s) == Tail(queue[s])

\* log_stream.recv: the message goes to the browser, unless the stream is
\* paused; if sending fails the task ends.
Recv(s) ==
    /\ session[s].pc = "open"
    /\ queue[s] # <<>>
    /\ \/ /\ session[s].is_pause
          /\ queue' = [queue EXCEPT ![s] = Received(s)]
          /\ UNCHANGED <<session, shown, level>>
       \/ /\ ~session[s].is_pause
          /\ queue' = [queue EXCEPT ![s] = Received(s)]
          /\ shown' = [shown EXCEPT ![s] = Append(@, Head(queue[s]))]
          /\ UNCHANGED <<session, level>>
       \/ /\ ~session[s].is_pause
          /\ End(s)
          /\ UNCHANGED shown
    /\ UNCHANGED <<world, streams, disp, aborted, stored, saving, next_msg,
                   base_level>>

\* log_stream.recv returns None when the sender is gone: the stream is closed.
\* A paused one polls again.
RecvNone(s) ==
    /\ session[s].pc = "open"
    /\ queue[s] = <<>>
    /\ s \notin ToSet(streams)
    /\ ~session[s].is_pause
    /\ End(s)
    /\ UNCHANGED <<world, streams, shown, disp, aborted, stored, saving,
                   next_msg, base_level>>

\* LOG_CONTROL_PAUSE and LOG_CONTROL_RESUME.
Pause(s, is_pause) ==
    /\ session[s].pc = "open"
    /\ session' = [session EXCEPT ![s].is_pause = is_pause]
    /\ UNCHANGED <<world, streams, queue, shown, disp, aborted, levels, next_msg>>

\* LOG_CONTROL_LOGLEVEL.
StreamLogLevel(s, l) ==
    /\ kind = "log"
    /\ session[s].pc = "open"
    /\ level' = l
    /\ UNCHANGED <<world, list, disp, aborted, stored, saving, next_msg, base_level>>

\* The browser closes the stream, or its connection breaks.
PeerClose(s) ==
    /\ session[s].pc = "open"
    /\ End(s)
    /\ UNCHANGED <<world, streams, shown, disp, aborted, stored, saving,
                   next_msg, base_level>>

-----------------------------------------------------------------------------
(* api_log_set_level                                                       *)

\* dns_log_set_level.
ApiLogSetLevel(l) ==
    /\ saving = NoLevel
    /\ level' = l
    /\ saving' = l
    /\ base_level' = IF OpenSessions = {} THEN l ELSE NoLevel
    /\ UNCHANGED <<world, list, disp, aborted, stored, next_msg>>

\* set_config, whose result is ignored, and the response.
ApiLogSaveLevel ==
    /\ saving # NoLevel
    /\ stored' \in {saving, stored}
    /\ saving' = NoLevel
    /\ UNCHANGED <<world, list, disp, aborted, level, next_msg, base_level>>

-----------------------------------------------------------------------------
DispatcherStep(d) == DispatchLog(d) \/ TrySend(d) \/ RemoveStreams(d)

SessionStep(s) ==
    \/ GetLogStream(s)
    \/ EnterLoop(s)
    \/ Recv(s)
    \/ RecvNone(s)
    \/ \E is_pause \in BOOLEAN : Pause(s, is_pause)
    \/ \E l \in Levels : StreamLogLevel(s, l)
    \/ PeerClose(s)

StreamsNext ==
    /\ ~aborted
    /\ \/ \E d \in Dispatchers : DispatcherStep(d)
       \/ \E s \in Sessions : SessionStep(s)
       \/ \E l \in Levels : ApiLogSetLevel(l)
       \/ ApiLogSaveLevel

StreamsSpec == StreamsInit /\ [][StreamsNext]_vars

-----------------------------------------------------------------------------
OneThread == Cardinality(threads) = 1

\* With one thread that logs, the indexes that dispatch_log collects under the
\* read lock still name closed streams when it takes the write lock, so that
\* Vec::remove neither panics nor hits another stream: one that is open stays
\* listed whatever opens or closes between the two locks.
RemovalsExact ==
    OneThread =>
        /\ \A d \in Dispatchers : disp[d].pc = "remove" =>
              \A i \in disp[d].remove_list : i \in DOMAIN streams /\ ~Live(streams[i])
        /\ \A s \in Sessions : Live(s) => s \in ToSet(streams)

\* A browser sees the messages of one thread in the order in which they were
\* logged and none of them twice, however many threads log, whichever messages
\* it misses and however often it pauses.
OrderKept ==
    \A s \in Sessions : \A i, j \in DOMAIN shown[s] :
        i < j /\ shown[s][i].by = shown[s][j].by
            => shown[s][i].n < shown[s][j].n

\* LogLevelGuard: however a log stream ends, the level a browser chose for it
\* ends with it.  Once no stream is open the level is the one in force before,
\* unless two streams, or a stream and a change through the API, overlapped.
LevelRestored ==
    OpenSessions = {} /\ base_level # NoLevel => level = base_level
=============================================================================
