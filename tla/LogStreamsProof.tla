-------------------------- MODULE LogStreamsProof --------------------------
(***************************************************************************)
(* Proofs about LogStreams, for any number of threads, streams, levels and *)
(* messages and any capacity of the channels: messages keep their order,   *)
(* the level is restored, and with one thread only closed streams are      *)
(* removed.                                                                *)
(***************************************************************************)
EXTENDS LogStreams, FiniteSetTheorems, SequenceTheorems, TLAPS

\* A stream is listed once, after get_log_stream; a thread that sends is at a
\* stream of the list, which nobody changes meanwhile.
ListInv ==
    /\ StreamsTypeOK
    /\ IsInjective(streams)
    /\ \A i \in DOMAIN streams : session[streams[i]].pc # "new"
    /\ \A d \in Dispatchers :
          /\ disp[d].pc = "send" =>
                disp[d].i \in DOMAIN streams /\ disp[d].msg \in 1 .. next_msg - 1
          /\ disp[d].pc # "idle" => d \in threads
    /\ \A s \in Sessions :
          kind = "log" /\ session[s].pc = "open" => session[s].old_log_level \in Levels

-----------------------------------------------------------------------------
(* The order of messages                                                   *)

Before(a, b) == a.by = b.by => a.n < b.n

Sorted(q) == \A i, j \in DOMAIN q : i < j => Before(q[i], q[j])

Follows(p, q) == \A i \in DOMAIN p, j \in DOMAIN q : Before(p[i], q[j])

\* The messages of d in q were logged before message n.
Older(q, d, n) == \A i \in DOMAIN q : q[i].by = d => q[i].n < n

\* What was shown and what is in the channel is in order, the former before
\* the latter, and all of it was logged.
SessionOrder(s) ==
    /\ Sorted(shown[s])
    /\ Sorted(queue[s])
    /\ Follows(shown[s], queue[s])
    /\ \A d \in Dispatchers : Older(shown[s], d, next_msg) /\ Older(queue[s], d, next_msg)

\* The message that d is sending is new to the streams it has yet to reach.
SendOrder(d) ==
    disp[d].pc = "send" =>
        \A k \in DOMAIN streams :
           k >= disp[d].i => /\ Older(shown[streams[k]], d, disp[d].msg)
                             /\ Older(queue[streams[k]], d, disp[d].msg)

OrderInv ==
    /\ \A s \in Sessions : SessionOrder(s)
    /\ \A d \in Dispatchers : SendOrder(d)

-----------------------------------------------------------------------------
(* Removals and levels                                                     *)

\* The indexes collected name streams that are closed, already while the
\* message is being sent.
RemovalInv ==
    OneThread =>
        /\ \A d \in Dispatchers : disp[d].pc # "idle" =>
              \A i \in disp[d].remove_list :
                 i \in DOMAIN streams /\ session[streams[i]].pc = "closed"
        /\ \A s \in Sessions : Live(s) => s \in ToSet(streams)

\* The one stream that is open will restore the level in force before it.
LevelInv ==
    base_level # NoLevel =>
        /\ OpenSessions = {} => level = base_level
        /\ \A s \in OpenSessions : session[s].old_log_level = base_level
        /\ \A s, t \in OpenSessions : s = t

-----------------------------------------------------------------------------
(* Vec::remove                                                             *)

\* The list after a removal consists of exactly the streams whose index was
\* not removed, each once.
LEMMA KeptList ==
    ASSUME NEW S, NEW seq \in Seq(S), NEW R, NEW new \in Kept(seq, R),
           IsInjective(seq)
    PROVE  /\ new \in Seq(S)
           /\ IsInjective(new)
           /\ \A k \in DOMAIN new : \E i \in DOMAIN seq \ R : new[k] = seq[i]
           /\ \A i \in DOMAIN seq \ R : \E k \in DOMAIN new : new[k] = seq[i]
<1> DEFINE D == DOMAIN seq \ R
           n == Cardinality(D)
<1>1. Len(seq) \in Nat /\ DOMAIN seq = 1 .. Len(seq) /\ \A i \in DOMAIN seq : seq[i] \in S
    OBVIOUS
<1>2. IsFiniteSet(D) /\ n \in Nat
  <2>1. IsFiniteSet(1 .. Len(seq))
      BY <1>1, FS_Interval
  <2>2. IsFiniteSet(D)
      BY <1>1, <2>1, FS_Subset
  <2>3. QED
      BY <2>2, FS_CardinalityType
<1>3. PICK f \in Ascending(D) : new = [k \in 1 .. n |-> seq[f[k]]]
    BY DEF Kept
<1>4. f \in [1 .. n -> D] /\ \A j, k \in 1 .. n : j < k => f[j] < f[k]
    BY <1>3 DEF Ascending
<1>d. n = Cardinality(D) /\ D = DOMAIN seq \ R /\ \A i \in D : i \in Nat
    BY <1>1
<1> HIDE DEF D, n
<1>5. \A j, k \in 1 .. n : f[j] = f[k] => j = k
  <2> SUFFICES ASSUME NEW j \in 1 .. n, NEW k \in 1 .. n, f[j] = f[k], j # k
               PROVE  FALSE
      OBVIOUS
  <2>1. f[j] \in Nat /\ f[k] \in Nat
      BY <1>4, <1>d
  <2>2. j \in Int /\ k \in Int
      BY <1>2
  <2>3. j < k \/ k < j
      BY <2>2
  <2>4. QED
      BY <1>4, <2>1, <2>3
<1>6. \A i \in D : \E k \in 1 .. n : f[k] = i
  <2>1. f \in Injection(1 .. n, D)
      BY <1>4, <1>5 DEF Injection, IsInjective
  <2>2. IsFiniteSet(1 .. n) /\ Cardinality(1 .. n) = n
      BY <1>2, FS_Interval
  <2>3. f \in Surjection(1 .. n, D)
      BY <1>2, <1>d, <2>1, <2>2, FS_Injection
  <2>4. QED
      BY <2>3 DEF Surjection
<1>7. \A k \in 1 .. n : f[k] \in D /\ new[k] = seq[f[k]]
    BY <1>3, <1>4
<1>8. /\ DOMAIN new = 1 .. n
      /\ \A k \in 1 .. n : new[k] \in S
      /\ \A i \in D : i \in DOMAIN seq
    BY <1>1, <1>3, <1>7, <1>d
<1>9. new \in Seq(S)
  <2>1. new \in [1 .. n -> S]
      BY <1>3, <1>8
  <2>2. QED
      BY <1>2, <2>1, SeqDef
<1>10. QED
  <2>1. \A i, j \in DOMAIN new : new[i] = new[j] => i = j
    <3>1. ASSUME NEW i \in 1 .. n, NEW j \in 1 .. n, new[i] = new[j]
          PROVE  i = j
      <4>1. f[i] = f[j]
          BY <1>7, <1>8, <3>1 DEF IsInjective
      <4>2. QED
          BY <1>5, <4>1
    <3>2. QED
        BY <1>8, <3>1
  <2>2. \A k \in DOMAIN new : \E i \in D : new[k] = seq[i]
      BY <1>7, <1>8
  <2>3. \A i \in D : \E k \in DOMAIN new : new[k] = seq[i]
      BY <1>6, <1>7, <1>8
  <2>4. QED
      BY <1>9, <1>d, <2>1, <2>2, <2>3 DEF IsInjective

-----------------------------------------------------------------------------
(* Types and the list                                                      *)

\* The records that the steps begin with are well typed.
LEMMA StreamRecords ==
    /\ NewSession \in SessionState /\ NewSession.pc = "new"
    /\ ClosedSession \in SessionState /\ ClosedSession.pc = "closed"
    /\ IdleDispatcher \in DispatcherState /\ IdleDispatcher.pc = "idle"
    /\ IdleDispatcher.remove_list = {}
    BY StreamsAssumption
    DEF NewSession, ClosedSession, IdleDispatcher, SessionState, DispatcherState, LevelOrNone

\* Steps of the threads that log.
LEMMA DispatcherKeepsList ==
    ASSUME ListInv, NEW d \in Dispatchers, DispatcherStep(d)
    PROVE  ListInv'
<1>a. /\ StreamsTypeOK /\ streams \in Seq(Sessions)
      /\ DOMAIN streams = 1 .. Len(streams) /\ Len(streams) \in Nat
      /\ disp \in [Dispatchers -> DispatcherState] /\ disp[d] \in DispatcherState
      /\ next_msg \in 1 .. MaxMsgs + 1 /\ MaxMsgs \in Nat /\ QueueSize \in Nat
      /\ queue \in [Sessions -> Seq(Message)]
      /\ \A s \in Sessions : Len(queue[s]) <= QueueSize
    BY StreamsAssumption DEF ListInv, StreamsTypeOK
<1>1. CASE DispatchLog(d)
  <2>1. /\ d \in threads /\ next_msg' = next_msg + 1 /\ next_msg <= MaxMsgs
        /\ UNCHANGED <<kind, threads, streams, queue, session, shown, aborted,
                       level, stored, saving, base_level>>
      BY <1>1 DEF DispatchLog, world, list, levels
  <2>2. CASE streams = <<>>
    <3>1. disp' = disp
        BY <1>1, <2>2 DEF DispatchLog
    <3>2. StreamsTypeOK'
        BY <1>a, <2>1, <3>1 DEF StreamsTypeOK
    <3>3. \A e \in Dispatchers :
             disp[e].msg \in 1 .. next_msg - 1 => disp[e].msg \in 1 .. next_msg' - 1
        BY <1>a, <2>1
    <3>4. QED
        BY <2>1, <3>1, <3>2, <3>3 DEF ListInv
  <2>3. CASE streams # <<>>
    <3> DEFINE r == [pc |-> "send", msg |-> next_msg, i |-> 1, remove_list |-> {}]
    <3>1. disp' = [disp EXCEPT ![d] = r]
        BY <1>1, <2>3 DEF DispatchLog
    <3>2. r \in DispatcherState
        BY <1>a, <2>1 DEF DispatcherState
    <3>3. r.pc = "send" /\ r.i \in DOMAIN streams /\ r.msg \in 1 .. next_msg' - 1
      <4>1. Len(streams) > 0
          BY <1>a, <2>3
      <4>2. QED
          BY <1>a, <2>1, <4>1
    <3> HIDE DEF r
    <3>4. StreamsTypeOK'
        BY <1>a, <2>1, <3>1, <3>2 DEF StreamsTypeOK
    <3>5. QED
        BY <1>a, <2>1, <3>1, <3>3, <3>4 DEF ListInv
  <2>4. QED
      BY <2>2, <2>3
<1>2. CASE TrySend(d)
  <2> DEFINE s == streams[disp[d].i]
             m == [by |-> d, n |-> disp[d].msg]
  <2>1. /\ disp[d].pc = "send" /\ disp[d].i \in DOMAIN streams /\ s \in Sessions
        /\ UNCHANGED <<kind, threads, streams, session, shown, aborted, next_msg,
                       level, stored, saving, base_level>>
      BY <1>2, <1>a DEF TrySend, ListInv, world, levels
  <2>2. queue' = queue \/ (queue' = [queue EXCEPT ![s] = Append(queue[s], m)]
                           /\ Len(queue[s]) < QueueSize)
      BY <1>2 DEF TrySend, HasRoom
  <2>3. disp[d].msg \in 1 .. MaxMsgs
      BY <1>a, <2>1 DEF ListInv
  <2>4. m \in Message
      BY <2>3 DEF Message
  <2>5. PICK r \in DispatcherState :
           /\ disp' = [disp EXCEPT ![d] = r]
           /\ r.pc = "send" =>
                 r.i \in DOMAIN streams /\ r.msg \in 1 .. next_msg - 1
    <3> DEFINE i == disp[d].i
               removed == disp[d].remove_list \cup (IF Closed(s) THEN {i} ELSE {})
               next == [pc |-> "send", msg |-> disp[d].msg, i |-> i + 1,
                        remove_list |-> removed]
               last == [pc |-> "remove", msg |-> 0, i |-> 1, remove_list |-> removed]
    <3>1. i \in Nat /\ removed \in SUBSET Nat /\ disp[d].msg \in 0 .. MaxMsgs
        BY <1>a DEF DispatcherState
    <3>2. next \in DispatcherState /\ last \in DispatcherState
        BY <1>a, <3>1 DEF DispatcherState
    <3>3. disp' = [disp EXCEPT ![d] = IF i < Len(streams) THEN next
                                      ELSE IF removed = {} THEN IdleDispatcher ELSE last]
        BY <1>2 DEF TrySend
    <3>4. i < Len(streams) => next.i \in DOMAIN streams /\ next.msg \in 1 .. next_msg - 1
        BY <1>a, <2>1, <3>1 DEF ListInv
    <3>5. last.pc # "send" /\ IdleDispatcher.pc # "send"
        BY StreamRecords
    <3> HIDE DEF next, last, removed, i
    <3>6. QED
        BY <3>2, <3>3, <3>4, <3>5, StreamRecords
  <2> HIDE DEF m, s
  <2>6. queue' \in [Sessions -> Seq(Message)] /\ \A t \in Sessions : Len(queue'[t]) <= QueueSize
    <3>1. CASE queue' = queue
        BY <1>a, <3>1
    <3>2. CASE queue' = [queue EXCEPT ![s] = Append(queue[s], m)] /\ Len(queue[s]) < QueueSize
      <4>1. /\ Append(queue[s], m) \in Seq(Message)
            /\ Len(Append(queue[s], m)) <= QueueSize
          BY <1>a, <2>1, <2>4, <3>2
      <4>2. QED
          BY <1>a, <2>1, <3>2, <4>1
    <3>3. QED
        BY <2>2, <3>1, <3>2
  <2>7. StreamsTypeOK'
      BY <1>a, <2>1, <2>5, <2>6 DEF StreamsTypeOK
  <2>8. QED
      BY <1>a, <2>1, <2>5, <2>7 DEF ListInv
<1>3. CASE RemoveStreams(d)
  <2>1. /\ disp[d].pc = "remove" /\ \A e \in Dispatchers : disp[e].pc # "send"
        /\ disp' = [disp EXCEPT ![d] = IdleDispatcher]
        /\ UNCHANGED <<kind, threads, queue, session, shown, next_msg,
                       level, stored, saving, base_level>>
      BY <1>3 DEF RemoveStreams, WriteLockFree, world, levels
  <2>2. aborted' \in BOOLEAN
      BY <1>3, <1>a DEF RemoveStreams, StreamsTypeOK
  <2>3. /\ streams' \in Seq(Sessions)
        /\ IsInjective(streams')
        /\ \A k \in DOMAIN streams' : \E i \in DOMAIN streams : streams'[k] = streams[i]
    <3>1. CASE streams' = streams
        BY <1>a, <3>1 DEF ListInv
    <3>2. CASE streams' \in Kept(streams, disp[d].remove_list)
      <4>1. IsInjective(streams)
          BY DEF ListInv
      <4>2. PICK R : streams' \in Kept(streams, R)
          BY <3>2
      <4>3. streams' \in Seq(Sessions)
          BY <1>a, <4>1, <4>2, KeptList
      <4>4. IsInjective(streams')
          BY <1>a, <4>1, <4>2, KeptList
      <4>5. ASSUME NEW k \in DOMAIN streams'
            PROVE  \E i \in DOMAIN streams \ R : streams'[k] = streams[i]
        <5>1. streams \in Seq(Sessions)
            BY <1>a
        <5>2. QED
            BY <4>1, <4>2, <5>1, KeptList
      <4>6. QED
          BY <4>3, <4>4, <4>5
    <3>3. QED
        BY <1>3, <3>1, <3>2 DEF RemoveStreams
  <2>4. StreamsTypeOK'
      BY <1>a, <2>1, <2>2, <2>3, StreamRecords DEF StreamsTypeOK
  <2>5. \A e \in Dispatchers : disp'[e].pc # "send" /\ (disp'[e].pc # "idle" => e \in threads)
      BY <1>a, <2>1, StreamRecords DEF ListInv
  <2>6. QED
      BY <1>a, <2>1, <2>3, <2>4, <2>5 DEF ListInv
<1>4. QED
    BY <1>1, <1>2, <1>3 DEF DispatcherStep

\* Steps of the tasks that serve the streams.
LEMMA SessionKeepsList ==
    ASSUME ListInv, NEW s \in Sessions, SessionStep(s)
    PROVE  ListInv'
<1>a. /\ StreamsTypeOK /\ streams \in Seq(Sessions)
      /\ DOMAIN streams = 1 .. Len(streams) /\ Len(streams) \in Nat
      /\ session \in [Sessions -> SessionState] /\ session[s] \in SessionState
      /\ queue \in [Sessions -> Seq(Message)] /\ QueueSize \in Nat
      /\ \A t \in Sessions : Len(queue[t]) <= QueueSize
      /\ shown \in [Sessions -> Seq(Message)]
    BY StreamsAssumption DEF ListInv, StreamsTypeOK
<1>1. CASE GetLogStream(s)
  <2> DEFINE r == [session[s] EXCEPT !.pc = "registered"]
  <2>1. /\ session[s].pc = "new" /\ \A e \in Dispatchers : disp[e].pc # "send"
        /\ streams' = Append(streams, s)
        /\ session' = [session EXCEPT ![s] = r]
        /\ UNCHANGED <<kind, threads, queue, shown, disp, aborted, next_msg,
                       level, stored, saving, base_level>>
      BY <1>1 DEF GetLogStream, WriteLockFree, Pushed, world, levels
  <2>2. r \in SessionState /\ r.pc = "registered"
      BY <1>a DEF SessionState
  <2> HIDE DEF r
  <2>3. /\ streams' \in Seq(Sessions) /\ DOMAIN streams' = 1 .. Len(streams) + 1
        /\ \A i \in DOMAIN streams : streams'[i] = streams[i]
        /\ streams'[Len(streams) + 1] = s
      BY <1>a, <2>1
  <2>4. \A i \in DOMAIN streams' : i \in DOMAIN streams \/ i = Len(streams) + 1
      BY <1>a, <2>3
  <2>5. \A i \in DOMAIN streams : streams[i] # s
      BY <2>1 DEF ListInv
  <2>6. IsInjective(streams')
      BY <2>3, <2>4, <2>5 DEF ListInv, IsInjective
  <2>7. ASSUME NEW i \in DOMAIN streams'
        PROVE  session'[streams'[i]].pc # "new"
    <3>1. CASE i = Len(streams) + 1
        BY <1>a, <2>1, <2>2, <2>3, <3>1
    <3>2. CASE i \in DOMAIN streams
      <4>1. streams[i] \in Sessions /\ streams[i] # s /\ session[streams[i]].pc # "new"
          BY <1>a, <2>5, <3>2 DEF ListInv
      <4>2. QED
          BY <1>a, <2>1, <2>3, <3>2, <4>1
    <3>3. QED
        BY <2>4, <3>1, <3>2
  <2>8. StreamsTypeOK'
      BY <1>a, <2>1, <2>2, <2>3 DEF StreamsTypeOK
  <2>9. \A t \in Sessions : kind = "log" /\ session'[t].pc = "open" =>
                             session'[t].old_log_level \in Levels
      BY <1>a, <2>1, <2>2 DEF ListInv
  <2>10. QED
      BY <2>1, <2>6, <2>7, <2>8, <2>9 DEF ListInv
<1>2. ASSUME UNCHANGED <<kind, threads, streams, disp, aborted, next_msg>>,
             session[s].pc # "new",
             NEW r \in SessionState, r.pc # "new",
             kind = "log" /\ r.pc = "open" => r.old_log_level \in Levels,
             session' = [session EXCEPT ![s] = r],
             StreamsTypeOK'
      PROVE  ListInv'
    BY <1>a, <1>2 DEF ListInv
<1>e. ASSUME UNCHANGED <<kind, threads, streams, disp, aborted, next_msg, shown,
                         stored, saving, base_level>>,
             session[s].pc # "new",
             session' = [session EXCEPT ![s] = ClosedSession],
             queue' = [queue EXCEPT ![s] = <<>>],
             \/ level' = level
             \/ /\ session[s].pc = "open"
                /\ level' = IF kind = "log" THEN session[s].old_log_level ELSE level
      PROVE  ListInv'
  <2>1. level' \in Levels
      BY <1>e DEF ListInv, StreamsTypeOK
  <2>2. \A t \in Sessions : queue'[t] \in Seq(Message) /\ Len(queue'[t]) <= QueueSize
      BY <1>a, <1>e
  <2>3. StreamsTypeOK'
      BY <1>a, <1>e, <2>1, <2>2, StreamRecords DEF StreamsTypeOK
  <2>4. QED
      BY <1>2, <1>e, <2>3, StreamRecords
<1>3. CASE EnterLoop(s)
  <2>1. /\ session[s].pc = "registered"
        /\ UNCHANGED <<kind, threads, streams, disp, aborted, next_msg, shown, stored, saving>>
        /\ level \in Levels /\ base_level \in LevelOrNone
      BY <1>3, <1>a DEF EnterLoop, world, StreamsTypeOK
  <2>2. CASE /\ session' = [session EXCEPT ![s] =
                     [pc |-> "open", is_pause |-> session[s].is_pause,
                      old_log_level |-> IF kind = "log" THEN level ELSE NoLevel]]
             /\ base_level' = IF OpenSessions = {} THEN base_level ELSE NoLevel
             /\ UNCHANGED <<queue, level>>
    <3> DEFINE r == [pc |-> "open", is_pause |-> session[s].is_pause,
                     old_log_level |-> IF kind = "log" THEN level ELSE NoLevel]
    <3>1. r \in SessionState /\ r.pc = "open" /\ (kind = "log" => r.old_log_level = level)
        BY <1>a, <2>1 DEF SessionState, LevelOrNone
    <3>2. session' = [session EXCEPT ![s] = r]
        BY <2>2
    <3> HIDE DEF r
    <3>3. base_level' \in LevelOrNone
        BY <2>1, <2>2 DEF LevelOrNone
    <3>4. StreamsTypeOK'
        BY <1>a, <2>1, <2>2, <3>1, <3>2, <3>3 DEF StreamsTypeOK
    <3>5. QED
        BY <1>2, <2>1, <3>1, <3>2, <3>4
  <2>3. CASE kind = "audit" /\ End(s) /\ UNCHANGED base_level
    <3>1. UNCHANGED level
        BY <2>3 DEF End
    <3>2. /\ session' = [session EXCEPT ![s] = ClosedSession]
          /\ queue' = [queue EXCEPT ![s] = <<>>]
        BY <2>3 DEF End
    <3>3. QED
        BY <1>e, <2>1, <2>3, <3>1, <3>2
  <2>4. QED
      BY <1>3, <2>2, <2>3 DEF EnterLoop
<1>4. CASE Recv(s)
  <2>1. /\ session[s].pc = "open" /\ queue[s] # <<>>
        /\ UNCHANGED <<kind, threads, streams, disp, aborted, next_msg, stored, saving, base_level>>
      BY <1>4 DEF Recv, world
  <2>2. CASE UNCHANGED <<session, level>> /\ queue' = [queue EXCEPT ![s] = Received(s)]
             /\ (shown' = shown \/ shown' = [shown EXCEPT ![s] = Append(shown[s], Head(queue[s]))])
    <3>1. /\ Tail(queue[s]) \in Seq(Message) /\ Len(Tail(queue[s])) <= QueueSize
          /\ Head(queue[s]) \in Message
        BY <1>a, <2>1
    <3>2. /\ queue' \in [Sessions -> Seq(Message)]
          /\ \A t \in Sessions : Len(queue'[t]) <= QueueSize
        BY <1>a, <2>2, <3>1 DEF Received
    <3>3. shown' \in [Sessions -> Seq(Message)]
      <4>1. Append(shown[s], Head(queue[s])) \in Seq(Message)
          BY <1>a, <3>1
      <4>2. QED
          BY <1>a, <2>2, <4>1
    <3>4. StreamsTypeOK'
        BY <2>1, <2>2, <3>2, <3>3 DEF StreamsTypeOK, ListInv
    <3>5. QED
        BY <2>1, <2>2, <3>4 DEF ListInv
  <2>3. CASE End(s) /\ UNCHANGED shown
      BY <1>e, <2>1, <2>3 DEF End
  <2>4. QED
      BY <1>4, <2>2, <2>3 DEF Recv
<1>5. CASE RecvNone(s) \/ PeerClose(s)
    BY <1>e, <1>5 DEF RecvNone, PeerClose, End, world
<1>6. ASSUME NEW b \in BOOLEAN, Pause(s, b)
      PROVE  ListInv'
  <2> DEFINE r == [session[s] EXCEPT !.is_pause = b]
  <2>1. /\ session[s].pc = "open" /\ session' = [session EXCEPT ![s] = r]
        /\ UNCHANGED <<kind, threads, streams, disp, aborted, next_msg, queue, shown,
                       level, stored, saving, base_level>>
      BY <1>6 DEF Pause, world, levels
  <2>2. /\ r \in SessionState /\ r.pc = "open"
        /\ r.old_log_level = session[s].old_log_level
      BY <1>a, <2>1 DEF SessionState
  <2> HIDE DEF r
  <2>3. StreamsTypeOK'
      BY <1>a, <2>1, <2>2 DEF StreamsTypeOK
  <2>4. kind = "log" => r.old_log_level \in Levels
      BY <2>1, <2>2 DEF ListInv
  <2>5. QED
      BY <1>2, <2>1, <2>2, <2>3, <2>4
<1>7. ASSUME NEW l \in Levels, StreamLogLevel(s, l)
      PROVE  ListInv'
  <2>1. /\ level' = l
        /\ UNCHANGED <<kind, threads, streams, disp, aborted, next_msg, session, queue, shown,
                       stored, saving, base_level>>
      BY <1>7 DEF StreamLogLevel, world, list
  <2>2. StreamsTypeOK'
      BY <1>a, <2>1 DEF StreamsTypeOK
  <2>3. QED
      BY <2>1, <2>2 DEF ListInv
<1>8. QED
    BY <1>1, <1>3, <1>4, <1>5, <1>6, <1>7 DEF SessionStep

\* Every step keeps the list and the types.
LEMMA ListStep == ListInv /\ [StreamsNext]_vars => ListInv'
<1> SUFFICES ASSUME ListInv, [StreamsNext]_vars
             PROVE  ListInv'
    OBVIOUS
<1>1. ASSUME NEW l \in Levels, ApiLogSetLevel(l)
      PROVE  ListInv'
  <2>1. /\ level' = l /\ saving' = l /\ base_level' \in {l, NoLevel}
        /\ UNCHANGED <<kind, threads, streams, disp, aborted, next_msg, session, queue, shown, stored>>
      BY <1>1 DEF ApiLogSetLevel, world, list
  <2>2. StreamsTypeOK'
      BY <2>1 DEF ListInv, StreamsTypeOK, LevelOrNone
  <2>3. QED
      BY <2>1, <2>2 DEF ListInv
<1>2. CASE ApiLogSaveLevel
  <2>1. /\ saving' = NoLevel /\ stored' \in {saving, stored}
        /\ UNCHANGED <<kind, threads, streams, disp, aborted, next_msg, session, queue, shown,
                       level, base_level>>
      BY <1>2 DEF ApiLogSaveLevel, world, list
  <2>2. StreamsTypeOK'
      BY <2>1 DEF ListInv, StreamsTypeOK, LevelOrNone
  <2>3. QED
      BY <2>1, <2>2 DEF ListInv
<1>3. CASE UNCHANGED vars
    BY <1>3 DEF vars, world, list, levels, ListInv, StreamsTypeOK
<1>4. QED
    BY <1>1, <1>2, <1>3, DispatcherKeepsList, SessionKeepsList DEF StreamsNext

\* The list, the types and the dispatchers, from the first state on.
THEOREM ListInvariant == StreamsSpec => []ListInv
<1>1. StreamsInit => ListInv
  <2> SUFFICES ASSUME StreamsInit PROVE ListInv
      OBVIOUS
  <2>1. /\ streams \in Seq(Sessions) /\ streams = <<>>
        /\ queue \in [Sessions -> Seq(Message)] /\ \A s \in Sessions : queue[s] = <<>>
        /\ shown \in [Sessions -> Seq(Message)]
      BY DEF StreamsInit
  <2>2. /\ session \in [Sessions -> SessionState] /\ \A s \in Sessions : session[s].pc = "new"
        /\ disp \in [Dispatchers -> DispatcherState] /\ \A d \in Dispatchers : disp[d].pc = "idle"
      BY StreamRecords DEF StreamsInit
  <2>3. StreamsTypeOK
    <3>1. next_msg \in 1 .. MaxMsgs + 1 /\ \A s \in Sessions : Len(queue[s]) <= QueueSize
        BY <2>1, StreamsAssumption DEF StreamsInit
    <3>2. level \in Levels /\ {stored, saving, base_level} \subseteq LevelOrNone
        BY StreamsAssumption DEF StreamsInit, LevelOrNone
    <3>3. kind \in {"log", "audit"} /\ threads \in SUBSET Dispatchers /\ aborted \in BOOLEAN
        BY DEF StreamsInit
    <3>4. QED
        BY <2>1, <2>2, <3>1, <3>2, <3>3 DEF StreamsTypeOK
  <2>4. QED
      BY <2>1, <2>2, <2>3 DEF ListInv, IsInjective
<1>2. QED
    BY <1>1, ListStep, PTL DEF StreamsSpec

-----------------------------------------------------------------------------
(* The log level                                                           *)

\* Every step keeps what the open stream will restore.
LEMMA LevelStep == ListInv /\ LevelInv /\ [StreamsNext]_vars => LevelInv'
<1> SUFFICES ASSUME ListInv, LevelInv, [StreamsNext]_vars
             PROVE  LevelInv'
    OBVIOUS
<1>a. session \in [Sessions -> SessionState] /\ level \in Levels /\ NoLevel \notin Levels
    BY StreamsAssumption DEF ListInv, StreamsTypeOK
<1>1. ASSUME UNCHANGED <<kind, session, level, base_level>>
      PROVE  LevelInv'
    BY <1>1 DEF LevelInv, OpenSessions
<1>2. ASSUME NEW s \in Sessions, UNCHANGED <<kind, level, base_level>>,
             NEW r \in SessionState, session' = [session EXCEPT ![s] = r],
             r.pc = "open" <=> session[s].pc = "open",
             r.pc = "open" => r.old_log_level = session[s].old_log_level
      PROVE  LevelInv'
  <2>1. OpenSessions' = OpenSessions
      BY <1>a, <1>2 DEF OpenSessions
  <2>2. \A t \in OpenSessions : session'[t].old_log_level = session[t].old_log_level
      BY <1>a, <1>2 DEF OpenSessions
  <2>3. QED
      BY <1>2, <2>1, <2>2 DEF LevelInv
<1>3. ASSUME NEW s \in Sessions, End(s), UNCHANGED <<kind, base_level>>,
             session[s].pc = "open" \/ kind = "audit"
      PROVE  LevelInv'
  <2>1. OpenSessions' = OpenSessions \ {s}
      BY <1>a, <1>3, StreamRecords DEF OpenSessions, End
  <2>2. \A t \in OpenSessions' : session'[t] = session[t]
      BY <1>a, <1>3, <2>1 DEF OpenSessions, End
  <2>3. CASE kind = "audit"
    <3>1. OpenSessions = {} /\ OpenSessions' = {} /\ level' = level
        BY <1>3, <2>3 DEF OpenSessions, End
    <3>2. QED
        BY <1>3, <3>1 DEF LevelInv
  <2>4. CASE kind = "log"
    <3>1. s \in OpenSessions /\ level' = session[s].old_log_level
        BY <1>3, <2>4 DEF OpenSessions, End
    <3>2. QED
        BY <1>3, <2>1, <2>2, <3>1 DEF LevelInv
  <2>5. QED
      BY <2>3, <2>4 DEF ListInv, StreamsTypeOK
<1>4. ASSUME NEW d \in Dispatchers, DispatcherStep(d)
      PROVE  LevelInv'
    BY <1>1, <1>4 DEF DispatcherStep, DispatchLog, TrySend, RemoveStreams, world, list, levels
<1>5. ASSUME NEW s \in Sessions, SessionStep(s)
      PROVE  LevelInv'
  <2>1. CASE GetLogStream(s)
    <3> DEFINE r == [session[s] EXCEPT !.pc = "registered"]
    <3>1. /\ session[s].pc = "new" /\ session' = [session EXCEPT ![s] = r]
          /\ UNCHANGED <<kind, level, base_level>>
        BY <2>1 DEF GetLogStream, world, levels
    <3>2. r \in SessionState /\ r.pc = "registered"
        BY <1>a DEF SessionState
    <3> HIDE DEF r
    <3>3. QED
        BY <1>2, <3>1, <3>2
  <2>2. CASE EnterLoop(s)
    <3>1. CASE End(s) /\ kind = "audit" /\ UNCHANGED base_level
        BY <1>3, <2>2, <3>1 DEF EnterLoop, world
    <3>2. CASE /\ session' = [session EXCEPT ![s] =
                     [pc |-> "open", is_pause |-> session[s].is_pause,
                      old_log_level |-> IF kind = "log" THEN level ELSE NoLevel]]
               /\ base_level' = IF OpenSessions = {} THEN base_level ELSE NoLevel
               /\ UNCHANGED <<queue, level>>
      <4> DEFINE r == [pc |-> "open", is_pause |-> session[s].is_pause,
                       old_log_level |-> IF kind = "log" THEN level ELSE NoLevel]
      <4>1. session' = [session EXCEPT ![s] = r] /\ UNCHANGED <<kind, level>>
          BY <2>2, <3>2 DEF EnterLoop, world
      <4>2. r.pc = "open" /\ (kind = "log" => r.old_log_level = level)
          OBVIOUS
      <4> HIDE DEF r
      <4>3. CASE OpenSessions # {}
          BY <3>2, <4>3 DEF LevelInv
      <4>4. CASE OpenSessions = {} /\ kind = "log"
        <5>1. OpenSessions' = {s} /\ session'[s] = r
            BY <1>a, <4>1, <4>2, <4>4 DEF OpenSessions
        <5>2. QED
            BY <3>2, <4>1, <4>2, <4>4, <5>1 DEF LevelInv
      <4>5. CASE kind # "log"
        <5>1. OpenSessions' = {} /\ OpenSessions = {}
            BY <4>1, <4>5 DEF OpenSessions
        <5>2. QED
            BY <3>2, <5>1 DEF LevelInv
      <4>6. QED
          BY <4>3, <4>4, <4>5
    <3>3. QED
        BY <2>2, <3>1, <3>2 DEF EnterLoop
  <2>3. CASE Recv(s) \/ RecvNone(s) \/ PeerClose(s)
    <3>1. /\ session[s].pc = "open" /\ UNCHANGED <<kind, base_level>>
          /\ End(s) \/ UNCHANGED <<session, level>>
        BY <2>3 DEF Recv, RecvNone, PeerClose, world
    <3>2. QED
        BY <1>1, <1>3, <3>1
  <2>4. ASSUME NEW b \in BOOLEAN, Pause(s, b)
        PROVE  LevelInv'
    <3> DEFINE r == [session[s] EXCEPT !.is_pause = b]
    <3>1. session' = [session EXCEPT ![s] = r] /\ UNCHANGED <<kind, level, base_level>>
        BY <2>4 DEF Pause, world, levels
    <3>2. /\ r \in SessionState /\ r.pc = session[s].pc
          /\ r.old_log_level = session[s].old_log_level
        BY <1>a DEF SessionState
    <3> HIDE DEF r
    <3>3. QED
        BY <1>2, <3>1, <3>2
  <2>5. ASSUME NEW l \in Levels, StreamLogLevel(s, l)
        PROVE  LevelInv'
    <3>1. s \in OpenSessions /\ UNCHANGED <<kind, session, base_level>>
        BY <2>5 DEF StreamLogLevel, OpenSessions, world, list
    <3>2. QED
        BY <3>1 DEF LevelInv, OpenSessions
  <2>6. QED
      BY <1>5, <2>1, <2>2, <2>3, <2>4, <2>5 DEF SessionStep
<1>6. ASSUME NEW l \in Levels, ApiLogSetLevel(l)
      PROVE  LevelInv'
  <2>1. /\ level' = l /\ OpenSessions' = OpenSessions
        /\ base_level' = IF OpenSessions = {} THEN l ELSE NoLevel
      BY <1>6 DEF ApiLogSetLevel, world, list, OpenSessions
  <2>2. QED
      BY <2>1 DEF LevelInv
<1>7. CASE ApiLogSaveLevel \/ UNCHANGED vars
    BY <1>1, <1>7 DEF ApiLogSaveLevel, vars, world, list, levels
<1>8. QED
    BY <1>4, <1>5, <1>6, <1>7 DEF StreamsNext

\* LogLevelGuard: once no log stream is open, the level is the one in force
\* before, unless streams or changes through the API overlapped.
THEOREM LevelCorrect == StreamsSpec => []LevelRestored
<1>1. StreamsInit => LevelInv
    BY StreamRecords DEF StreamsInit, LevelInv, OpenSessions
<1>2. LevelInv => LevelRestored
    BY DEF LevelInv, LevelRestored
<1>3. QED
    BY <1>1, <1>2, LevelStep, ListInvariant, PTL DEF StreamsSpec

-----------------------------------------------------------------------------
(* Removals                                                                *)

\* What RemovalInv says of a list, given that one thread logs.
ClosedIndexes ==
    \A d \in Dispatchers : disp[d].pc # "idle" =>
       \A i \in disp[d].remove_list :
          i \in DOMAIN streams /\ session[streams[i]].pc = "closed"

LiveListed == \A s \in Sessions : Live(s) => s \in ToSet(streams)

\* Tasks of the streams only append to the list, and leave what is closed.
LEMMA SessionKeepsRemovals ==
    ASSUME ListInv, ClosedIndexes, LiveListed, NEW s \in Sessions, SessionStep(s)
    PROVE  ClosedIndexes' /\ LiveListed'
<1>a. /\ session \in [Sessions -> SessionState] /\ session[s] \in SessionState
      /\ streams \in Seq(Sessions) /\ DOMAIN streams = 1 .. Len(streams) /\ Len(streams) \in Nat
      /\ \A i \in DOMAIN streams : streams[i] \in Sessions
      /\ disp \in [Dispatchers -> DispatcherState]
    BY DEF ListInv, StreamsTypeOK
<1>1. CASE GetLogStream(s)
  <2> DEFINE r == [session[s] EXCEPT !.pc = "registered"]
  <2>1. /\ session[s].pc = "new" /\ streams' = Append(streams, s)
        /\ session' = [session EXCEPT ![s] = r] /\ disp' = disp
      BY <1>1 DEF GetLogStream, Pushed
  <2>2. r.pc = "registered"
      BY <1>a DEF SessionState
  <2> HIDE DEF r
  <2>3. /\ DOMAIN streams' = 1 .. Len(streams) + 1 /\ streams'[Len(streams) + 1] = s
        /\ \A i \in DOMAIN streams : i \in DOMAIN streams' /\ streams'[i] = streams[i]
      BY <1>a, <2>1
  <2>4. \A t \in Sessions : t # s => session'[t] = session[t]
      BY <1>a, <2>1
  <2>5. ClosedIndexes'
    <3>1. ASSUME NEW i \in DOMAIN streams, session[streams[i]].pc = "closed"
          PROVE  i \in DOMAIN streams' /\ session'[streams'[i]].pc = "closed"
        BY <1>a, <2>1, <2>3, <2>4, <3>1
    <3>2. QED
        BY <2>1, <3>1 DEF ClosedIndexes
  <2>6. LiveListed'
    <3>1. s \in ToSet(streams')
        BY <1>a, <2>3 DEF ToSet
    <3>2. \A t \in ToSet(streams) : t \in ToSet(streams')
        BY <2>3 DEF ToSet
    <3>3. \A t \in Sessions : t # s /\ Live(t)' => Live(t)
        BY <2>4 DEF Live
    <3>4. QED
        BY <3>1, <3>2, <3>3 DEF LiveListed
  <2>7. QED
      BY <2>5, <2>6
<1>2. ASSUME UNCHANGED <<streams, disp>>,
             \A t \in Sessions : session[t].pc = "closed" => session'[t].pc = "closed",
             \A t \in Sessions : Live(t)' => Live(t)
      PROVE  ClosedIndexes' /\ LiveListed'
    BY <1>a, <1>2 DEF ClosedIndexes, LiveListed
<1>3. ASSUME NEW r, session' = [session EXCEPT ![s] = r],
             session[s].pc \in {"registered", "open"}, UNCHANGED <<streams, disp>>
      PROVE  ClosedIndexes' /\ LiveListed'
  <2>1. \A t \in Sessions : t # s => session'[t] = session[t]
      BY <1>a, <1>3
  <2>2. \A t \in Sessions : session[t].pc = "closed" => session'[t].pc = "closed"
      BY <1>3, <2>1
  <2>3. \A t \in Sessions : Live(t)' => Live(t)
      BY <1>3, <2>1 DEF Live
  <2>4. QED
      BY <1>2, <1>3, <2>2, <2>3
<1>4. CASE EnterLoop(s)
    BY <1>3, <1>4 DEF EnterLoop, End
<1>5. CASE Recv(s) \/ RecvNone(s) \/ PeerClose(s)
  <2>1. /\ session[s].pc = "open" /\ UNCHANGED <<streams, disp>>
        /\ \/ session' = [session EXCEPT ![s] = ClosedSession]
           \/ session' = session
      BY <1>5 DEF Recv, RecvNone, PeerClose, End
  <2>2. QED
      BY <1>2, <1>3, <2>1 DEF Live
<1>6. ASSUME NEW b \in BOOLEAN, Pause(s, b)
      PROVE  ClosedIndexes' /\ LiveListed'
  <2>1. /\ session[s].pc = "open" /\ UNCHANGED <<streams, disp>>
        /\ session' = [session EXCEPT ![s] = [session[s] EXCEPT !.is_pause = b]]
      BY <1>6 DEF Pause
  <2>2. QED
      BY <1>3, <2>1
<1>7. ASSUME NEW l \in Levels, StreamLogLevel(s, l)
      PROVE  ClosedIndexes' /\ LiveListed'
    BY <1>2, <1>7 DEF StreamLogLevel, list, Live
<1>8. QED
    BY <1>1, <1>4, <1>5, <1>6, <1>7 DEF SessionStep

\* The one thread that logs collects closed streams and removes just them.
LEMMA DispatcherKeepsRemovals ==
    ASSUME ListInv, OneThread, ClosedIndexes, LiveListed,
           NEW d \in Dispatchers, DispatcherStep(d)
    PROVE  ClosedIndexes' /\ LiveListed'
<1>a. /\ session \in [Sessions -> SessionState]
      /\ streams \in Seq(Sessions) /\ \A i \in DOMAIN streams : streams[i] \in Sessions
      /\ disp \in [Dispatchers -> DispatcherState] /\ disp[d] \in DispatcherState
    BY DEF ListInv, StreamsTypeOK
<1>1. CASE DispatchLog(d)
  <2> DEFINE r == [pc |-> "send", msg |-> next_msg, i |-> 1, remove_list |-> {}]
  <2>1. /\ UNCHANGED <<streams, session>>
        /\ disp' = disp \/ disp' = [disp EXCEPT ![d] = r]
      BY <1>1 DEF DispatchLog, list
  <2>2. r.remove_list = {}
      OBVIOUS
  <2> HIDE DEF r
  <2>3. QED
      BY <1>a, <2>1, <2>2 DEF ClosedIndexes, LiveListed, Live
<1>2. CASE TrySend(d)
  <2> DEFINE i == disp[d].i
             removed == disp[d].remove_list \cup (IF Closed(streams[i]) THEN {i} ELSE {})
             next == [pc |-> "send", msg |-> disp[d].msg, i |-> i + 1, remove_list |-> removed]
             last == [pc |-> "remove", msg |-> 0, i |-> 1, remove_list |-> removed]
  <2>1. /\ disp[d].pc = "send" /\ i \in DOMAIN streams /\ UNCHANGED <<streams, session>>
        /\ disp' = [disp EXCEPT ![d] = IF i < Len(streams) THEN next
                                       ELSE IF removed = {} THEN IdleDispatcher ELSE last]
      BY <1>2 DEF TrySend, ListInv
  <2>2. \A j \in removed : j \in DOMAIN streams /\ session[streams[j]].pc = "closed"
    <3>1. Closed(streams[i]) => session[streams[i]].pc = "closed"
      <4>1. streams[i] \in Sessions /\ session[streams[i]].pc # "new"
          BY <1>a, <2>1 DEF ListInv
      <4>2. session[streams[i]].pc \in {"new", "registered", "open", "closed"}
          BY <1>a, <4>1 DEF SessionState
      <4>3. QED
          BY <4>1, <4>2 DEF Closed, Live
    <3>2. \A j \in disp[d].remove_list : j \in DOMAIN streams /\ session[streams[j]].pc = "closed"
        BY <2>1 DEF ClosedIndexes
    <3>3. QED
        BY <2>1, <3>1, <3>2
  <2>3. next.remove_list = removed /\ last.remove_list = removed
      OBVIOUS
  <2> HIDE DEF next, last, removed, i
  <2>4. \A e \in Dispatchers : \/ disp'[e] = disp[e]
                               \/ disp'[e].pc = "idle"
                               \/ disp'[e].remove_list = removed
      BY <1>a, <2>1, <2>3, StreamRecords
  <2>5. ClosedIndexes'
      BY <2>1, <2>2, <2>4 DEF ClosedIndexes
  <2>6. LiveListed'
      BY <2>1 DEF LiveListed, Live
  <2>7. QED
      BY <2>5, <2>6
<1>3. CASE RemoveStreams(d)
  <2> DEFINE R == disp[d].remove_list
  <2>1. /\ disp[d].pc = "remove" /\ session' = session
        /\ disp' = [disp EXCEPT ![d] = IdleDispatcher]
        /\ streams' = streams \/ streams' \in Kept(streams, R)
      BY <1>3 DEF RemoveStreams
  <2>2. \A e \in Dispatchers : disp'[e].pc = "idle"
    <3>1. IsFiniteSet(threads)
        BY StreamsAssumption, FS_Subset DEF ListInv, StreamsTypeOK
    <3>2. PICK t : threads = {t}
        BY <3>1, FS_Singleton DEF OneThread
    <3>3. \A e \in Dispatchers : e # d => disp[e].pc = "idle"
        BY <2>1, <3>2 DEF ListInv
    <3>4. QED
        BY <1>a, <2>1, <3>3, StreamRecords
  <2>3. ASSUME NEW s \in Sessions, Live(s), streams' \in Kept(streams, R)
        PROVE  s \in ToSet(streams')
    <3>1. PICK i \in DOMAIN streams : streams[i] = s
        BY <2>3 DEF LiveListed, ToSet
    <3>2. session[s].pc # "closed"
        BY <2>3 DEF Live
    <3>3. i \in DOMAIN streams \ R
        BY <2>1, <3>1, <3>2 DEF ClosedIndexes
    <3> HIDE DEF R
    <3>4. \E k \in DOMAIN streams' : streams'[k] = streams[i]
        BY <1>a, <2>3, <3>3, KeptList DEF ListInv
    <3>5. QED
        BY <3>1, <3>4 DEF ToSet
  <2>4. LiveListed'
      BY <2>1, <2>3 DEF LiveListed, Live
  <2>5. QED
      BY <2>2, <2>4 DEF ClosedIndexes
<1>4. QED
    BY <1>1, <1>2, <1>3 DEF DispatcherStep

\* dispatch_log: with one thread that logs, Vec::remove neither panics nor
\* removes the sender of a stream that is open.
THEOREM RemovalsCorrect == StreamsSpec => []RemovalsExact
<1>1. StreamsInit => RemovalInv
    BY StreamRecords DEF StreamsInit, RemovalInv, Live
<1>2. ListInv /\ RemovalInv /\ [StreamsNext]_vars => RemovalInv'
  <2> SUFFICES ASSUME ListInv, RemovalInv, [StreamsNext]_vars, OneThread'
               PROVE  ClosedIndexes' /\ LiveListed'
      BY DEF RemovalInv, ClosedIndexes, LiveListed
  <2>1. threads' = threads
      BY DEF StreamsNext, DispatcherStep, DispatchLog, TrySend, RemoveStreams, SessionStep,
             GetLogStream, EnterLoop, Recv, RecvNone, Pause, StreamLogLevel, PeerClose,
             ApiLogSetLevel, ApiLogSaveLevel, world, vars
  <2>2. OneThread /\ ClosedIndexes /\ LiveListed
      BY <2>1 DEF OneThread, RemovalInv, ClosedIndexes, LiveListed
  <2>3. CASE (\E l \in Levels : ApiLogSetLevel(l)) \/ ApiLogSaveLevel \/ UNCHANGED vars
      BY <2>2, <2>3
      DEF ApiLogSetLevel, ApiLogSaveLevel, vars, list, ClosedIndexes, LiveListed, Live
  <2>4. QED
      BY <2>2, <2>3, DispatcherKeepsRemovals, SessionKeepsRemovals DEF StreamsNext
<1>3. ListInv /\ RemovalInv => RemovalsExact
    BY DEF ListInv, StreamsTypeOK, RemovalInv, RemovalsExact, Live
<1>4. QED
    BY <1>1, <1>2, <1>3, ListInvariant, PTL DEF StreamsSpec

-----------------------------------------------------------------------------
(* The order of messages                                                   *)

\* A message younger than those of its thread goes to the end of a channel.
LEMMA Appended ==
    ASSUME NEW p \in Seq(Message), NEW q \in Seq(Message), NEW m \in Message,
           Sorted(q), Follows(p, q), Older(p, m.by, m.n), Older(q, m.by, m.n)
    PROVE  /\ Sorted(Append(q, m)) /\ Follows(p, Append(q, m))
           /\ \A d \in Dispatchers, n \in Nat :
                 Older(q, d, n) /\ (d = m.by => m.n < n) => Older(Append(q, m), d, n)
<1> DEFINE a == Append(q, m)
<1>1. /\ DOMAIN q = 1 .. Len(q) /\ Len(q) \in Nat /\ DOMAIN a = 1 .. Len(q) + 1
      /\ a[Len(q) + 1] = m /\ \A i \in 1 .. Len(q) : a[i] = q[i]
    OBVIOUS
<1> HIDE DEF a
<1>2. Sorted(a)
  <2> SUFFICES ASSUME NEW i \in DOMAIN a, NEW j \in DOMAIN a, i < j
               PROVE  Before(a[i], a[j])
      BY DEF Sorted
  <2>1. i \in 1 .. Len(q)
      BY <1>1
  <2>2. CASE j \in 1 .. Len(q)
      BY <1>1, <2>1, <2>2 DEF Sorted
  <2>3. CASE j = Len(q) + 1
      BY <1>1, <2>1, <2>3 DEF Older, Before
  <2>4. QED
      BY <1>1, <2>2, <2>3
<1>3. Follows(p, a)
  <2> SUFFICES ASSUME NEW i \in DOMAIN p, NEW j \in DOMAIN a
               PROVE  Before(p[i], a[j])
      BY DEF Follows
  <2>1. CASE j \in 1 .. Len(q)
      BY <1>1, <2>1 DEF Follows
  <2>2. CASE j = Len(q) + 1
      BY <1>1, <2>2 DEF Older, Before
  <2>3. QED
      BY <1>1, <2>1, <2>2
<1>4. ASSUME NEW d \in Dispatchers, NEW n \in Nat, Older(q, d, n), d = m.by => m.n < n
      PROVE  Older(a, d, n)
  <2> SUFFICES ASSUME NEW i \in DOMAIN a, a[i].by = d
               PROVE  a[i].n < n
      BY DEF Older
  <2>1. CASE i \in 1 .. Len(q)
      BY <1>1, <1>4, <2>1 DEF Older
  <2>2. CASE i = Len(q) + 1
      BY <1>1, <1>4, <2>2
  <2>3. QED
      BY <1>1, <2>1, <2>2
<1>5. QED
    BY <1>2, <1>3, <1>4 DEF a

\* The first message of a channel is taken out, and dropped or shown.
LEMMA Taken ==
    ASSUME NEW p \in Seq(Message), NEW q \in Seq(Message), q # <<>>,
           Sorted(p), Sorted(q), Follows(p, q)
    PROVE  /\ Sorted(Tail(q)) /\ Follows(p, Tail(q))
           /\ Sorted(Append(p, Head(q))) /\ Follows(Append(p, Head(q)), Tail(q))
           /\ \A d \in Dispatchers, n \in Nat :
                 Older(p, d, n) /\ Older(q, d, n) =>
                    Older(Tail(q), d, n) /\ Older(Append(p, Head(q)), d, n)
<1> DEFINE t == Tail(q)
           a == Append(p, Head(q))
<1>1. /\ DOMAIN q = 1 .. Len(q) /\ Len(q) \in Nat /\ Len(q) > 0
      /\ DOMAIN p = 1 .. Len(p) /\ Len(p) \in Nat
      /\ DOMAIN t = 1 .. Len(q) - 1 /\ \A i \in DOMAIN t : i + 1 \in DOMAIN q /\ t[i] = q[i + 1]
      /\ 1 \in DOMAIN q /\ Head(q) = q[1]
    OBVIOUS
<1>2. /\ DOMAIN a = 1 .. Len(p) + 1 /\ a[Len(p) + 1] = q[1]
      /\ \A i \in DOMAIN p : a[i] = p[i]
      /\ \A i \in DOMAIN a : i \in DOMAIN p \/ i = Len(p) + 1
    BY <1>1
<1> HIDE DEF t, a
<1>3. Sorted(t)
  <2> SUFFICES ASSUME NEW i \in DOMAIN t, NEW j \in DOMAIN t, i < j
               PROVE  Before(t[i], t[j])
      BY DEF Sorted
  <2>1. i + 1 < j + 1
      BY <1>1
  <2>2. QED
      BY <1>1, <2>1 DEF Sorted
<1>4. Follows(p, t)
    BY <1>1 DEF Follows
<1>5. Sorted(a)
  <2> SUFFICES ASSUME NEW i \in DOMAIN a, NEW j \in DOMAIN a, i < j
               PROVE  Before(a[i], a[j])
      BY DEF Sorted
  <2>1. i \in DOMAIN p
      BY <1>1, <1>2
  <2>2. CASE j \in DOMAIN p
      BY <1>2, <2>1, <2>2 DEF Sorted
  <2>3. CASE j = Len(p) + 1
      BY <1>1, <1>2, <2>1, <2>3 DEF Follows
  <2>4. QED
      BY <1>2, <2>2, <2>3
<1>6. Follows(a, t)
  <2> SUFFICES ASSUME NEW i \in DOMAIN a, NEW j \in DOMAIN t
               PROVE  Before(a[i], t[j])
      BY DEF Follows
  <2>1. CASE i \in DOMAIN p
      BY <1>2, <1>4, <2>1 DEF Follows
  <2>2. CASE i = Len(p) + 1
    <3>1. 1 < j + 1 /\ j + 1 \in DOMAIN q
        BY <1>1
    <3>2. QED
        BY <1>1, <1>2, <2>2, <3>1 DEF Sorted
  <2>3. QED
      BY <1>2, <2>1, <2>2
<1>7. ASSUME NEW d \in Dispatchers, NEW n \in Nat, Older(p, d, n), Older(q, d, n)
      PROVE  Older(t, d, n) /\ Older(a, d, n)
    BY <1>1, <1>2, <1>7 DEF Older
<1>8. QED
    BY <1>3, <1>4, <1>5, <1>6, <1>7 DEF t, a

\* A stream has received, dropped or lost messages.
LEMMA StreamKeepsOrder ==
    ASSUME ListInv, OrderInv, NEW s \in Sessions, NEW p, NEW q,
           UNCHANGED <<streams, disp, next_msg>>,
           queue' = [queue EXCEPT ![s] = q], shown' = [shown EXCEPT ![s] = p],
           Sorted(p), Sorted(q), Follows(p, q),
           \A d \in Dispatchers, n \in Nat :
              Older(shown[s], d, n) /\ Older(queue[s], d, n) => Older(p, d, n) /\ Older(q, d, n)
    PROVE  OrderInv'
<1>a. /\ next_msg \in Nat /\ \A d \in Dispatchers : disp[d].msg \in Nat
      /\ \A t \in Sessions : shown'[t] = IF t = s THEN p ELSE shown[t]
      /\ \A t \in Sessions : queue'[t] = IF t = s THEN q ELSE queue[t]
      /\ \A i \in DOMAIN streams : streams[i] \in Sessions
    BY StreamsAssumption DEF ListInv, StreamsTypeOK, DispatcherState
<1>1. ASSUME NEW t \in Sessions
      PROVE  SessionOrder(t)'
  <2>1. SessionOrder(t)
      BY DEF OrderInv
  <2>2. QED
      BY <1>a, <2>1 DEF SessionOrder
<1>2. ASSUME NEW d \in Dispatchers
      PROVE  SendOrder(d)'
  <2>1. SendOrder(d)
      BY DEF OrderInv
  <2>2. QED
      BY <1>a, <2>1 DEF SendOrder
<1>3. QED
    BY <1>1, <1>2 DEF OrderInv

\* Every step keeps the order.
LEMMA OrderStep == ListInv /\ OrderInv /\ [StreamsNext]_vars => OrderInv'
<1> SUFFICES ASSUME ListInv, OrderInv, [StreamsNext]_vars
             PROVE  OrderInv'
    OBVIOUS
<1>a. /\ queue \in [Sessions -> Seq(Message)] /\ shown \in [Sessions -> Seq(Message)]
      /\ disp \in [Dispatchers -> DispatcherState] /\ next_msg \in Nat
      /\ \A d \in Dispatchers : disp[d].msg \in Nat
      /\ \A i \in DOMAIN streams : streams[i] \in Sessions
      /\ \A s \in Sessions : SessionOrder(s)
      /\ \A d \in Dispatchers : SendOrder(d)
    BY StreamsAssumption DEF ListInv, StreamsTypeOK, DispatcherState, OrderInv
<1>1. ASSUME NEW d \in Dispatchers, DispatchLog(d)
      PROVE  OrderInv'
  <2> DEFINE r == [pc |-> "send", msg |-> next_msg, i |-> 1, remove_list |-> {}]
  <2>1. /\ UNCHANGED <<streams, queue, shown>> /\ next_msg' = next_msg + 1
        /\ disp' = disp \/ disp' = [disp EXCEPT ![d] = r]
      BY <1>1 DEF DispatchLog, list
  <2>2. r.pc = "send" /\ r.msg = next_msg
      OBVIOUS
  <2> HIDE DEF r
  <2>3. ASSUME NEW s \in Sessions
        PROVE  SessionOrder(s)'
    <3>1. \A e \in Dispatchers : \A q \in Seq(Message) : Older(q, e, next_msg) => Older(q, e, next_msg + 1)
      <4>1. ASSUME NEW q \in Seq(Message), NEW i \in DOMAIN q
            PROVE  q[i].n \in Nat
        <5>1. q[i] \in Message
            OBVIOUS
        <5>2. QED
            BY <5>1, StreamsAssumption DEF Message
      <4>2. QED
          BY <1>a, <4>1 DEF Older
    <3>2. QED
        BY <1>a, <2>1, <3>1 DEF SessionOrder
  <2>4. ASSUME NEW e \in Dispatchers
        PROVE  SendOrder(e)'
    <3>1. CASE disp'[e] = disp[e]
        BY <1>a, <2>1, <3>1 DEF SendOrder
    <3>2. CASE disp'[e] = r /\ e = d
        BY <1>a, <2>1, <2>2, <3>2 DEF SendOrder, SessionOrder
    <3>3. QED
        BY <1>a, <2>1, <3>1, <3>2
  <2>5. QED
      BY <2>3, <2>4 DEF OrderInv
<1>2. ASSUME NEW d \in Dispatchers, TrySend(d)
      PROVE  OrderInv'
  <2> DEFINE i == disp[d].i
             s == streams[i]
             m == [by |-> d, n |-> disp[d].msg]
  <2>1. /\ disp[d].pc = "send" /\ i \in DOMAIN streams /\ s \in Sessions /\ i \in Nat
        /\ disp[d].msg \in 1 .. next_msg - 1 /\ UNCHANGED <<streams, shown, next_msg>>
      BY <1>2, <1>a DEF TrySend, ListInv, StreamsTypeOK, DispatcherState
  <2>2. queue' = queue \/ queue' = [queue EXCEPT ![s] = Append(queue[s], m)]
      BY <1>2 DEF TrySend
  <2>3. PICK r : /\ disp' = [disp EXCEPT ![d] = r]
                 /\ r.pc = "send" => r.i = i + 1 /\ r.msg = disp[d].msg
    <3> DEFINE removed == disp[d].remove_list \cup (IF Closed(s) THEN {i} ELSE {})
               next == [pc |-> "send", msg |-> disp[d].msg, i |-> i + 1, remove_list |-> removed]
               last == [pc |-> "remove", msg |-> 0, i |-> 1, remove_list |-> removed]
    <3>1. disp' = [disp EXCEPT ![d] = IF i < Len(streams) THEN next
                                      ELSE IF removed = {} THEN IdleDispatcher ELSE last]
        BY <1>2 DEF TrySend
    <3>2. next.i = i + 1 /\ next.msg = disp[d].msg /\ last.pc # "send"
        OBVIOUS
    <3> HIDE DEF next, last, removed
    <3>3. QED
        BY <3>1, <3>2, StreamRecords
  <2>4. m \in Message /\ m.by = d /\ m.n = disp[d].msg /\ m.n < next_msg
    <3>1. next_msg \in 1 .. MaxMsgs + 1 /\ MaxMsgs \in Nat
        BY StreamsAssumption DEF ListInv, StreamsTypeOK
    <3>2. disp[d].msg \in 1 .. MaxMsgs /\ disp[d].msg < next_msg
        BY <2>1, <3>1
    <3>3. m \in Message
        BY <3>2 DEF Message
    <3>4. m.by = d /\ m.n = disp[d].msg
        OBVIOUS
    <3>5. m.n < next_msg
        BY <3>2
    <3> HIDE DEF m
    <3>6. QED
        BY <3>3, <3>4, <3>5
  <2>5. Older(shown[s], d, disp[d].msg) /\ Older(queue[s], d, disp[d].msg)
    <3>1. \A k \in DOMAIN streams :
             k >= i => /\ Older(shown[streams[k]], d, disp[d].msg)
                       /\ Older(queue[streams[k]], d, disp[d].msg)
        BY <1>a, <2>1 DEF SendOrder
    <3>2. i >= i
        BY <2>1
    <3> HIDE DEF i
    <3>3. QED
        BY <2>1, <3>1, <3>2
  <2> DEFINE q == Append(queue[s], m)
  <2>6. /\ Sorted(q) /\ Follows(shown[s], q)
        /\ \A e \in Dispatchers, n \in Nat :
              Older(queue[s], e, n) /\ (e = d => disp[d].msg < n) => Older(q, e, n)
      BY <1>a, <2>1, <2>4, <2>5, Appended DEF SessionOrder
  <2> HIDE DEF q, m, s, i
  <2>7. \A t \in Sessions : queue'[t] = queue[t] \/ (t = s /\ queue'[t] = q)
      BY <1>a, <2>2 DEF q
  <2>8. ASSUME NEW t \in Sessions
        PROVE  SessionOrder(t)'
    <3>1. CASE queue'[t] = queue[t]
        BY <1>a, <2>1, <3>1 DEF SessionOrder
    <3>2. CASE t = s /\ queue'[t] = q
      <4>1. \A e \in Dispatchers : Older(q, e, next_msg)
          BY <1>a, <2>1, <2>4, <2>6 DEF SessionOrder
      <4>2. QED
          BY <1>a, <2>1, <2>6, <3>2, <4>1 DEF SessionOrder
    <3>3. QED
        BY <2>7, <3>1, <3>2
  <2>9. ASSUME NEW e \in Dispatchers, disp'[e].pc = "send",
               NEW k \in DOMAIN streams, k >= disp'[e].i
        PROVE  Older(shown[streams[k]], e, disp'[e].msg) /\ Older(queue'[streams[k]], e, disp'[e].msg)
    <3>1. CASE e = d
      <4>1. disp'[d].i = i + 1 /\ disp'[d].msg = disp[d].msg
          BY <1>a, <2>3, <2>9, <3>1
      <4>2. k > i /\ k >= i /\ k # i
        <5>1. DOMAIN streams = 1 .. Len(streams) /\ Len(streams) \in Nat
            BY DEF ListInv, StreamsTypeOK
        <5>2. k \in Nat /\ k >= i + 1
            BY <2>9, <3>1, <4>1, <5>1
        <5>3. QED
            BY <2>1, <5>2
      <4>3. streams[k] # s
          BY <2>1, <4>2 DEF ListInv, IsInjective, s
      <4>4. /\ Older(shown[streams[k]], d, disp[d].msg)
            /\ Older(queue[streams[k]], d, disp[d].msg)
          BY <1>a, <2>1, <4>2 DEF SendOrder, i
      <4>5. QED
          BY <1>a, <2>7, <3>1, <4>1, <4>3, <4>4
    <3>2. CASE e # d
      <4>1. disp'[e] = disp[e]
          BY <1>a, <2>3, <3>2
      <4>2. /\ Older(shown[streams[k]], e, disp[e].msg)
            /\ Older(queue[streams[k]], e, disp[e].msg)
          BY <1>a, <2>9, <4>1 DEF SendOrder
      <4>3. QED
          BY <1>a, <2>6, <2>7, <3>2, <4>1, <4>2
    <3>3. QED
        BY <3>1, <3>2
  <2>10. QED
      BY <2>1, <2>8, <2>9 DEF OrderInv, SendOrder
<1>3. ASSUME UNCHANGED <<queue, shown, next_msg>>,
             \A d \in Dispatchers : disp'[d].pc # "send"
      PROVE  OrderInv'
    BY <1>a, <1>3 DEF OrderInv, SessionOrder, SendOrder
<1>4. ASSUME NEW d \in Dispatchers, RemoveStreams(d)
      PROVE  OrderInv'
    BY <1>a, <1>3, <1>4, StreamRecords DEF RemoveStreams, WriteLockFree
<1>5. ASSUME UNCHANGED <<streams, queue, shown, disp, next_msg>>
      PROVE  OrderInv'
    BY <1>5 DEF OrderInv, SessionOrder, SendOrder
<1>6. ASSUME NEW s \in Sessions, SessionStep(s)
      PROVE  OrderInv'
  <2>1. CASE GetLogStream(s)
      BY <1>3, <2>1 DEF GetLogStream, WriteLockFree
  <2>2. /\ Sorted(<<>>) /\ Follows(shown[s], <<>>)
        /\ \A d \in Dispatchers, n \in Nat : Older(<<>>, d, n)
      BY DEF Sorted, Follows, Older
  <2>3. ASSUME queue' = [queue EXCEPT ![s] = <<>>], UNCHANGED <<streams, shown, disp, next_msg>>
        PROVE  OrderInv'
    <3>1. shown' = [shown EXCEPT ![s] = shown[s]]
        BY <1>a, <2>3
    <3>2. QED
        BY <1>a, <2>2, <2>3, <3>1, StreamKeepsOrder DEF SessionOrder
  <2>4. CASE EnterLoop(s) \/ RecvNone(s) \/ PeerClose(s)
      BY <1>5, <2>3, <2>4 DEF EnterLoop, RecvNone, PeerClose, End
  <2>5. CASE Recv(s)
    <3>1. /\ queue[s] # <<>> /\ UNCHANGED <<streams, disp, next_msg>>
          /\ \/ queue' = [queue EXCEPT ![s] = Tail(queue[s])] /\ shown' = shown
             \/ /\ queue' = [queue EXCEPT ![s] = Tail(queue[s])]
                /\ shown' = [shown EXCEPT ![s] = Append(shown[s], Head(queue[s]))]
             \/ queue' = [queue EXCEPT ![s] = <<>>] /\ shown' = shown
        BY <2>5 DEF Recv, Received, End
    <3> DEFINE t == Tail(queue[s])
               a == Append(shown[s], Head(queue[s]))
    <3>2. /\ Sorted(t) /\ Follows(shown[s], t) /\ Sorted(a) /\ Follows(a, t)
          /\ \A d \in Dispatchers, n \in Nat :
                Older(shown[s], d, n) /\ Older(queue[s], d, n) => Older(t, d, n) /\ Older(a, d, n)
        BY <1>a, <3>1, Taken DEF SessionOrder
    <3>3. Sorted(shown[s]) /\ shown = [shown EXCEPT ![s] = shown[s]]
        BY <1>a DEF SessionOrder
    <3> HIDE DEF t, a
    <3>4. CASE queue' = [queue EXCEPT ![s] = t] /\ shown' = shown
      <4>1. shown' = [shown EXCEPT ![s] = shown[s]]
          BY <3>3, <3>4
      <4>2. QED
          BY <3>1, <3>2, <3>3, <3>4, <4>1, StreamKeepsOrder
    <3>5. CASE queue' = [queue EXCEPT ![s] = t] /\ shown' = [shown EXCEPT ![s] = a]
        BY <3>1, <3>2, <3>5, StreamKeepsOrder
    <3>6. QED
        BY <2>3, <3>1, <3>4, <3>5 DEF t, a
  <2>6. CASE (\E b \in BOOLEAN : Pause(s, b)) \/ (\E l \in Levels : StreamLogLevel(s, l))
      BY <1>5, <2>6 DEF Pause, StreamLogLevel, list
  <2>7. QED
      BY <1>6, <2>1, <2>4, <2>5, <2>6 DEF SessionStep
<1>7. CASE (\E l \in Levels : ApiLogSetLevel(l)) \/ ApiLogSaveLevel \/ UNCHANGED vars
    BY <1>5, <1>7 DEF ApiLogSetLevel, ApiLogSaveLevel, vars, list
<1>8. QED
    BY <1>1, <1>2, <1>4, <1>6, <1>7 DEF StreamsNext, DispatcherStep

\* serve_log_stream: a browser sees the messages of each thread in their
\* order and none twice, for any number of threads, streams and pauses.
THEOREM OrderCorrect == StreamsSpec => []OrderKept
<1>1. StreamsInit => OrderInv
    BY StreamRecords
    DEF StreamsInit, OrderInv, SessionOrder, SendOrder, Sorted, Follows, Older
<1>2. OrderInv => OrderKept
    BY DEF OrderInv, SessionOrder, Sorted, Before, OrderKept
<1>3. QED
    BY <1>1, <1>2, OrderStep, ListInvariant, PTL DEF StreamsSpec
=============================================================================
