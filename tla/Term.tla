-------------------------------- MODULE Term --------------------------------
(***************************************************************************)
(* Sessions of the web terminal (serve_term of http_server_stream.rs): a   *)
(* shell behind a pseudo terminal, and a loop that carries its output to   *)
(* the web socket and the frames of the peer to the shell, one at a time:  *)
(* while it waits in a write to the shell or in a send to the peer it      *)
(* reads neither.  The loop ends by break, after which the shell is killed *)
(* and waited for, or by an error returned with ? (or a panic), after      *)
(* which nothing is: st is then "dropped" and the shell is left behind.    *)
(* pty is what the shell has not read yet and out what it has written and  *)
(* the loop has not read; a shell with more to say (busy) reads nothing.   *)
(***************************************************************************)
EXTENDS Naturals, Sequences, Connections

CONSTANTS PtySize,  \* writes the terminal holds before it is full
          OutSize,  \* reads of output the terminal holds before it is full
          InboxSize \* bound: frames under way from a peer

Frames == {"data", "pause", "resume", "invalid", "short_resize", "close", "gone"}

\* in select!, in a write to the shell, and in a send of output or of the last Close
Serving == {"open", "writing", "sending", "ending"}

VARIABLE term

NoTerm == [st |-> "none", child |-> "none", pause |-> FALSE, inbox |-> << >>,
           pty |-> 0, busy |-> FALSE, out |-> 0]

Set(c, t) == term' = [term EXCEPT ![c] = t]

\* the loop has ended: what was under way is gone
Left(st, child) == [NoTerm EXCEPT !.st = st, !.child = child]

\* mutant: the shell is killed and not waited for
CleanupNoWait(t) == Left("closed", "exited")
\* close, kill and waitpid after the loop
Cleanup(t) == Left("closed", "reaped")

\* an error returned from the loop: the shell runs on
Dropped(t) == Left("dropped", t.child)

\* api_tool_term, serve_term: forkpty may fail, and so may registering its descriptor
TermOpen(c) ==
    \/ Set(c, [NoTerm EXCEPT !.st = "open", !.child = "alive"])
    \/ Set(c, [NoTerm EXCEPT !.st = "closed"])
    \/ Set(c, Cleanup(NoTerm))

\* output is read, and sent unless the session is paused: at once, or the send
\* waits for the peer, or it fails
ReadOutput(c) ==
    LET read == [term[c] EXCEPT !.out = @ - 1]
    IN  /\ term[c].st = "open" /\ term[c].out > 0
        /\ \/ Set(c, read)
           \/ ~read.pause /\ Set(c, [read EXCEPT !.st = "sending"])
           \/ ~read.pause /\ Set(c, Dropped(read))

\* the end of the shell is read after its output: as an error, or as an end of
\* file, for which a Close is sent
ReadEnd(c) ==
    /\ term[c].st = "open" /\ term[c].child = "exited" /\ term[c].out = 0
    /\ \/ Set(c, Cleanup(term[c]))
       \/ Set(c, [term[c] EXCEPT !.st = "ending"])
       \/ Set(c, Dropped(term[c]))

\* the peer reads, which completes a send that waited, or the send fails
Sent(c) ==
    \/ term[c].st = "sending" /\ Set(c, [term[c] EXCEPT !.st = "open"])
    \/ term[c].st = "ending" /\ Set(c, Cleanup(term[c]))
    \/ term[c].st \in {"sending", "ending"} /\ Set(c, Dropped(term[c]))

Write(t) == IF t.pty < PtySize THEN [t EXCEPT !.pty = @ + 1, !.st = "open"]
                               ELSE [t EXCEPT !.st = "writing"]

\* what becomes of the session when the loop takes a frame
Taken(t, frame) ==
    CASE frame = "data"   -> Write(t)
      [] frame = "pause"  -> [t EXCEPT !.pause = TRUE]
      [] frame = "resume" -> [t EXCEPT !.pause = FALSE]
      [] frame \in {"invalid", "close"}     -> Cleanup(t)
      [] frame \in {"short_resize", "gone"} -> Dropped(t)

TakeFrame(c) ==
    /\ term[c].st = "open" /\ term[c].inbox # << >>
    /\ Set(c, Taken([term[c] EXCEPT !.inbox = Tail(@)], Head(term[c].inbox)))

\* the write that waited is done, or fails because the shell has gone
Written(c) ==
    /\ term[c].st = "writing"
    /\ \/ term[c].pty < PtySize /\ Set(c, Write(term[c]))
       \/ term[c].child = "exited" /\ Set(c, Dropped(term[c]))

PeerSends(c, frame) ==
    /\ term[c].st \in Serving /\ Len(term[c].inbox) < InboxSize
    /\ \A i \in 1..Len(term[c].inbox) : term[c].inbox[i] \notin {"close", "gone"}
    /\ Set(c, [term[c] EXCEPT !.inbox = Append(@, frame)])

\* the shell has something to say, says a part or the rest of it where there
\* is room, reads when it has nothing to say, ends
ShellSays(c) ==
    /\ term[c].st \in Serving /\ term[c].child = "alive" /\ ~term[c].busy
    /\ Set(c, [term[c] EXCEPT !.busy = TRUE])
ShellWrites(c) ==
    /\ term[c].child = "alive" /\ term[c].busy /\ term[c].out < OutSize
    /\ \E busy \in BOOLEAN : Set(c, [term[c] EXCEPT !.out = @ + 1, !.busy = busy])
ShellReads(c) ==
    /\ term[c].child = "alive" /\ ~term[c].busy /\ term[c].pty > 0
    /\ Set(c, [term[c] EXCEPT !.pty = @ - 1])
ShellExits(c) ==
    /\ term[c].child = "alive"
    /\ Set(c, [term[c] EXCEPT !.child = "exited", !.busy = FALSE])

TermInit == term = [c \in Conns |-> NoTerm]
LoopReads(c) == ReadOutput(c) \/ ReadEnd(c) \/ Written(c)
TermEnv(c) == \/ ShellSays(c) \/ ShellWrites(c) \/ ShellReads(c) \/ ShellExits(c)
              \/ Sent(c) \/ \E frame \in Frames : PeerSends(c, frame)
TermStep(c) == LoopReads(c) \/ TakeFrame(c) \/ TermEnv(c)
-----------------------------------------------------------------------------
Leaving(c) == \E i \in 1..Len(term[c].inbox) : term[c].inbox[i] = "close"

\* the loop waits for the shell to read, and the shell for the loop
WaitForEachOther(t) == /\ t.st = "writing" /\ t.child = "alive" /\ t.pty = PtySize
                       /\ t.busy /\ t.out = OutSize

\* the loop waits for a peer that does not read, or for a shell that could
KeptByPeer(t)  == t.st \in {"sending", "ending"}
KeptByShell(t) == t.st = "writing" /\ t.child = "alive" /\ t.pty = PtySize
                    /\ ~WaitForEachOther(t)

(***************************************************************************)
(* A shell does not outlive the session of a peer that closed it, where    *)
(* neither this peer nor the shell keeps the loop waiting for ever: once   *)
(* the Close frame is under way the shell is killed and waited for,        *)
(* however much it prints.  Two things the code does not prevent are left  *)
(* out by name: the session fails before the frame is read ("dropped"), or *)
(* the loop waits in a write (http_server_stream.rs:529) to a shell that   *)
(* waits for its output to be read, which lasts until the shell ends.      *)
(***************************************************************************)
ShellEnds ==
    \A c \in Conns :
       []<>~KeptByPeer(term[c]) /\ []<>~KeptByShell(term[c]) =>
          (Leaving(c) ~> \/ term[c].child \in {"none", "reaped"}
                         \/ term[c].st = "dropped"
                         \/ WaitForEachOther(term[c]))
=============================================================================
