------------------------------ MODULE Services ------------------------------
(***************************************************************************)
(* The plugin with the requests its connections serve: lookups and         *)
(* terminal sessions begin while the HTTP loop accepts connections, are    *)
(* tasks of their own that go on after the loop has ended, and are gone    *)
(* with the process.                                                       *)
(***************************************************************************)
EXTENDS Lifecycle, WhoIs, Term

CONSTANT Apart  \* bound: lookups and terminals are not in one behaviour

ASSUME ServicesAssumption == Apart \in BOOLEAN

vars == <<lifeVars, whoisVars, term>>

ServicesInit == LifeInit /\ WhoisInit /\ TermInit

\* the process is gone, killed or aborted, and its terminals with it, which
\* ends the shells
Forget == /\ query' = [c \in Conns |-> NoQuery]
          /\ server_lists' = [b \in Bases |-> Unknown]
          /\ term' = [c \in Conns |-> NoTerm]
          /\ UNCHANGED refer

Up == host \notin {"down", "aborted"}
Listening == Up /\ loop["http"] = "running"
Free(c) == query[c].st \in {"none", "answered"} /\ term[c].st \in {"none", "closed"}

\* what connections ask for: apart, it is terminals where no server refers to
\* another one, and lookups elsewhere
Asks(kind) == Apart => (kind = "term" <=> refer = [s \in Servers |-> NoServer])

Connection(c) ==
    \/ Asks("whois") /\ Listening /\ Free(c) /\ AskWhois(c) /\ UNCHANGED term
    \/ Asks("term") /\ Listening /\ Free(c) /\ TermOpen(c) /\ UNCHANGED whoisVars
    \/ Up /\ WhoisStep(c) /\ UNCHANGED term
    \/ Up /\ TermStep(c) /\ UNCHANGED whoisVars

\* a step of a call, which may abort the process
CallStep == /\ InCall
            /\ IF host' = "aborted" THEN Forget ELSE UNCHANGED <<whoisVars, term>>

ServicesNext ==
    \/ /\ Start \/ Stop \/ LoopStep \/ AcceptFails \/ Boot
       /\ UNCHANGED <<whoisVars, term>>
    \/ CallStep
    \/ Kill /\ Forget
    \/ \E c \in Conns : Connection(c) /\ UNCHANGED lifeVars

(***************************************************************************)
(* Fairness: a call that was made and a task that can run go on; a WHOIS   *)
(* server that does not answer is given up after its timeouts.  select!    *)
(* polls its branches in random order, so a frame that is there again and  *)
(* again when the loop comes round is taken.  Nothing is assumed of the    *)
(* host's calls, of shells, of peers, of faults and kills.                 *)
(***************************************************************************)
ServicesSpec ==
    /\ ServicesInit /\ [][ServicesNext]_vars
    /\ WF_vars(CallStep)
    /\ WF_vars(LoopStep /\ UNCHANGED <<whoisVars, term>>)
    /\ \A c \in Conns :
          /\ WF_vars(Up /\ WhoisStep(c) /\ UNCHANGED <<lifeVars, term>>)
          /\ WF_vars(Up /\ LoopReads(c) /\ UNCHANGED <<lifeVars, whoisVars>>)
          /\ SF_vars(Up /\ TakeFrame(c) /\ UNCHANGED <<lifeVars, whoisVars>>)
=============================================================================
