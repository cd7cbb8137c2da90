-------------------------------- MODULE WhoIs --------------------------------
(***************************************************************************)
(* WHOIS lookups (whois.rs, GET /api/tool/whois): a lookup asks a server,  *)
(* follows its referral to the next one, and remembers in server_lists     *)
(* which server a domain was referred to, for the lookups after it.  It is *)
(* made for the main domain of the name and then, when the name has three  *)
(* parts or more, for its last three parts; each starts at the server      *)
(* known for the domain above ("tld", then "main"), or at the root.        *)
(* The servers are outside: refer says whom each refers to, an answer may  *)
(* name a registrar, an organization and the domain it is about, or fail.  *)
(***************************************************************************)
EXTENDS Naturals, Sequences, FiniteSets, Connections

CONSTANTS Servers,  \* WHOIS servers
          Root      \* whois.iana.org

NoServer == ""      \* an answer without referral
Unknown  == "?"     \* no entry in server_lists
Bases    == {"tld", "main"}

ASSUME WhoIsAssumption == Root \in Servers /\ {NoServer, Unknown} \cap Servers = {}

VARIABLES refer,         \* whom a server refers to
          server_lists,  \* the servers remembered
          query          \* the lookup of each connection

whoisVars == <<refer, server_lists, query>>

\* odd is the parity of the answers, which makes asking a server again a step
NoQuery == [st |-> "none", left |-> << >>, server |-> NoServer,
            last |-> "nothing", ok |-> FALSE, odd |-> FALSE]

GetServerByDomain(base) ==
    LET known == {b \in {base, "tld"} : server_lists[b] # Unknown}
    IN  IF base \in known THEN server_lists[base]
        ELSE IF known # {} THEN server_lists["tld"] ELSE Root

\* the end of query, and what it ends with when nothing better was found
Return(q, ok) == [q EXCEPT !.st = "answered", !.ok = ok, !.left = << >>, !.server = NoServer,
                              !.odd = FALSE]
Answered(q) == Return(q, q.last = "registrar")

\* the next main domain of the list, or the end
NextDomain(q) == IF q.left = << >> THEN Answered(q)
                 ELSE [q EXCEPT !.server = GetServerByDomain(Head(q.left)),
                                !.left = Tail(q.left)]

\* api_whois, query: a name of one or two parts, or a longer one
AskWhois(c) ==
    /\ \E list \in {<<"tld">>, <<"tld", "main">>} :
          query' = [query EXCEPT ![c] =
                       NextDomain([NoQuery EXCEPT !.st = "asking", !.left = list])]
    /\ UNCHANGED <<refer, server_lists>>

\* connecting, writing or reading failed or timed out
ServerFails(c) ==
    /\ query[c].st = "asking" /\ query[c].server # NoServer
    /\ query' = [query EXCEPT ![c] = Answered(@)]
    /\ UNCHANGED <<refer, server_lists>>

\* mutant: a server that refers to itself is asked again
RefersAlways(server) == TRUE
RefersOn(server) == server # refer[server]

\* parser_whois and what query makes of the answer; about is the domain it names
ServerAnswers(c, organization, registrar, about) ==
    LET q    == query[c]
        seen == [q EXCEPT !.odd = ~@,
                          !.last = IF organization THEN "organization"
                                   ELSE IF registrar THEN "registrar" ELSE @]
    IN  /\ q.st = "asking" /\ q.server # NoServer
        /\ CASE organization ->
                  /\ query' = [query EXCEPT ![c] = Return(seen, TRUE)]
                  /\ UNCHANGED server_lists
             [] ~organization /\ ~RefersOn(q.server) ->
                  /\ query' = [query EXCEPT ![c] = NextDomain(seen)]
                  /\ UNCHANGED server_lists
             [] OTHER ->
                  /\ query' = [query EXCEPT ![c] = [seen EXCEPT !.server = refer[q.server]]]
                  /\ server_lists' = [b \in Bases |-> IF b = about THEN refer[q.server]
                                                                  ELSE server_lists[b]]
        /\ UNCHANGED refer

\* no server to ask: the loop for this main domain ends
NoReferral(c) ==
    /\ query[c].st = "asking" /\ query[c].server = NoServer
    /\ query' = [query EXCEPT ![c] = NextDomain(@)]
    /\ UNCHANGED <<refer, server_lists>>

WhoisInit == /\ refer \in [Servers -> Servers \cup {NoServer}]
             /\ server_lists = [b \in Bases |-> Unknown]
             /\ query = [c \in Conns |-> NoQuery]

WhoisStep(c) ==
    \/ ServerFails(c)
    \/ \E organization, registrar \in BOOLEAN, about \in Bases \cup {Unknown} :
          ServerAnswers(c, organization, registrar, about)
    \/ NoReferral(c)
-----------------------------------------------------------------------------
\* following the referrals from any server comes to an end
Referred(s) == IF s = NoServer THEN NoServer ELSE refer[s]
Hops(s) == LET h[n \in 0..Cardinality(Servers)] == IF n = 0 THEN s ELSE Referred(h[n - 1])
           IN  h[Cardinality(Servers)]
ReferralsEnd == \A s \in Servers : Referred(Hops(s)) = Hops(s)

(***************************************************************************)
(* A lookup ends when no servers refer to each other in a circle, whatever *)
(* earlier lookups have put into server_lists.  Only a server that refers  *)
(* to itself is recognised by query.                                       *)
(***************************************************************************)
LookupEnds == ReferralsEnd => \A c \in Conns : query[c].st = "asking" ~> query[c].st # "asking"
=============================================================================
