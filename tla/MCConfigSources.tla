--------------------------- MODULE MCConfigSources ---------------------------
(* Instance of ConfigSources for TLC: two files with every text of a few     *)
(* lines, which include each other and themselves, under two names.         *)
EXTENDS ConfigSources

MCPaths == {"main", "b"}
MCCanonical == [p \in MCPaths |-> ("main" :> "main") @@ ("b" :> "b") @@ ("./b" :> "b")]
MCNaming == ("s" :> {"set:s", "set:s2"}) @@ ("s2" :> {"set:s2"})

IncB == Line("conf-file", <<"b">>)
IncB2 == Line("conf-file", <<"./b", " ", "-group", " ", "g">>)
IncB3 == Line("conf-file", <<"b", " ", "-group", " ", "g">>)
IncMain == Line("conf-file", <<"main">>)
IncNone == Line("conf-file", <<"gone">>)
BeginG == Line("group-begin", <<"g">>)
BeginH == Line("group-begin", <<"h", " ", "-inherit", " ", "g">>)
EndG == Line("group-end", <<>>)
Match == Line("group-match", <<"-ip", " ", "set:s">>)
Client == Line("client-rules", <<"10.0.0.1">>)
Ip == Line("ip-rules", <<"set:s2", " ", "-x">>)
Alias == Line("ip-alias", <<"1.0.0.0/8", " ", "set:s">>)
Names1 == Line("nameserver", <<"/", "set:s", "/", "cn">>)
Address1 == Line("address", <<"/", "set:s", "/", "1.2.3.4">>)
Rules1 == Line("domain-rules", <<"/", "set:s2", "/", " ", "-x">>)

Tree(a, b) == ("main" :> a) @@ ("b" :> b)
MCTrees ==
    {Tree(a, b) : a \in BoundedSeq({IncB, IncB2, BeginG, EndG, Client}, 3),
                  b \in BoundedSeq({IncB3, IncMain, IncNone, BeginH, EndG, Match, Alias}, 2)} \cup
    {Tree(<<IncB2, Ip>>, b) : b \in BoundedSeq({BeginG, BeginH, EndG, Match, Client}, 5)} \cup
    {Tree(<<IncB, IncB2>>, b) : b \in BoundedSeq({BeginH, EndG, Match, Client}, 4)} \cup
    {Tree(a, b) : a \in BoundedSeq({IncB, IncB2, Names1}, 2), b \in BoundedSeq({Ip, Rules1, Alias, Address1}, 2)}
=============================================================================
