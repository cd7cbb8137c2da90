---------------------------- MODULE MCConfigPages ----------------------------
(* Instance of ConfigPages for TLC: settings that differ from the defaults  *)
(* in each way the renderers tell apart, every list of up to three option   *)
(* words of an upstream, and rules of each kind.                            *)
EXTENDS ConfigPages

MCGroupOrder == <<"-b", "-fallback", "-group", "-x", "cn", "global">>
OptionWords == {"-group", "cn", "-b", "-fallback", "-x"}
MCDashWords == OptionWords \ {"cn"}

Server(words) == ParseUpstreamConfig("server-tls", <<"dns1">>, words)
Ups == [NoUpstream EXCEPT !.kind = "tls", !.value = <<"dns2">>]
Base == [NoConfig EXCEPT !.upstreams = <<Server(<<>>)>>]
Extra(pairs) == [Base EXCEPT !.extras = pairs]

Configs ==
    {[Base EXCEPT !.upstreams = <<Server(w)>>] : w \in BoundedSeq(OptionWords, 3)} \cup
    {[Base EXCEPT !.upstreams = us] : us \in
        {<<>>, <<Ups>>, <<[Ups EXCEPT !.kind = "server-h3"], [Ups EXCEPT !.value = <<>>]>>,
         <<[Ups EXCEPT !.groups = <<"global", "cn">>], Server(<<"-group", "cn", "-e">>),
           Ups, [Ups EXCEPT !.groups = <<"cn">>, !.proxy = <<"p">>]>>}} \cup
    {[Base EXCEPT !.scalar["cache-size"] = <<>>, !.flag["serve-expired"] = FALSE],
     [Base EXCEPT !.scalar["cache-size"] = <<"9">>, !.flag["mdns-lookup"] = TRUE, !.name = <<"n">>],
     [Base EXCEPT !.scalar["response-mode"] = <<>>],
     [Base EXCEPT !.binds = <<<<"[::]:1">>, <<>>, <<"[::]:2">>>>]} \cup
    {Extra(e) : e \in
       {("conf-file" :> <<"a", ",", " ", "b", " ", "-group", " ", "g">>),
        ("conf-file" :> <<"a", "\n", "b">>) @@ ("log-size" :> <<"1k">>),
        ("bind-tls" :> <<"t1", "\n", "t2">>) @@ ("bind-cert-file" :> <<"c">>),
        ("bind-cert-file" :> <<"c">>) @@ ("dns64" :> <<"d">>),
        ("no-daemon" :> <<"true">>) @@ ("log-console" :> <<"?">>) @@ ("user" :> <<>>),
        ("tcp-idle-time" :> <<"7">>) @@ ("unknown" :> <<"u">>)}}

Rule1 == Line("nameserver", <<"/", "a", "/", "cn">>)
Rule2 == Line("address", <<"/", "b", "/", "#">>)
Rule3 == Line("domain-rules", <<"/", "domain-set:s", "/", " ", "-x", " ", "1">>)
Rule4 == Line("ip-rules", <<"1.0.0.0/8", " ", "-whitelist-ip">>)
Set1 == Line("domain-set", <<"-name", " ", "s", " ", "-file", " ", "f">>)
Set2 == Line("ip-set", <<"-name", " ", "i">>)
Group == <<Line("group-begin", <<"g", " ", "-inherit", " ", "h">>),
           Line("group-match", <<"-g", " ", "cn">>), Rule4,
           Line("client-rules", <<"10.0.0.1">>), Line("group-end", <<>>)>>
MCRules == {<<>>, <<Rule1, Rule2, Rule1>>, <<Rule3, Rule1, Rule4>>, <<Set1, Set2, Rule3>>,
            <<Line("cname", <<"/", "a", "/", " ", "-x", " ", "y", "/", "z">>)>>,
            <<Line("nameserver", <<"/", "c", "/">>)>>, <<Line("address", <<>>)>>,
            <<Line("group-end", <<>>)>>, <<Line("group-begin", <<"g">>), Rule4>>}

MCRequests == {[config |-> c, rules |-> <<Rule1>>] : c \in Configs}
              \cup {[config |-> Base, rules |-> r] : r \in MCRules \cup {Group, Group \o <<Rule2>>}}
MCGroupRequests == {[config |-> Base, rules |-> r] : r \in {Group, Group \o <<Rule2>>}}

Plugin == Line("plugin", <<"smartdns_plus_ui.so">>)
MCUserLines == {Line("bind", <<"[::]:53">>), Line("cache-size", <<"5">>)}
MCMains == {<<>>, <<Plugin>>, <<Plugin, Begin, Line("conf-file", <<"service">>), End>>,
            <<Begin, End, Plugin>>, <<Plugin, Begin, End, Line("log-size", <<"2k">>)>>}
=============================================================================
