--------------------------- MODULE BeginnerConfig ---------------------------
(***************************************************************************)
(* The settings that the pages "basic", "upstreams", "cache", "logging"    *)
(* and "network" of the interface show and save (config_ui.rs): how a      *)
(* BeginnerConfig is read from the lines of a configuration and how it is  *)
(* written to the managed pages.                                           *)
(***************************************************************************)
EXTENDS ConfigLines, TLC

CONSTANTS GroupOrder,   \* the words that may name a group, in the order of their bytes
          DashWords     \* the words that begin with a dash

-----------------------------------------------------------------------------
(* The fields of a BeginnerConfig: settings with a value and a default,    *)
(* switches with a default, lists, and the extras, by their key.           *)

ScalarDefault == ("response-mode" :> <<"first-ping">>) @@ ("log-level" :> <<"info">>)
    @@ ("speed-check-mode" :> <<"ping", ",", "tcp:80", ",", "tcp:443">>)
    @@ ("cache-size" :> <<"32768">>) @@ ("serve-expired-ttl" :> <<"86400">>)
FlagDefault == [k \in {"mdns-lookup", "audit-enable", "prefetch-domain", "serve-expired",
                       "dualstack-ip-selection"} |-> k \notin {"mdns-lookup", "audit-enable"}]

ServerKeys == {"server", "server-tcp", "server-tls", "server-https", "server-quic",
               "server-http3", "server-h3"}
ListKeys == {"bind-tcp", "bind-tls", "bind-https", "conf-file"}

CertKeys == <<"bind-cert-file", "bind-cert-key-file", "bind-cert-generate", "bind-cert-san",
              "bind-cert-key-pass", "bind-cert-root-key-file", "bind-cert-validity-days">>
RunKeys == <<"user", "socket-buff-size">>
RunSwitches == <<"no-daemon", "restart-on-crash", "expand-ptr-from-address">>
FileKeys == <<"proxy-server", "hosts-file", "ca-file", "ca-path">>
CacheKeys == <<"cache-persist", "cache-file">>
TtlKeys == <<"rr-ttl-min", "rr-ttl-max", "rr-ttl-reply-max", "local-ttl", "max-reply-ip-num",
             "max-query-limit", "tcp-idle-time", "serve-expired-reply-ttl",
             "serve-expired-prefetch-time">>
ThresholdKeys == <<"dualstack-ip-selection-threshold">>
LogKeys == <<"log-file", "log-size", "log-num">>
LogSwitches == <<"log-console", "log-syslog">>
AuditKeys == <<"audit-file", "audit-size", "audit-num">>
AuditSwitches == <<"audit-console">>
NetworkKeys == <<"edns-client-subnet", "dns64", "ddns-domain", "local-domain",
                 "dnsmasq-lease-file">>
NetworkSwitches == <<"force-AAAA-SOA", "force-no-CNAME">>

NoConfig == [name |-> <<>>, binds |-> <<>>, scalar |-> ScalarDefault, flag |-> FlagDefault,
             upstreams |-> <<>>, extras |-> <<>>]

-----------------------------------------------------------------------------
(* Writing *)

YesNo(b) == IF b THEN <<"yes">> ELSE <<"no">>

ParseYesNo(val, default) ==
    CASE val \in {<<"yes">>, <<"true">>, <<"1">>} -> TRUE
      [] val \in {<<"no">>, <<"false">>, <<"0">>} -> FALSE
      [] OTHER -> default

PushKv(c, key) ==
    <<Line(key, IF c.scalar[key] = <<>> THEN ScalarDefault[key] ELSE c.scalar[key])>>

PushBool(c, key) == <<Line(key, YesNo(c.flag[key]))>>

Has(c, key) == key \in DOMAIN c.extras /\ c.extras[key] # <<>>

\* The lines of those of the keys that the extras hold, in this order.
PushExtras(c, keys) ==
    LET held == SelectSeq(keys, LAMBDA k : Has(c, k)) IN
    [i \in DOMAIN held |-> Line(held[i], c.extras[held[i]])]

PushSwitches(c, keys) ==
    LET held == SelectSeq(keys, LAMBDA k : Has(c, k)) IN
    [i \in DOMAIN held |-> Line(held[i], YesNo(ParseYesNo(c.extras[held[i]], FALSE)))]

SplitListExtra(c, key) ==
    IF Has(c, key) THEN Pieces(c.extras[key], {",", "\n"}) ELSE <<>>

RenderTls(c) ==
    LET tls == SplitListExtra(c, "bind-tls") https == SplitListExtra(c, "bind-https") IN
    IF tls \o https = <<>> THEN <<>>
    ELSE Lines("bind-tls", tls) \o Lines("bind-https", https) \o PushExtras(c, CertKeys)

RenderServiceConfig(c) ==
    (IF c.name = <<>> THEN <<>> ELSE <<Line("server-name", c.name)>>)
    \o Lines("bind", IF c.binds = <<>> THEN <<<<"[::]:53">>>>
                     ELSE SelectSeq(c.binds, LAMBDA b : b # <<>>))
    \o Lines("bind-tcp", SplitListExtra(c, "bind-tcp"))
    \o RenderTls(c)
    \o PushKv(c, "response-mode") \o PushKv(c, "speed-check-mode")
    \o PushBool(c, "mdns-lookup") \o PushExtras(c, RunKeys) \o PushSwitches(c, RunSwitches)
    \o PushExtras(c, FileKeys)
    \o Lines("conf-file", SplitListExtra(c, "conf-file"))

RenderPerformanceConfig(c) ==
    PushKv(c, "cache-size") \o PushBool(c, "prefetch-domain") \o PushBool(c, "serve-expired")
    \o PushKv(c, "serve-expired-ttl") \o PushExtras(c, CacheKeys) \o PushExtras(c, TtlKeys)
    \o PushBool(c, "dualstack-ip-selection") \o PushExtras(c, ThresholdKeys)

RenderLoggingConfig(c) ==
    PushKv(c, "log-level") \o PushExtras(c, LogKeys) \o PushSwitches(c, LogSwitches)
    \o PushBool(c, "audit-enable") \o PushExtras(c, AuditKeys) \o PushSwitches(c, AuditSwitches)

RenderNetworkConfig(c) ==
    PushExtras(c, <<"force-qtype-SOA">>) \o PushSwitches(c, NetworkSwitches)
    \o PushExtras(c, NetworkKeys)

-----------------------------------------------------------------------------
(* Upstream servers *)

NoUpstream == [kind |-> "", value |-> <<>>, groups |-> <<>>, exclude |-> FALSE,
               proxy |-> <<>>, bootstrap |-> <<>>, host_ip |-> <<>>, subnet |-> <<>>,
               fallback |-> FALSE, options |-> <<>>]

DefaultUpstreams ==
    <<[NoUpstream EXCEPT !.kind = "server-https", !.value = <<"alidns">>, !.groups = <<"cn">>],
      [NoUpstream EXCEPT !.kind = "server-https", !.value = <<"cloudflare">>,
                         !.groups = <<"global">>, !.fallback = TRUE]>>

\* server-h3, which the parser knows, is none of the kinds known here.
UpstreamKey(kind) ==
    CASE kind \in {"server-tcp", "tcp"} -> "server-tcp"
      [] kind \in {"server-tls", "tls"} -> "server-tls"
      [] kind \in {"server-https", "https"} -> "server-https"
      [] kind \in {"server-quic", "quic"} -> "server-quic"
      [] kind \in {"server-http3", "http3", "h3"} -> "server-http3"
      [] OTHER -> "server"

\* Mutant: the other options come first.
UpstreamOptionsFirst(u) ==
    LET Opt(word, val) == IF val = <<>> THEN <<>> ELSE <<word>> \o val
    IN u.options \o FlattenSeq([i \in DOMAIN u.groups |-> <<"-group", u.groups[i]>>])
       \o Opt("-proxy", u.proxy) \o Opt("-bootstrap-dns", u.bootstrap)
       \o (IF u.fallback THEN <<"-fallback">> ELSE <<>>)

\* The words of the options, the ones without a field of their own last.
RenderUpstreamOptions(u) ==
    LET Opt(word, val) == IF val = <<>> THEN <<>> ELSE <<word>> \o val
    IN FlattenSeq([i \in DOMAIN u.groups |-> <<"-group", u.groups[i]>>])
       \o (IF u.exclude THEN <<"-exclude-default-group">> ELSE <<>>)
       \o Opt("-proxy", u.proxy) \o Opt("-bootstrap-dns", u.bootstrap)
       \o Opt("-host-ip", u.host_ip) \o Opt("-subnet", u.subnet)
       \o (IF u.fallback THEN <<"-fallback">> ELSE <<>>)
       \o u.options

RenderUpstream(u) == Line(UpstreamKey(u.kind), u.value \o RenderUpstreamOptions(u))

\* By their first group, in alphabetical order, then those without a group.
RenderUpstreamsConfig(c) ==
    LET list == SelectSeq(IF c.upstreams = <<>> THEN DefaultUpstreams ELSE c.upstreams,
                          LAMBDA u : u.value # <<>>)
        In(g) == SelectSeq(list, LAMBDA u : u.groups # <<>> /\ u.groups[1] = g)
        sorted == FlattenSeq([i \in DOMAIN GroupOrder |-> In(GroupOrder[i])])
                  \o SelectSeq(list, LAMBDA u : u.groups = <<>>)
    IN [i \in DOMAIN sorted |-> RenderUpstream(sorted[i])]

\* The options that take the next word, and the field it goes to.
ValueOption == [w \in {"-proxy", "-b", "-bootstrap-dns", "-host-ip", "-subnet"} |->
    CASE w = "-proxy" -> "proxy" [] w = "-host-ip" -> "host_ip" [] w = "-subnet" -> "subnet"
      [] OTHER -> "bootstrap"]

\* from[i]: what the words from the i-th on say.  An option without its word,
\* at the end of the line, and an unknown one stay as they are, an unknown one
\* with the next word unless that begins with a dash.  The last one counts.
ParseUpstreamConfig(kind, value, w) ==
    LET n == Len(w)
        from[i \in 1..(n + 1)] ==
            CASE i > n -> NoUpstream
              [] i < n /\ w[i] \in {"-g", "-group"} ->
                    [from[i + 2] EXCEPT !.groups = <<w[i + 1]>> \o @]
              [] i < n /\ w[i] \in DOMAIN ValueOption ->
                    [from[i + 2] EXCEPT ![ValueOption[w[i]]] = IF @ = <<>> THEN <<w[i + 1]>> ELSE @]
              [] i <= n /\ w[i] \in {"-e", "-exclude-default-group"} ->
                    [from[i + 1] EXCEPT !.exclude = TRUE]
              [] i <= n /\ w[i] = "-fallback" -> [from[i + 1] EXCEPT !.fallback = TRUE]
              [] i < n /\ w[i] \notin {"-e", "-exclude-default-group", "-fallback", "-g", "-group"}
                          \cup DOMAIN ValueOption /\ w[i + 1] \notin DashWords ->
                    [from[i + 2] EXCEPT !.options = <<w[i], w[i + 1]>> \o @]
              [] OTHER -> [from[i + 1] EXCEPT !.options = <<w[i]>> \o @]
    IN [from[1] EXCEPT !.kind = kind, !.value = value]

-----------------------------------------------------------------------------
(* Reading *)

\* Mutant: of a list, too, only the last line counts.
WithExtraLast(extras, l) == (l.key :> l.val) @@ extras

\* The extras with a line added: lists grow, of the others the last counts.
WithExtra(extras, l) ==
    LET old == IF l.key \in DOMAIN extras THEN extras[l.key] ELSE <<>>
        new == IF l.key \in ListKeys /\ old # <<>> THEN old \o <<"\n">> \o l.val ELSE l.val
    IN (l.key :> new) @@ extras

ParseLine(c, l) ==
    CASE l.key \in {"BEGIN", "END"} -> c
      [] l.key = "server-name" -> [c EXCEPT !.name = l.val]
      [] l.key = "bind" -> [c EXCEPT !.binds = Append(@, l.val)]
      [] l.key \in DOMAIN ScalarDefault -> [c EXCEPT !.scalar[l.key] = l.val]
      [] l.key \in DOMAIN FlagDefault ->
            [c EXCEPT !.flag[l.key] = ParseYesNo(l.val, FlagDefault[l.key])]
      [] l.key \in ServerKeys ->
            LET w == Words(l.val) IN
            [c EXCEPT !.upstreams = Append(@, ParseUpstreamConfig(l.key, First(w),
                                                                  SubSeq(w, 2, Len(w))))]
      [] OTHER -> IF l.val = <<>> THEN c ELSE [c EXCEPT !.extras = WithExtra(@, l)]

ParseBeginnerConfig(lines) == FoldLeft(ParseLine, NoConfig, lines)

\* The errors among what validate_beginner_config reports about the settings.
SettingsValid(c) ==
    /\ \E i \in DOMAIN c.upstreams : c.upstreams[i].value # <<>>
    /\ c.scalar["response-mode"] # <<>>
=============================================================================
