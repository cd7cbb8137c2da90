---------------------------- MODULE ManagedRules ----------------------------
(***************************************************************************)
(* The rules and sets of the interface (ManagedAssets of config_ui.rs):    *)
(* how they are read from a text of rules and written to the pages         *)
(* "nameserver", "rules" and "sets".                                       *)
(***************************************************************************)
EXTENDS ConfigLines

RoutingKeys == {"nameserver", "domain-rules", "address", "cname"}

NoAssets == [groups |-> <<>>, clients |-> <<>>, ip_rules |-> <<>>, routing |-> <<>>,
             domain_sets |-> <<>>, ip_sets |-> <<>>, open |-> <<>>]

OpenName(a) == IF a.open = <<>> THEN <<>> ELSE a.open[1].name

\* The group that a group-begin line opens.
NewGroup(val) == [name |-> First(Words(val)), inherit |-> NamedOption(val, "-inherit"),
                  matchers |-> <<>>]

\* open holds at most one group: a group-begin inside a group replaces it.
AssetLine(a, l) ==
    CASE l.key = "group-begin" -> [a EXCEPT !.open = <<NewGroup(l.val)>>]
      [] l.key = "group-match" /\ a.open # <<>> ->
            [a EXCEPT !.open[1].matchers = Append(@, l.val)]
      [] l.key = "group-end" -> [a EXCEPT !.groups = @ \o a.open, !.open = <<>>]
      [] l.key = "client-rules" ->
            [a EXCEPT !.clients = Append(@, [matcher |-> l.val, group |-> OpenName(a)])]
      [] l.key \in IpRuleKeys ->
            LET s == SplitTargetOptions(l.val) IN
            [a EXCEPT !.ip_rules = Append(@, [type |-> l.key, target |-> s.target,
                                              value |-> s.value, group |-> OpenName(a)])]
      [] l.key \in RoutingKeys ->
            LET s == SplitTargetValue(l.val) IN
            [a EXCEPT !.routing = Append(@, [type |-> l.key, target |-> s.target,
                                             value |-> s.value])]
      [] l.key = "domain-set" /\ NamedOption(l.val, "-name") # <<>> ->
            LET type == NamedOption(l.val, "-type") IN
            [a EXCEPT !.domain_sets = Append(@, [name |-> NamedOption(l.val, "-name"),
                file |-> NamedOption(l.val, "-file"),
                type |-> IF type = <<>> THEN <<"list">> ELSE type])]
      [] l.key = "ip-set" /\ NamedOption(l.val, "-name") # <<>> ->
            [a EXCEPT !.ip_sets = Append(@, [name |-> NamedOption(l.val, "-name"),
                file |-> NamedOption(l.val, "-file")])]
      [] OTHER -> a

\* A group still open at the end of the text counts as closed.
ParseManagedAssets(lines) ==
    AssetLine(FoldLeft(AssetLine, NoAssets, lines), Line("group-end", <<>>))

-----------------------------------------------------------------------------

RenderSetsText(a) ==
    [i \in DOMAIN a.domain_sets |->
        LET d == a.domain_sets[i] IN
        Line("domain-set", <<"-name">> \o d.name \o <<"-type">> \o d.type \o <<"-file">> \o d.file)]
    \o [i \in DOMAIN a.ip_sets |->
        Line("ip-set", <<"-name">> \o a.ip_sets[i].name \o <<"-file">> \o a.ip_sets[i].file)]

\* Mutant: the slash between target and group is left out.
RenderNameserverNoSlash(r) ==
    Line(r.type, IF r.value = <<>> THEN r.target ELSE r.target \o <<" ">> \o r.value)

RenderNameserver(r) ==
    Line(r.type, IF r.value = <<>> THEN r.target ELSE r.target \o <<"/">> \o r.value)

RenderRoutingItemsText(a) ==
    LET items == SelectSeq(a.routing, LAMBDA r : r.type = "nameserver") IN
    [i \in DOMAIN items |-> RenderNameserver(items[i])]

\* Neither the groups nor the rules for clients are written, nor the group
\* that a rule for addresses was in.
RenderRuleEntriesText(a) ==
    LET items == SelectSeq(a.routing, LAMBDA r : r.type # "nameserver")
        Slash(t) == IF t # <<>> /\ Last(t) = "/" THEN t ELSE Append(t, "/")
        Entry(r, target) ==
            Line(r.type, IF r.value = <<>> THEN target ELSE target \o <<" ">> \o r.value)
    IN [i \in DOMAIN items |-> Entry(items[i], Slash(items[i].target))]
       \o [i \in DOMAIN a.ip_rules |-> Entry(a.ip_rules[i], a.ip_rules[i].target)]

\* validate_managed_assets
AssetsValid(a) ==
    /\ \A i, j \in DOMAIN a.groups : a.groups[i].name = a.groups[j].name => i = j
    /\ \A i \in DOMAIN a.clients : a.clients[i].matcher # <<>>
    /\ \A i \in DOMAIN a.ip_rules : a.ip_rules[i].target # <<>>
    /\ \A i \in DOMAIN a.routing : a.routing[i].target # <<>>

\* The groups of a text are closed, and no more of them than were opened:
\* the errors that validate_beginner_config reports about the rules.  It counts
\* no group-begin without a name and no group-end with a word after it.
GroupsClosed(lines) ==
    LET Depth(d, l) == CASE l.key = "group-begin" /\ l.val # <<>> -> [d EXCEPT !.n = @ + 1]
                         [] l.key = "group-end" /\ l.val = <<>> ->
                                IF d.n = 0 THEN [d EXCEPT !.ok = FALSE] ELSE [d EXCEPT !.n = @ - 1]
                         [] OTHER -> d
        end == FoldLeft(Depth, [n |-> 0, ok |-> TRUE], lines)
    IN end.ok /\ end.n = 0
=============================================================================
