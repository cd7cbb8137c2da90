---------------------------- MODULE ConfigSources ----------------------------
(***************************************************************************)
(* The part of read_overview (config_ui.rs) that shows the configuration   *)
(* as it is on disk: smartdns.conf and the files it includes are collected *)
(* (collect_config_sources) and searched for rules, sets and groups.       *)
(* Includes are written by hand: files may include each other, a file may  *)
(* be included more than once, under different names, with a group for all *)
(* of its rules or without.                                                *)
(*                                                                         *)
(* calls holds the activations of collect_config_source_recursive that     *)
(* have not returned, the outermost first, each with the next line of its  *)
(* file.                                                                   *)
(***************************************************************************)
EXTENDS ConfigLines, FiniteSets

CONSTANTS Paths,        \* the files
          Main,         \* smartdns.conf
          Canonical,    \* for each file, the names in it that exist -> Paths
          Trees,        \* what the files may hold: functions on Paths
          Naming,       \* set name -> the words that contain "ip-set:<name>" or
                        \* "domain-set:<name>"
          MaxCalls      \* bound: no more activations than the stack has room for

ASSUME SourcesAssumption ==
    /\ Main \in Paths /\ IsFiniteSet(Paths) /\ MaxCalls \in Nat
    /\ DOMAIN Canonical = Paths
    /\ \A p \in Paths : \A n \in DOMAIN Canonical[p] : Canonical[p][n] \in Paths
    /\ \A t \in Trees : /\ DOMAIN t = Paths
                        /\ \A p \in Paths : t[p] \in Seq(ToSet(t[p]))

VARIABLES files,        \* what the files hold
          calls, visited, sources
sourcesVars == <<files, calls, visited, sources>>

-----------------------------------------------------------------------------
(* collect_config_sources *)

Call(path) == [path |-> path, at |-> 1]

\* A file that is read, and the group given for all its rules.
Source(path, group) == [path |-> path, group |-> group]

\* The name in a conf-file line.
Name(l) == Head(Words(l.val))

\* Does a line include a file?  A file that does not exist is passed over.
Follows(path, l) ==
    /\ l.key = "conf-file" /\ l.val # <<>>
    /\ Name(l) \in DOMAIN Canonical[path]

Included(path, l) == Source(Canonical[path][Name(l)], NamedOption(l.val, "-group"))

\* Mutant: a file is known by the name it is included under.
VisitKeyName(path, l) == Source(Name(l), NamedOption(l.val, "-group"))

VisitKey(path, l) == Included(path, l)

\* The call from outside, for smartdns.conf, is made already.
SourcesInit ==
    /\ files \in Trees
    /\ calls = <<Call(Main)>>
    /\ visited = {Source(Main, <<>>)} /\ sources = <<Source(Main, <<>>)>>

\* The call that runs, and the others when it has taken one more line.
Running == Last(calls)
NextLine == [calls EXCEPT ![Len(calls)].at = @ + 1]

\* Mutant: the lines of a file that was read before are followed again.
FollowAgain(l) ==
    /\ Follows(Running.path, l)
    /\ calls' = Append(NextLine, Call(Included(Running.path, l).path))
    /\ visited' = visited \cup {VisitKey(Running.path, l)}
    /\ sources' = IF VisitKey(Running.path, l) \in visited THEN sources
                  ELSE Append(sources, Included(Running.path, l))

\* A file that is included here, with a group that it was not read with.
Follow(l) ==
    /\ Follows(Running.path, l)
    /\ VisitKey(Running.path, l) \notin visited
    /\ calls' = Append(NextLine, Call(Included(Running.path, l).path))
    /\ visited' = visited \cup {VisitKey(Running.path, l)}
    /\ sources' = Append(sources, Included(Running.path, l))

\* Any other line, or a file that was read.
Pass(l) ==
    /\ Follows(Running.path, l) => VisitKey(Running.path, l) \in visited
    /\ calls' = NextLine
    /\ UNCHANGED <<visited, sources>>

ReadLine ==
    /\ calls # <<>> /\ Len(calls) < MaxCalls
    /\ Running.at \in DOMAIN files[Running.path]
    /\ LET l == files[Running.path][Running.at] IN Follow(l) \/ Pass(l)
    /\ UNCHANGED files

Return ==
    /\ calls # <<>>
    /\ Running.at \notin DOMAIN files[Running.path]
    /\ calls' = Front(calls)
    /\ UNCHANGED <<files, visited, sources>>

SourcesNext == ReadLine \/ Return

\* The walk is a recursion of one thread.
SourcesSpec == SourcesInit /\ [][SourcesNext]_sourcesVars /\ WF_sourcesVars(SourcesNext)

-----------------------------------------------------------------------------
(* Rules of clients and addresses, with the group they belong to *)

\* Mutant: an end closes the first group that was opened.
PopOldest(stack) == IF stack = <<>> THEN stack ELSE Tail(stack)

\* Vec::pop: an end without a group is ignored.
Pop(stack) == IF stack = <<>> THEN stack ELSE Front(stack)

Top(stack) == IF stack = <<>> THEN <<>> ELSE Last(stack)

\* The lines of a source with one of the keys, each with its group.
GroupedLines(s, keys) ==
    LET Scan(acc, l) ==
            CASE l.key = "group-begin" -> [acc EXCEPT !.stack = Append(@, First(Words(l.val)))]
              [] l.key = "group-end" -> [acc EXCEPT !.stack = Pop(@)]
              [] l.key \in keys -> [acc EXCEPT !.out = Append(@, [line |-> l, group |-> Top(acc.stack)])]
              [] OTHER -> acc
    IN FoldLeft(Scan, [stack |-> IF s.group = <<>> THEN <<>> ELSE <<s.group>>, out |-> <<>>],
                files[s.path]).out

ClientRules(s) == GroupedLines(s, {"client-rules"})

IpRules(s) ==
    LET rules == GroupedLines(s, IpRuleKeys) IN
    [i \in DOMAIN rules |-> [type |-> rules[i].line.key, group |-> rules[i].group]
                            @@ SplitTargetOptions(rules[i].line.val)]

-----------------------------------------------------------------------------
(* build_rule_group_assets *)

Group(name, inherit, source, include) ==
    [name |-> name, inherit |-> inherit, source |-> source, include |-> include,
     matchers |-> <<>>, count |-> 0]

DeclaredGroup(s, l) == Group(First(Words(l.val)), NamedOption(l.val, "-inherit"), s.path, <<>>)

\* The groups that a source declares, without their contents.
Declared(s) ==
    LET decl == SelectSeq(files[s.path], LAMBDA l :
                    \/ l.key = "group-begin"
                    \/ l.key = "conf-file" /\ NamedOption(l.val, "-group") # <<>>)
    IN [i \in DOMAIN decl |->
          IF decl[i].key = "group-begin" THEN DeclaredGroup(s, decl[i])
          ELSE Group(NamedOption(decl[i].val, "-group"), <<>>, s.path, First(Words(decl[i].val)))]

Counted(stack) ==
    IF stack = <<>> THEN stack ELSE [stack EXCEPT ![Len(stack)].count = @ + 1]

\* One stack runs through all sources: acc.stack holds the groups that are
\* open, acc.done those that were closed.
CloseGroup(acc) ==
    IF acc.stack = <<>> THEN acc
    ELSE [stack |-> Front(acc.stack), done |-> Append(acc.done, Last(acc.stack))]

RealizeSource(acc, s) ==
    LET Scan(a, l) ==
            CASE l.key = "group-begin" -> [a EXCEPT !.stack = Append(@, DeclaredGroup(s, l))]
              [] l.key = "group-match" ->
                    IF a.stack = <<>> THEN a
                    ELSE [a EXCEPT !.stack[Len(a.stack)].matchers = Append(@, l.val)]
              [] l.key = "group-end" -> CloseGroup(a)
              [] OTHER -> [a EXCEPT !.stack = Counted(@)]
        opened == IF s.group = <<>> THEN acc
                  ELSE [acc EXCEPT !.stack = Append(@, Group(s.group, <<>>, s.path, <<s.path>>))]
        read == FoldLeft(Scan, opened, files[s.path])
    IN IF s.group = <<>> THEN read ELSE CloseGroup(read)

Realized == FoldLeft(RealizeSource, [stack |-> <<>>, done |-> <<>>], sources).done

\* What is known of a group goes to the first one declared with its name in
\* its file, or becomes one more.
MergeGroup(assets, g) ==
    LET at == SelectInSeq(assets, LAMBDA a : a.name = g.name /\ a.source = g.source
                                             /\ a.include = g.include)
    IN IF at = 0 THEN Append(assets, g)
       ELSE [assets EXCEPT ![at].matchers = g.matchers, ![at].count = g.count,
                           ![at].inherit = IF @ = <<>> THEN g.inherit ELSE @]

RuleGroups ==
    FoldLeft(MergeGroup, FlattenSeq([i \in DOMAIN sources |-> Declared(sources[i])]), Realized)

-----------------------------------------------------------------------------
(* Sets, and the rules that refer to them *)

\* str::contains: a set whose name begins with this one's is found as well.
Names(val, set) == \E i \in DOMAIN val : val[i] \in Naming[set]

AllIpRules == UNION {ToSet(IpRules(s)) : s \in ToSet(sources)}

IpSetRefs(name) ==
    [rules |-> {r \in AllIpRules : Names(r.target, name) \/ Names(r.value, name)},
     groups |-> {g \in ToSet(RuleGroups) : \E i \in DOMAIN g.matchers : Names(g.matchers[i], name)}]

\* parse_routing_items: domain-rules are split in another way than the others.
RoutingItem(l) ==
    [type |-> l.key] @@ IF l.key = "domain-rules" THEN SplitTargetOptions(l.val)
                        ELSE SplitTargetValue(l.val)
RoutingItems ==
    {RoutingItem(l) : l \in {l \in UNION {ToSet(files[s.path]) : s \in ToSet(sources)} :
        l.val # <<>> /\ l.key \in {"nameserver", "domain-rules", "address", "cname"}}}

\* build_rule_set_assets
RuleSetRefs(name) == {r \in RoutingItems : Names(r.target, name)}

-----------------------------------------------------------------------------
(* Properties *)

Done == calls = <<>>

IncludedBy(s) ==
    LET lines == files[s.path] IN
    {Included(s.path, lines[i]) : i \in {i \in DOMAIN lines : Follows(s.path, lines[i])}}

\* collect_config_sources reads exactly what the configuration includes, each
\* file once for each group it is included with: it begins with smartdns.conf;
\* in the end, a file that is read includes no file that is not; and each but
\* the first is included by an earlier one.
SourcesExact ==
    /\ sources # <<>> /\ sources[1] = Source(Main, <<>>)
    /\ IsInjective(sources)
    /\ Done => \A s \in ToSet(sources) : IncludedBy(s) \subseteq ToSet(sources)
    /\ \A i \in 2..Len(sources) : \E j \in 1..(i - 1) : sources[i] \in IncludedBy(sources[j])

\* Files that include each other do not keep collect_config_sources busy.
WalkEnds == <>Done

Number(lines, key, a, b) == Cardinality({i \in a..b : lines[i].key = key})

\* No more groups are closed than opened between two lines.
NoSurplusEnd(lines, a, b) ==
    \A k \in a..b : Number(lines, "group-end", a, k) <= Number(lines, "group-begin", a, k)

\* The group-begin whose group a line is in, 0 when there is none.
Innermost(lines, i) ==
    LET open == {b \in 1..(i - 1) : lines[b].key = "group-begin" /\ NoSurplusEnd(lines, b + 1, i - 1)}
    IN Max(open \cup {0})

\* A rule is shown with the group it is in: the innermost that is open at its
\* line, or else the group with which its file is included.
GroupOfRules ==
    Done => \A s \in ToSet(sources) :
        LET lines == files[s.path]
            keys == {"client-rules"} \cup IpRuleKeys
            at == SelectSeq([i \in DOMAIN lines |-> i], LAMBDA i : lines[i].key \in keys)
            GroupAt(i) == IF Innermost(lines, i) # 0 THEN First(Words(lines[Innermost(lines, i)].val))
                          ELSE IF NoSurplusEnd(lines, 1, i - 1) THEN s.group ELSE <<>>
        IN GroupedLines(s, keys) = [k \in DOMAIN at |-> [line |-> lines[at[k]], group |-> GroupAt(at[k])]]

Balanced(lines) ==
    /\ NoSurplusEnd(lines, 1, Len(lines))
    /\ Number(lines, "group-end", 1, Len(lines)) = Number(lines, "group-begin", 1, Len(lines))

WellGrouped ==
    \A s \in ToSet(sources) :
        LET lines == files[s.path] IN
        /\ Balanced(lines)
        /\ \A i, j \in DOMAIN lines : /\ lines[i].key = "group-begin" /\ lines[j].key = "group-begin"
                                     /\ First(Words(lines[i].val)) = First(Words(lines[j].val))
                                     => i = j

\* The matches and the number of rules that are in group b of a file, and in no
\* group inside it; 0 stands for the group with which the file is included.
Right(g, lines, b) ==
    /\ g.count = Cardinality({i \in DOMAIN lines : Innermost(lines, i) = b /\
            lines[i].key \notin {"group-begin", "group-match", "group-end"}})
    /\ g.matchers = LET at == SelectSeq([i \in DOMAIN lines |-> i], LAMBDA i :
                                Innermost(lines, i) = b /\ lines[i].key = "group-match")
                    IN [k \in DOMAIN at |-> lines[at[k]].val]

SameGroup(g, h) == g.name = h.name /\ g.source = h.source /\ g.include = h.include

\* build_rule_group_assets: where the groups of each file are closed and have
\* names of their own, the first entry of a group has the matches and the number
\* of rules that are in it.  Any other entry is a line that declares a group and
\* is shown without contents: a conf-file line, whose group is counted in an
\* entry of the file it includes, or a group of a file that is read once more.
GroupsExact ==
    Done /\ WellGrouped =>
        LET first(g) == RuleGroups[SelectInSeq(RuleGroups, LAMBDA a : SameGroup(a, g))]
            Begins(s, b) == b \in DOMAIN files[s.path] /\ files[s.path][b].key = "group-begin"
            Heading(s, b) == IF b = 0 THEN Group(s.group, <<>>, s.path, <<s.path>>)
                             ELSE DeclaredGroup(s, files[s.path][b])
        IN /\ \A s \in ToSet(sources) : \A b \in 0..Len(files[s.path]) :
                Begins(s, b) \/ (b = 0 /\ s.group # <<>>) =>
                    Right(first(Heading(s, b)), files[s.path], b)
           /\ \A i \in DOMAIN RuleGroups : LET g == RuleGroups[i] IN
                \E s \in ToSet(sources) :
                    \/ g \in ToSet(Declared(s))
                       /\ (g.include # <<>> \/ \E j \in 1..(i - 1) : SameGroup(RuleGroups[j], g))
                    \/ \E b \in DOMAIN files[s.path] : Begins(s, b) /\ SameGroup(g, Heading(s, b))
                           /\ g.inherit = Heading(s, b).inherit /\ Right(g, files[s.path], b)
                    \/ s.group # <<>> /\ SameGroup(g, Heading(s, 0)) /\ Right(g, files[s.path], 0)

\* No set that is in use looks unused, and none is shown with a use that it has
\* not: what is shown with a set is the rules for addresses that name it, the
\* groups with a match that names it and the rules for domains that name it.
SetUsesShown ==
    Done /\ WellGrouped => \A name \in DOMAIN Naming :
        LET Use(s, i, keys) == /\ files[s.path][i].key \in keys
                               /\ Names(files[s.path][i].val, name)
            ShowsIp(r, l) == r.type = l.key /\ Words(r.target \o r.value) = Words(l.val)
            ShowsGroup(g, s, l) == g.source = s.path /\ l.val \in ToSet(g.matchers)
            ShowsRule(r, l) == r.type = l.key /\ IsPrefix(r.target, l.val)
            domains == {"nameserver", "domain-rules", "address", "cname"}
        IN /\ \A s \in ToSet(sources) : \A i \in DOMAIN files[s.path] :
                LET l == files[s.path][i] IN
                /\ Use(s, i, IpRuleKeys) => \E r \in IpSetRefs(name).rules : ShowsIp(r, l)
                /\ Use(s, i, {"group-match"}) /\ (s.group # <<>> \/ Innermost(files[s.path], i) # 0) =>
                     \E g \in IpSetRefs(name).groups : ShowsGroup(g, s, l)
                /\ Use(s, i, domains) => \E r \in RuleSetRefs(name) : ShowsRule(r, l)
           /\ LET uses(keys) == UNION {{<<s, i>> : i \in {i \in DOMAIN files[s.path] :
                                            Use(s, i, keys)}} : s \in ToSet(sources)}
                  line(u) == files[u[1].path][u[2]]
              IN /\ \A r \in IpSetRefs(name).rules : \E u \in uses(IpRuleKeys) : ShowsIp(r, line(u))
                 /\ \A g \in IpSetRefs(name).groups :
                        \E u \in uses({"group-match"}) : ShowsGroup(g, u[1], line(u))
                 /\ \A r \in RuleSetRefs(name) : \E u \in uses(domains) : ShowsRule(r, line(u))

\* What the overview lists is what the files say: each rule with its group, each
\* group once with its matches and number of rules, apart from the entries without
\* contents that GroupsExact names, and the uses of each set, no more and no less.
OverviewExact == GroupOfRules /\ GroupsExact /\ SetUsesShown
=============================================================================
