----------------------------- MODULE ConfigPages -----------------------------
(***************************************************************************)
(* What the configuration says before and after a save (config_ui.rs).     *)
(* smartdns.conf belongs to the administrator, who edits it by hand; the   *)
(* interface adds a managed block that includes its pages.  A client reads *)
(* the settings back from both (read_overview) and sends them again.       *)
(*                                                                         *)
(* A save is one step here: how its files are written, and what happens    *)
(* when saves overlap or fail, is the business of ConfigStore.             *)
(***************************************************************************)
EXTENDS BeginnerConfig, ManagedRules

CONSTANTS Mains,        \* what smartdns.conf may hold at first
          Requests,     \* the bodies of POST /api/plus/save: config and rules
          UserLines,    \* what the administrator may add to smartdns.conf
          None,
          MaxSaves, MaxEdits    \* bounds

\* Each marker that begins a block is followed by one that ends it.
WellMarked(text) ==
    \A i \in DOMAIN text : text[i] = Begin => \E j \in DOMAIN text : i < j /\ text[j] = End

\* The administrator leaves the markers alone.
ASSUME PagesAssumption ==
    /\ MaxSaves \in Nat /\ MaxEdits \in Nat
    /\ \A m \in Mains : m \in Seq(ToSet(m)) /\ WellMarked(m)
    /\ Begin \notin UserLines /\ End \notin UserLines

VARIABLES main, pages,  \* the lines of smartdns.conf and of each page
          config,       \* history: the settings last saved, or None
          rules,        \* history: the text of rules last saved, or None
          saves, edits
pagesVars == <<main, pages, config, rules, saves, edits>>

PageNames == {"service", "upstreams", "performance", "routing", "rules", "sets", "logging",
              "network"}
IncludeOrder == <<"service", "upstreams", "performance", "sets", "routing", "rules", "logging",
                  "network">>

-----------------------------------------------------------------------------
(* The managed block *)

ManagedBlock ==
    <<Begin>> \o Lines("conf-file", [i \in DOMAIN IncludeOrder |-> <<IncludeOrder[i]>>]) \o <<End>>

\* The first marker and the first end marker after it, 0 without one.
BlockStart(text) == SelectInSeq(text, LAMBDA l : l = Begin)
BlockEnd(text) ==
    IF BlockStart(text) = 0 THEN 0
    ELSE SelectInSubSeq(text, BlockStart(text), Len(text), LAMBDA l : l = End)

Before(text) == IF BlockEnd(text) = 0 THEN text ELSE SubSeq(text, 1, BlockStart(text) - 1)
After(text) == IF BlockEnd(text) = 0 THEN <<>> ELSE SubSeq(text, BlockEnd(text) + 1, Len(text))

\* Mutant: what follows the block is lost.
EnsureManagedBlockCut(text) == Before(text) \o ManagedBlock

EnsureManagedBlock(text) == Before(text) \o ManagedBlock \o After(text)

-----------------------------------------------------------------------------
(* Reading *)

RulesText == pages.routing \o pages.rules \o pages.sets

\* render_effective_config_preview: the pages in place of each block.  A block
\* without an end reaches to the end of the text.
EffectiveConfig ==
    LET all == pages.service \o pages.upstreams \o pages.performance \o RulesText
               \o pages.logging \o pages.network
        Preview(acc, l) ==
            CASE l = Begin -> [out |-> acc.out \o <<l>> \o all, in |-> TRUE]
              [] l = End /\ acc.in -> [out |-> Append(acc.out, l), in |-> FALSE]
              [] acc.in /\ l # End -> acc
              [] OTHER -> [acc EXCEPT !.out = Append(@, l)]
    IN FoldLeft(Preview, [out |-> <<>>, in |-> FALSE], main).out

\* read_overview: without a smartdns.conf, the pages count.
Overview ==
    ParseBeginnerConfig(
        IF main # <<>> THEN EffectiveConfig
        ELSE pages.service \o pages.performance \o pages.logging \o pages.network
             \o pages.upstreams \o RulesText)

-----------------------------------------------------------------------------
(* Saving *)

PagesInit ==
    /\ main \in Mains
    /\ pages = [p \in PageNames |-> <<>>]
    /\ config = None /\ rules = None
    /\ saves = 0 /\ edits = 0

RuleTexts(a) == [routing |-> RenderRoutingItemsText(a), rules |-> RenderRuleEntriesText(a),
                 sets |-> RenderSetsText(a)]

SettingTexts(c) == [service |-> RenderServiceConfig(c), upstreams |-> RenderUpstreamsConfig(c),
                    performance |-> RenderPerformanceConfig(c),
                    logging |-> RenderLoggingConfig(c), network |-> RenderNetworkConfig(c)]

\* save_beginner_config; nothing is written when the request is not valid.
SaveBeginnerConfig(c, text) ==
    /\ saves < MaxSaves
    /\ saves' = saves + 1
    /\ IF SettingsValid(c) /\ GroupsClosed(text)
       THEN /\ pages' = SettingTexts(c) @@ RuleTexts(ParseManagedAssets(text))
            /\ main' = EnsureManagedBlock(main)
            /\ config' = c /\ rules' = text
       ELSE UNCHANGED <<main, pages, config, rules>>
    /\ UNCHANGED edits

\* A client sends what it was given.
Resave == SaveBeginnerConfig(Overview, RulesText)

\* save_managed_assets, with the rules and sets that a text stands for.
SaveManagedAssets(text) ==
    LET a == ParseManagedAssets(text) IN
    /\ saves < MaxSaves
    /\ saves' = saves + 1
    /\ IF AssetsValid(a)
       THEN /\ pages' = RuleTexts(a) @@ pages
            /\ main' = EnsureManagedBlock(main)
            /\ rules' = text
       ELSE UNCHANGED <<main, pages, rules>>
    /\ UNCHANGED <<config, edits>>

ApplyWorkingConfig ==
    /\ main' = EnsureManagedBlock(main)
    /\ UNCHANGED <<pages, config, rules, saves, edits>>

\* The administrator adds a line in front or at the end.
EditMain(l) ==
    /\ edits < MaxEdits
    /\ edits' = edits + 1
    /\ main' \in {<<l>> \o main, Append(main, l)}
    /\ UNCHANGED <<pages, config, rules, saves>>

PagesNext ==
    \/ \E r \in Requests : SaveBeginnerConfig(r.config, r.rules)
    \/ Resave
    \/ \E r \in Requests : SaveManagedAssets(r.rules)
    \/ ApplyWorkingConfig
    \/ \E l \in UserLines : EditMain(l)

PagesSpec == PagesInit /\ [][PagesNext]_pagesVars

-----------------------------------------------------------------------------
(* Properties *)

\* The keys that smartdns.conf itself sets, and those it sets after the block.
OutsideKeys == {l.key : l \in ToSet(Before(main) \o After(main))}
AfterKeys == {l.key : l \in ToSet(After(main))}

SingleExtras == ToSet(RunKeys \o FileKeys \o CacheKeys \o TtlKeys \o ThresholdKeys \o LogKeys
                      \o AuditKeys \o NetworkKeys) \cup {"force-qtype-SOA"}
SwitchExtras == ToSet(RunSwitches \o LogSwitches \o AuditSwitches \o NetworkSwitches)
PageExtras == SingleExtras \cup SwitchExtras \cup ToSet(CertKeys) \cup ListKeys

HasTls(c) == SplitListExtra(c, "bind-tls") \o SplitListExtra(c, "bind-https") # <<>>

\* smartdns.conf outside the block belongs to the administrator: no save
\* changes, moves or loses a line of it.
UserLinesKept ==
    [][edits' = edits => /\ Before(main') = Before(main)
                         /\ After(main') = After(main)]_pagesVars

\* What a save makes of an extra: its value, of a switch yes or no, nothing
\* where it is empty, and nothing of a certificate key without a TLS listener.
ExtraSaved(k) ==
    CASE ~Has(config, k) \/ (k \in ToSet(CertKeys) /\ ~HasTls(config)) -> <<>>
      [] k \in SwitchExtras -> YesNo(ParseYesNo(config.extras[k], FALSE))
      [] OTHER -> config.extras[k]

ExtrasReadBack(read) ==
    /\ \A k \in (SingleExtras \cup SwitchExtras \cup ToSet(CertKeys)) \ AfterKeys :
         IF ExtraSaved(k) # <<>> THEN Has(read, k) /\ read.extras[k] = ExtraSaved(k)
         ELSE k \notin OutsideKeys => ~Has(read, k)
    /\ \A k \in ListKeys \ OutsideKeys : SplitListExtra(read, k) = SplitListExtra(config, k)
    /\ DOMAIN read.extras \subseteq PageExtras \cup OutsideKeys \cup {l.key : l \in ToSet(RulesText)}

UpstreamsReadBack(read) ==
    LET FirstGroup(list, g) == SelectSeq(list, LAMBDA u : u.value # <<>> /\ First(u.groups) = g)
        Kinds(list) == [i \in DOMAIN list |-> [list[i] EXCEPT !.kind = UpstreamKey(@)]]
    IN \A g \in {<<>>} \cup {<<w>> : w \in ToSet(GroupOrder)} :
          FirstGroup(read.upstreams, g) = Kinds(FirstGroup(config.upstreams, g))

\* The settings of a save are what is read back, as far as smartdns.conf does
\* not set them itself (after the block, or anywhere for lists): the name, the
\* addresses, each setting and switch with the value saved, or its default if
\* that was empty, and the servers of each group with all their options, in
\* order; one that was not saved is gone.  Two kinds of settings are not kept,
\* and the property says so: certificate keys without a TLS listener
\* (config_ui.rs:759), and directives that no page knows, which
\* read_overview collects all the same (config_ui.rs:1170): where neither
\* smartdns.conf nor the rules hold such a directive, it is not read back.
SavedReadBack ==
    config # None =>
    LET read == Overview IN
    /\ "server-name" \notin (IF config.name = <<>> THEN OutsideKeys ELSE AfterKeys) =>
         read.name = config.name
    /\ "bind" \notin OutsideKeys =>
         read.binds = IF config.binds = <<>> THEN <<<<"[::]:53">>>>
                      ELSE SelectSeq(config.binds, LAMBDA b : b # <<>>)
    /\ \A k \in DOMAIN ScalarDefault \ AfterKeys :
         read.scalar[k] = IF config.scalar[k] = <<>> THEN ScalarDefault[k] ELSE config.scalar[k]
    /\ \A k \in DOMAIN FlagDefault \ AfterKeys : read.flag[k] = config.flag[k]
    /\ ExtrasReadBack(read)
    /\ ServerKeys \cap OutsideKeys = {} => UpstreamsReadBack(read)

\* Reading the settings and saving them as they are rewrites nothing, so that
\* the file is neither written nor backed up again: the text of the pages is a
\* fixed point of reading and writing when smartdns.conf holds no settings.
PagesFixpoint ==
    config # None /\ OutsideKeys \subseteq {"plugin"} =>
    /\ \A p \in DOMAIN SettingTexts(config) : SettingTexts(Overview)[p] = pages[p]
    /\ \A p \in {"routing", "rules", "sets"} : RuleTexts(ParseManagedAssets(RulesText))[p] = pages[p]

\* A rule as the DNS server takes it: the target is between the first two
\* slashes, and the rest is the value.
SecondSlash(val) == SelectInSubSeq(val, 2, Len(val), LAMBDA x : x = "/")
Meaning(l) ==
    LET p == SecondSlash(l.val) IN
    [key |-> l.key, target |-> SubSeq(l.val, 1, p), value |-> Trim(SubSeq(l.val, p + 1, Len(l.val)))]
Meanings(lines, keys) ==
    LET rs == WithKeys(lines, keys) IN [i \in DOMAIN rs |-> Meaning(rs[i])]

\* The rules of a save mean in the pages what they meant in the text that was
\* saved, in the same order, and the sets are the same: for texts whose
\* values hold no slash, and where each nameserver has a group.
RulesKept ==
    rules # None /\ (\A l \in ToSet(WithKeys(rules, RoutingKeys)) :
                        /\ SecondSlash(l.val) > 0 /\ "/" \notin ToSet(Meaning(l).value)
                        /\ l.key = "nameserver" => Meaning(l).value # <<>>) =>
    /\ Meanings(RulesText, {"nameserver"}) = Meanings(rules, {"nameserver"})
    /\ Meanings(RulesText, RoutingKeys \ {"nameserver"}) = Meanings(rules, RoutingKeys \ {"nameserver"})
    /\ LET old == ParseManagedAssets(rules) new == ParseManagedAssets(RulesText) IN
       /\ new.domain_sets = old.domain_sets /\ new.ip_sets = old.ip_sets
       /\ [i \in DOMAIN new.ip_rules |-> [new.ip_rules[i] EXCEPT !.group = <<>>]]
          = [i \in DOMAIN old.ip_rules |-> [old.ip_rules[i] EXCEPT !.group = <<>>]]

\* Groups of rules, which the interface sends with the other rules, are kept.
GroupsKept == rules # None => ParseManagedAssets(RulesText).groups = ParseManagedAssets(rules).groups
=============================================================================
