------------------------------- MODULE Migrate -------------------------------
(***************************************************************************)
(* What a cutover of a Keenetic router is made of: the keen-pbr config and  *)
(* the tunnels found on the device become a profile, the profile a sing-box *)
(* config with kernel bypasses (PrepareCutover) or a kernel plan            *)
(* (BuildKernelPlan).  keenetic/import_keenpbr.go, migrate.go, preflight.go,*)
(* assemble.go, dns.go, prepare.go, kpbr_build.go.                          *)
(*                                                                          *)
(* Routing lists are a set: no entry is in two lists, so their order tells  *)
(* nothing.  A list names one source.  The catalog's .srs of a list has the *)
(* list's entries.  What is left of a sequence keeps its positions.         *)
(***************************************************************************)
EXTENDS Naturals, Sequences, SequencesExt, Functions

CONSTANTS
    KeenConfigs,  \* keen-pbr configs: [lists: id -> kpList, rules: sequence of kpRule]
    Files,        \* file -> the entries in it
    FeedBody,     \* url -> its lines, [form, v]
    CIDRUrls,     \* the urls that look like an IP feed
    Catalog,      \* list ids with a catalog .srs
    IPs,          \* the entries that are addresses or prefixes
    PeerHost,     \* number of a Wireguard interface -> its peer, "" for none
    HostNames,    \* peers named by a host name, not an address
    MgmtNumber,   \* Wireguard2
    RemapIds      \* choices of RemapKeentestTo, "" among them

VARIABLES
    minput,  \* what pre-flight read
    prep,    \* PrepareCutover's answer
    kplan    \* BuildKernelPlan's answer

migVars == <<minput, prep, kplan>>

Pending == [ok |-> FALSE, why |-> "pending"]
Refused(why) == [ok |-> FALSE, why |-> why]

(* The elements of a sequence that are in a set, and the first, "" if none. *)
Among(f, S) == Restrict(f, {i \in DOMAIN f : f[i] \in S})
First(f) == IF DOMAIN f = {} THEN "" ELSE f[CHOOSE i \in DOMAIN f : \A j \in DOMAIN f : i <= j]
-----------------------------------------------------------------------------
(* LiveAdoptInterfaces: endpoint -> N of its nwgN.                          *)
LiveAdoptInterfaces == [keentest |-> 3, netherlands |-> 1, nd_vps |-> 0, nl_failover |-> 5]
Native == DOMAIN LiveAdoptInterfaces

liveEndpoints == <<"keentest", "netherlands", "nd_vps", "nl_failover", "hy2_main", "vless_main">>
liveGroups ==
    [blocked_rf        |-> <<"keentest", "nd_vps">>,
     failover_with_wan |-> <<"keentest", "netherlands", "nd_vps">>,
     failover_strict   |-> <<"keentest", "netherlands", "nd_vps">>,
     default_3tier     |-> <<"hy2_main", "nl_failover", "vless_main", "direct">>]
LiveProfile == [eps |-> liveEndpoints, groups |-> liveGroups, lists |-> {}, default |-> "default_3tier"]

keenPBROutboundMap ==
    [keentest |-> "blocked_rf", auto_failover_with_wan |-> "failover_with_wan",
     auto_failover_strict |-> "failover_strict", auto_failover_soft |-> "failover_with_wan"]
Mapped(ob) == IF ob \in DOMAIN keenPBROutboundMap THEN keenPBROutboundMap[ob] ELSE ob

(* The last rule that names the list decides; none: disabled, no outbound.  *)
Assigned(cfg, id) ==
    LET rs == SelectSeq(cfg.rules, LAMBDA r : id \in r.list)
    IN IF rs = <<>> THEN [out |-> "", on |-> FALSE]
       ELSE [out |-> Mapped(Last(rs).outbound), on |-> Last(rs).enabled]

(* References to a missing endpoint are sent to an endpoint; a list in use  *)
(* goes somewhere, and not to the default tier, which ends on the WAN; a    *)
(* list file has lines.                                                     *)
ASSUME MigrateAssumption ==
    /\ RemapIds \subseteq {""} \cup Range(liveEndpoints)
    /\ \A cfg \in KeenConfigs : \A id \in DOMAIN cfg.lists :
         Assigned(cfg, id).on => Assigned(cfg, id).out \notin {"", "default_3tier"}
    /\ \A f \in DOMAIN Files : Files[f] # {}

isCIDRFeedURL(u) == u \in CIDRUrls

(* The lists of one keen-pbr list: two when it has both domains and CIDRs.  *)
RoutingLists(cfg, id) ==
    LET l == cfg.lists[id]
        a == Assigned(cfg, id)
        List(tag, src, feed, manual) ==
            [id |-> <<id, tag>>, src |-> src, feed |-> feed, manual |-> manual, srs |-> FALSE, out |-> a.out, on |-> a.on]
    IN CASE l.url # "" /\ isCIDRFeedURL(l.url)  -> {List("", "", l.url, {})}
         [] l.url # "" /\ ~isCIDRFeedURL(l.url) -> {List("", l.url, "", {})}
         [] l.url = "" /\ l.file # "" -> {List("", "", "", IF l.file \in DOMAIN Files THEN Files[l.file] ELSE {})}
         [] OTHER -> {List("", "", "", l.domains), List(IF l.domains = {} THEN "" ELSE "_ip", "", "", l.cidrs)}
                        \ {List(tag, "", "", {}) : tag \in {"", "_ip"}}
ImportKeenPBR(cfg) == UNION {RoutingLists(cfg, id) : id \in DOMAIN cfg.lists}

(* A list no rule names routes nothing and is dropped.                      *)
Active(cfg) == {l \in ImportKeenPBR(cfg) : l.out # ""}

applyCatalogSRS(ls) == {[l EXCEPT !.srs = l.src # "" /\ l.id[1] \in Catalog] : l \in ls}
-----------------------------------------------------------------------------
(* parseWireguardEndpoints gives the numbers of the live interfaces; by     *)
(* number they are matched with the endpoints.                              *)
ReconcileAdopt(live) == {e \in Native : LiveAdoptInterfaces[e] \notin live}   \* missing

BypassHosts(live) == {PeerHost[n] : n \in live \ {MgmtNumber}} \ {""}

(* The rest of its order, "any other External endpoint", is empty here.     *)
firstLiveTunnel_None(miss) == ""
firstLiveTunnel(miss) == First(Among(<<"netherlands", "nd_vps", "nl_failover", "keentest">>, Native \ miss))

(* Each member where it is first named.                                     *)
Distinct(ms) == Restrict(ms, {i \in DOMAIN ms : \A j \in DOMAIN ms : j < i => ms[j] # ms[i]})

remapMissing(p, miss, to) ==
    LET re(x) == IF x \in miss THEN to ELSE x
    IN [eps     |-> Among(p.eps, Range(p.eps) \ miss),
        groups  |-> [g \in DOMAIN p.groups |-> Distinct([i \in DOMAIN p.groups[g] |-> re(p.groups[g][i])])],
        lists   |-> {[l EXCEPT !.out = re(@)] : l \in p.lists},
        default |-> p.default]

(* The part of Profile.Validate a migrated profile can fail.                *)
Resolvable(p) == Range(p.eps) \cup DOMAIN p.groups \cup {"direct", "block"}
Validate(p) ==
    /\ \A g \in DOMAIN p.groups : Range(p.groups[g]) \subseteq Resolvable(p) /\ Range(p.groups[g]) # {}
    /\ \A l \in p.lists : l.out \in Resolvable(p) /\ (l.src # "" \/ l.feed # "" \/ l.manual # {})
    /\ p.default \in Resolvable(p)

BuildProfile(cfg, live, remapTo) ==
    LET p    == [LiveProfile EXCEPT !.lists = applyCatalogSRS(Active(cfg))]
        miss == ReconcileAdopt(live)
        to   == IF remapTo = "" THEN "netherlands" ELSE remapTo
        alt  == firstLiveTunnel(miss)
    IN remapMissing(p, miss, IF to \in miss /\ alt # "" THEN alt ELSE to)
-----------------------------------------------------------------------------
(* Comments, and the v2fly forms a suffix set cannot say, are left out.     *)
ParseDomainFeed(body) == {body[i].v : i \in {j \in DOMAIN body : body[j].form \in {"plain", "domain", "full"}}}

InlineCIDRSources(ls) ==
    {IF l.feed = "" THEN l ELSE [l EXCEPT !.feed = "", !.manual = @ \cup ParseDomainFeed(FeedBody[l.feed])] : l \in ls}
InlineDomainSources(ls) ==
    {IF l.src = "" \/ l.srs THEN l ELSE [l EXCEPT !.src = "", !.manual = @ \cup ParseDomainFeed(FeedBody[l.src])] : l \in ls}
Fetched(ls) == ({l.feed : l \in ls} \cup {l.src : l \in {m \in ls : ~m.srs}}) \ {""}
Inlined(p) == [p EXCEPT !.lists = InlineDomainSources(InlineCIDRSources(@))]

dohDetourFor(p, remapTo) ==
    LET native == Among(p.eps, Native)
    IN CASE "netherlands" \in Range(p.eps) -> "netherlands"
         [] "netherlands" \notin Range(p.eps) /\ remapTo \in Range(p.eps) -> remapTo
         [] OTHER -> First(IF DOMAIN native # {} THEN native ELSE p.eps)

hasDomain(entries) == ~(entries \subseteq IPs)
censoredRuleSetTags(p) ==
    {<<"rs", l.id>> : l \in {m \in p.lists : m.on /\ m.src # ""}}
        \cup {<<"rsm", l.id>> : l \in {m \in p.lists : m.on /\ hasDomain(m.manual)}}

(* The generator's rules for the lists: one per enabled list with content.  *)
ListRules(p) ==
    {[id |-> l.id, remote |-> l.src # "", srs |-> l.srs, entries |-> l.manual, out |-> l.out] :
         l \in {m \in p.lists : m.on /\ (m.src # "" \/ m.manual # {})}}

fakeipDNS(p, doh) == [detour |-> doh, fakeip |-> censoredRuleSetTags(p)]

(* The placeholder proxies whose live outbound was found get its parameters.*)
RealOutbounds == [hy2_main |-> "hy2-main", vless_main |-> "vless-main"]
SubstituteRealOutbounds(eps, tags) == {e \in Range(eps) \cap DOMAIN RealOutbounds : RealOutbounds[e] \in tags}

AssembleSingboxConfig(p, doh, tags) ==
    [ok |-> TRUE, why |-> "", eps |-> Range(p.eps), groups |-> p.groups, rules |-> ListRules(p),
     final |-> p.default, dns |-> fakeipDNS(p, doh), real |-> SubstituteRealOutbounds(p.eps, tags)]

(* The bypass: literal peers found, and what the daemon resolved of others. *)
Bypass(in) == in.extra \cup (BypassHosts(in.live) \ HostNames)

PrepareCutover(in) ==
    LET p   == BuildProfile(in.cfg, in.live, in.remap)
        q   == Inlined(p)
        doh == dohDetourFor(q, in.remap)
    IN IF in.live = {} THEN Refused("no tunnels")
       ELSE IF ~Validate(p) THEN Refused("invalid")
       ELSE IF Fetched(p.lists) \cap in.dead # {} THEN Refused("fetch")
       ELSE IF doh \notin Range(q.eps) \cup DOMAIN q.groups THEN Refused("detour")
       ELSE [plan |-> AssembleSingboxConfig(q, doh, in.tags), bypass |-> Bypass(in), ok |-> TRUE, why |-> ""]

(* BuildKernelPlan remaps without a fallback, keeps no .srs, and drops the  *)
(* lists that came out empty.                                               *)
BuildKernelPlan(in) ==
    LET to  == IF in.remap = "" THEN "netherlands" ELSE in.remap
        p   == remapMissing([LiveProfile EXCEPT !.lists = Active(in.cfg)], ReconcileAdopt(in.live), to)
        q   == Inlined(p)
        r   == [q EXCEPT !.lists = {l \in @ : l.manual # {}}]
    IN IF in.live = {} THEN Refused("no tunnels")
       ELSE IF Fetched(p.lists) \cap in.dead # {} THEN Refused("fetch")
       ELSE IF ~Validate(r) THEN Refused("invalid")
       ELSE [ok |-> TRUE, why |-> "", eps |-> Range(r.eps), groups |-> r.groups, rules |-> ListRules(r), bypass |-> Bypass(in)]
-----------------------------------------------------------------------------
Inputs ==
    [cfg : KeenConfigs, live : SUBSET DOMAIN PeerHost, remap : RemapIds,
     dead : {{}, DOMAIN FeedBody}, extra : {{}, {PeerHost[MgmtNumber]}}, tags : {{}, {"hy2-main", "vless-main"}}]

MigInit == minput \in Inputs /\ prep = Pending /\ kplan = Pending

PreFlight == prep = Pending /\ prep' = PrepareCutover(minput) /\ UNCHANGED <<minput, kplan>>
KernelPreFlight == kplan = Pending /\ kplan' = BuildKernelPlan(minput) /\ UNCHANGED <<minput, prep>>

MigNext == PreFlight \/ KernelPreFlight
MigSpec == MigInit /\ [][MigNext]_migVars
-----------------------------------------------------------------------------
(* What keen-pbr itself routes by a list.                                   *)
KeenEntries(l) ==
    IF l.url # "" THEN ParseDomainFeed(FeedBody[l.url])
    ELSE IF l.file # "" THEN IF l.file \in DOMAIN Files THEN Files[l.file] ELSE {}
    ELSE l.domains \cup l.cidrs

(* Pre-flight found a tunnel, the feeds answer, and the keen-pbr config is  *)
(* one whose outbounds Velinx knows and whose files are there.              *)
Fit(in) ==
    /\ \E e \in Native : LiveAdoptInterfaces[e] \in in.live
    /\ in.dead = {}
    /\ \A id \in DOMAIN in.cfg.lists :
         Assigned(in.cfg, id).out \in {""} \cup Resolvable(LiveProfile)
    /\ \A id \in DOMAIN in.cfg.lists : in.cfg.lists[id].file \in {""} \cup DOMAIN Files

(* Every group has members, all live, and every enabled list's entries go   *)
(* where its keen-pbr rule sends them, or to a live tunnel where that one   *)
(* is gone; no plain-text list is left for sing-box to fetch.               *)
RoutesAlike(in, c) ==
    /\ \A g \in DOMAIN c.groups : Range(c.groups[g]) # {} /\ Range(c.groups[g]) \subseteq c.eps \cup {"direct"}
    /\ \A e \in c.eps \cap Native : LiveAdoptInterfaces[e] \in in.live
    /\ \A r \in c.rules : r.remote => r.srs
    /\ \A id \in DOMAIN in.cfg.lists :
         LET a == Assigned(in.cfg, id)
         IN a.on => \A e \in KeenEntries(in.cfg.lists[id]) : \E r \in c.rules :
              /\ r.id[1] = id /\ (e \in r.entries \/ r.srs)
              /\ r.out = a.out \/ (a.out \in Native \ c.eps /\ r.out \in c.eps)
              /\ a.out \in DOMAIN c.groups => "direct" \notin Range(c.groups[a.out])

(* "one down primary self-heals instead of failing the cutover": whatever   *)
(* tunnels are gone, as long as one is there, PrepareCutover succeeds; the  *)
(* config it builds routes every list as keen-pbr did, over live tunnels    *)
(* and never over the WAN; every domain of a list resolves to a fake        *)
(* address, DoH leaves by a live endpoint, and the peers of live tunnels    *)
(* keep their way around the TUN.  What BuildKernelPlan builds, when it     *)
(* builds it, routes the lists the same way.                                *)
SelfHeals ==
    /\ prep # Pending /\ Fit(minput) => prep.ok
    /\ prep.ok =>
        /\ RoutesAlike(minput, prep.plan)
        /\ prep.plan.dns.detour \in prep.plan.eps
        /\ \A r \in prep.plan.rules : r.remote \/ hasDomain(r.entries) =>
              prep.plan.dns.fakeip \cap {<<"rs", r.id>>, <<"rsm", r.id>>} # {}
        /\ \A n \in minput.live \ {MgmtNumber} : PeerHost[n] \in {""} \cup HostNames \cup prep.bypass
    /\ kplan.ok => RoutesAlike(minput, kplan) /\ \A r \in kplan.rules : ~r.remote
=============================================================================
