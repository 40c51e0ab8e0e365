----------------------------- MODULE Generator -----------------------------
(***************************************************************************)
(* internal/generator: the sing-box config made from a profile, as far as   *)
(* routing goes (Outbound.tla has the outbounds themselves), the split of   *)
(* hybrid mode, and DatapathNativeOnly.  Profiles and packets are those of  *)
(* Pbr.tla; a list also has doms and remote (what its rule-set URL covers). *)
(***************************************************************************)
EXTENDS Pbr

kernelEgress(p, t) ==
    \/ IsEndpoint(p, t) /\ kernelIface(p, t) # Nobody
    \/ IsGroup(p, t) /\ KernelMembers(p, t) # {}

ipOnlyKernelRule(r) ==
    r.ips # {} /\ r.dom = {} /\ r.ports = {} /\ r.src = {} /\ r.tags = {}

(* What hybrid mode leaves to the kernel: the same tests in hybridReachable,*)
(* routeFrom and routingFrom.                                               *)
KernelRule(p, r) == ~r.default /\ kernelEgress(p, r.out) /\ ipOnlyKernelRule(r)
KernelList(p, l) == kernelEgress(p, l.out) /\ l.remote = {} /\ l.doms = {} /\ l.ips # {}

LiveRules(p) == {r \in Range(p.rules) : ~r.disabled}
LiveLists(p) == {l \in Range(p.lists) : l.enabled}

Roots_NoDefault(p) ==
    ({r.out : r \in {x \in LiveRules(p) : ~x.default /\ ~KernelRule(p, x)}}
     \cup {l.out : l \in {x \in LiveLists(p) : ~KernelList(p, x)}}) \ {Direct, Block}
Roots(p) ==
    ({r.out : r \in {x \in LiveRules(p) : ~KernelRule(p, x)}}
     \cup {l.out : l \in {x \in LiveLists(p) : ~KernelList(p, x)}}) \ {Direct, Block}

Members(p, t) == IF IsGroup(p, t) THEN Range(p.gr[t].members) ELSE {}

(* What visit reaches from the roots: the least set that holds them and,    *)
(* with a group, its members.                                               *)
hybridReachable(p) ==
    LET roots == Roots(p)
        tags == roots \cup UNION {Members(p, g) : g \in DOMAIN p.gr}
        closed == {S \in SUBSET tags : roots \subseteq S /\ \A t \in S : Members(p, t) \subseteq S}
    IN {t \in tags : \A S \in closed : t \in S}
-----------------------------------------------------------------------------
(* Generate: the outbound tags it emits. *)
Outbounds(p, hybrid) ==
    LET kept == IF hybrid THEN hybridReachable(p) ELSE DOMAIN p.ep \cup DOMAIN p.gr IN
    {Direct}
    \cup {t \in DOMAIN p.ep : p.ep[t].on /\ (p.ep[t].engine \in KernelEngines => t \in kept)}
    \cup {g \in DOMAIN p.gr : kernelEgress(p, g) => g \in kept}

(* routeFrom, as the places of the rules it emits; one without a matcher    *)
(* that sing-box knows is not.                                              *)
HasMatch(r) == r.ips \cup r.src \cup r.dom \cup r.ports # {}
routeFrom(p, hybrid) ==
    {i \in DOMAIN p.rules : LET r == p.rules[i] IN
        ~r.disabled /\ ~r.default /\ ~(hybrid /\ KernelRule(p, r)) /\ HasMatch(r)}

(* routingFrom, likewise; the cache is not in the rule-set.                 *)
routingFrom(p, hybrid) ==
    {i \in DOMAIN p.lists : LET l == p.lists[i] IN
        l.enabled /\ ~(hybrid /\ KernelList(p, l)) /\ l.ips \cup l.doms \cup l.remote # {}}

Defaults(p) == {r.out : r \in {x \in LiveRules(p) : x.default}}
Final(p) == IF Defaults(p) = {} THEN Direct ELSE CHOOSE t \in Defaults(p) : TRUE

(* The tags that rules, lists and the final refer to. *)
Targets(p, hybrid) ==
    ({p.rules[i].out : i \in routeFrom(p, hybrid)} \cup {p.lists[i].out : i \in routingFrom(p, hybrid)}
     \cup {Final(p)}) \ {Block}

(* endpointBypass: every enabled endpoint's own address, ahead of all rules. *)
endpointBypass(p) == {p.ep[t].server : t \in {x \in DOMAIN p.ep : p.ep[x].on}} \ {Nobody}

(* sing-box: the first match decides, a list that rejects being ahead of    *)
(* those that route.  Blocking by default is a last rule.                   *)
RuleTakes(r, k) ==
    /\ r.ips # {} => Covers(r.ips, k.dst)
    /\ r.dom # {} => k.dom \in r.dom
    /\ r.ports # {} => k.port \in r.ports
    /\ r.src # {} => Covers(r.src, k.src)
ListTakes(l, k) == Covers(l.ips, k.dst) \/ k.dom \in l.doms \cup l.remote

SingBoxRoute(p, hybrid, k) ==
    LET rs == {i \in routeFrom(p, hybrid) : RuleTakes(p.rules[i], k)}
        ls == {i \in routingFrom(p, hybrid) : ListTakes(p.lists[i], k)} IN
    CASE k.dst \in endpointBypass(p) -> Direct
      [] k.dst \notin endpointBypass(p) /\ rs # {} -> p.rules[Min(rs)].out
      [] k.dst \notin endpointBypass(p) /\ rs = {} /\ ls # {} ->
             IF \E i \in ls : p.lists[i].out = Block THEN Block ELSE p.lists[Min(ls)].out
      [] OTHER -> Final(p)
-----------------------------------------------------------------------------
(* native_only.go *)
EndpointNeedsSingbox(e) == e.engine \notin KernelEngines \cup {"wireguard"}

ProfileNativeOnly(p) ==
    LET on == {t \in DOMAIN p.ep : p.ep[t].on} IN
    on # {} /\ \A t \in on : ~EndpointNeedsSingbox(p.ep[t])

DatapathNativeOnly(p, mode) ==
    /\ ProfileNativeOnly(p) /\ mode = "fast"
    /\ \A r \in Range(p.rules) : r.default => r.out = Direct
    /\ hybridReachable(p) = {}
    /\ \A r \in Range(p.rules) : r.dom = {}
    /\ \A l \in LiveLists(p) : l.remote = {} /\ l.doms = {}
    /\ (\E t \in DOMAIN p.ep : p.ep[t].on /\ p.ep[t].engine = "external") =>
          /\ \A r \in Range(p.rules) : V6(r.ips) = {}
          /\ \A l \in LiveLists(p) : V6(l.ips \cup l.cache) = {}
=============================================================================
