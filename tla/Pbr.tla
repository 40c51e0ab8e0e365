-------------------------------- MODULE Pbr --------------------------------
(***************************************************************************)
(* internal/pbr: the compiler from a profile to the kernel plane, and what  *)
(* the rendered nftables, ipset and ip-rule text does to a packet.          *)
(*                                                                          *)
(* A CIDR is the set of addresses it covers.  A profile p holds             *)
(*   ep   endpoint -> [engine, on, v6, server]    (v6: local_address says)  *)
(*   gr   group    -> [members, kill]                                       *)
(*   rules, lists  sequences, in the order of the profile; id is the place  *)
(*                 of the entry's name in the alphabet.                     *)
(* A rule's tags stand for its MAC and ingress matchers, which match        *)
(* whatever the family; dom is everything that matches by name; source      *)
(* ports are left out.  An interface has the name of its endpoint.  A       *)
(* zone's name is its kind and the id; addZone's renaming of clashes keeps  *)
(* names distinct.                                                          *)
(***************************************************************************)
EXTENDS Naturals, Sequences, SequencesExt, FiniteSets, FiniteSetsExt

CONSTANTS
    Addr4, Addr6,
    Private,         \* LAN addresses, of both families
    Direct, Block,
    Nobody,          \* no server address, no outbound, no interface
    TagOrder         \* outbound tags in alphabetical order

ASSUME PbrAssumption ==
    /\ IsFiniteSet(Addr4) /\ IsFiniteSet(Addr6) /\ Addr4 \cap Addr6 = {} /\ Private \subseteq Addr4 \cup Addr6
    /\ Nobody \notin Addr4 \cup Addr6
    /\ Direct # Block /\ TagOrder \in Seq(Range(TagOrder))

V4(cs) == {c \in cs : c \subseteq Addr4}
V6(cs) == {c \in cs : c \subseteq Addr6}
Covers(cs, a) == \E c \in cs : a \in c

(* collapsePrefixes: an interval set must have no overlaps. *)
collapsePrefixes(cs) == {c \in cs : \A d \in cs : c \subseteq d => c = d}

KernelEngines == {"external", "awg"}
IsEndpoint(p, t) == t \in DOMAIN p.ep
IsGroup(p, t) == t \in DOMAIN p.gr

kernelIface(p, t) ==
    IF IsEndpoint(p, t) /\ p.ep[t].engine \in KernelEngines THEN t ELSE Nobody

(* resolveEgress.  Only the endpoints among a group's members are looked at.*)
KernelMembers(p, g) == {i \in DOMAIN p.gr[g].members : kernelIface(p, p.gr[g].members[i]) # Nobody}
FirstKernelMember(p, g) ==
    LET ks == KernelMembers(p, g)
    IN p.gr[g].members[CHOOSE i \in ks : \A j \in ks : i <= j]

resolveEgress(p, t) ==
    CASE t = Direct -> [kind |-> "wan", iface |-> Nobody]
      [] t = Block  -> [kind |-> "blackhole", iface |-> Nobody]
      [] IsEndpoint(p, t) /\ kernelIface(p, t) # Nobody -> [kind |-> "interface", iface |-> t]
      [] IsGroup(p, t) /\ KernelMembers(p, t) # {} ->
             [kind |-> "interface", iface |-> FirstKernelMember(p, t)]
      [] OTHER -> [kind |-> "none", iface |-> Nobody]

egressV4OnlyPosture(p, t) ==
    IsEndpoint(p, t) /\ \/ p.ep[t].engine = "external"
                        \/ p.ep[t].engine = "awg" /\ p.ep[t].v6 = "no"

(* What Compile strips before it builds a zone for outbound t: IPv6, and    *)
(* with it whatever is no address at all.                                   *)
Strips(p, t) == resolveEgress(p, t).kind = "interface" /\ egressV4OnlyPosture(p, t)
Carried(p, t, cs) == IF Strips(p, t) THEN V4(cs) ELSE cs
-----------------------------------------------------------------------------
(* addZone: none, or one.  doms is empty unless CollectDomainZones. *)
addZone(name, out, cs, doms, src, tags) ==
    IF cs = {} /\ doms = {} /\ src = {} /\ tags = {} THEN {}
    ELSE {[name |-> name, out |-> out,
           v4 |-> collapsePrefixes(V4(cs)),  v6 |-> collapsePrefixes(V6(cs)),
           s4 |-> collapsePrefixes(V4(src)), s6 |-> collapsePrefixes(V6(src)),
           doms |-> doms, tags |-> tags, scoped |-> src # {} \/ tags # {}]}

HasSourceMatcher(r) == r.src # {} \/ r.tags # {}

RuleZones(p, r) ==
    IF r.disabled \/ r.default \/ (r.ips = {} /\ ~HasSourceMatcher(r))
       \/ resolveEgress(p, r.out).kind = "none"
    THEN {}
    ELSE addZone(<<2, r.id>>, r.out, Carried(p, r.out, r.ips), {}, Carried(p, r.out, r.src), r.tags)

ListZones(p, l, collect) ==
    IF ~l.enabled \/ resolveEgress(p, l.out).kind = "none" THEN {}
    ELSE addZone(<<1, l.id>>, l.out, Carried(p, l.out, l.ips \cup l.cache),
                 IF collect /\ ~Strips(p, l.out) THEN l.doms ELSE {}, {}, {})

Zones(p, collect) ==
    (UNION {RuleZones(p, r) : r \in Range(p.rules)})
    \cup (UNION {ListZones(p, l, collect) : l \in Range(p.lists)})

(* Every enabled kernel endpoint's own server goes out by the WAN. *)
Kernels(p) == {t \in DOMAIN p.ep : p.ep[t].on /\ kernelIface(p, t) # Nobody}
Bypass(p) == {p.ep[t].server : t \in Kernels(p)} \ {Nobody}

(* Marks are numbered by tag; mark 1 is the WAN and 0 is unmarked. *)
WanMark == 1
Place(t) == CHOOSE i \in DOMAIN TagOrder : TagOrder[i] = t
MarkOf(used, t) ==
    IF t = Direct THEN WanMark
    ELSE 1 + Cardinality({u \in used \ {Direct} : Place(u) <= Place(t)})

Egress(p, used, t) ==
    [kind |-> resolveEgress(p, t).kind, iface |-> resolveEgress(p, t).iface,
     mark |-> MarkOf(used, t),
     closed |-> resolveEgress(p, t).kind = "interface" /\ IsGroup(p, t) /\ p.gr[t].kill]

Compile(p, collect) ==
    LET zs == Zones(p, collect)
        used == {z.out : z \in zs} \cup {Direct} IN
    [zones |-> zs, bypass |-> Bypass(p), masq |-> Kernels(p),
     egs |-> [t \in used |-> Egress(p, used, t)]]

NoPlan == [zones |-> {}, bypass |-> {}, masq |-> {}, egs |-> << >>]
-----------------------------------------------------------------------------
(* A packet is [src, dst, tag, dom, port]. *)
Is6(k) == k.dst \in Addr6

(* One zone's lines of wr_mark, with the cross-family guard. *)
SrcOk(z, k) ==
    LET s == IF Is6(k) THEN z.s6 ELSE z.s4 IN
    /\ z.s4 \cup z.s6 # {} => s # {} /\ Covers(s, k.src)
    /\ z.tags # {} => k.tag \in z.tags

DstOk(z, k) == Covers(IF Is6(k) THEN z.v6 ELSE z.v4, k.dst)
NoDst(z) == z.v4 = {} /\ z.v6 = {}

NftMatch(z, k) == SrcOk(z, k) /\ (DstOk(z, k) \/ (NoDst(z) /\ z.scoped))

(* The mangle chain of RenderIptablesScript; dns is what dnsmasq has put in *)
(* the set of a zone.                                                       *)
IpsetMatch(z, k, dns) ==
    IF z.scoped THEN SrcOk(z, k) /\ (DstOk(z, k) \/ NoDst(z))
    ELSE DstOk(z, k) \/ (~Is6(k) /\ <<z.name, k.dst>> \in dns)

Before(n, m) == n[1] < m[1] \/ (n[1] = m[1] /\ n[2] < m[2])
LastZone(zs) == CHOOSE z \in zs : \A y \in zs \ {z} : Before(y.name, z.name)
ZoneMark(pl, zs, else) == IF zs = {} THEN else ELSE pl.egs[LastZone(zs).out].mark

Marks(pl) == {pl.egs[t].mark : t \in DOMAIN pl.egs}

(* RenderNft: bypass, then the saved mark of the connection, then zones.    *)
NftMark(pl, k, saved) ==
    CASE k.dst \in pl.bypass -> WanMark
      [] k.dst \notin pl.bypass /\ saved \in Marks(pl) -> saved
      [] OTHER -> ZoneMark(pl, {z \in pl.zones : NftMatch(z, k)}, 0)

(* RenderIptablesScript: the saved mark is only where the zones start from. *)
IpsetMark_NoRestore(pl, k, saved, dns) ==
    IF k.dst \in pl.bypass THEN 0
    ELSE ZoneMark(pl, {z \in pl.zones : IpsetMatch(z, k, dns)}, 0)
IpsetMark(pl, k, saved, dns) ==
    IF k.dst \in pl.bypass THEN 0
    ELSE ZoneMark(pl, {z \in pl.zones : IpsetMatch(z, k, dns)}, saved)

(* hasV6 gates the "ip -6" rules. *)
hasV6_ByDst(pl) == (pl.bypass \cap Addr6) # {} \/ \E z \in pl.zones : z.v6 # {}
hasV6(pl) ==
    \/ (pl.bypass \cap Addr6) # {}
    \/ \E z \in pl.zones :
         \/ z.v6 # {} \/ z.s6 # {}
         \/ z.scoped /\ NoDst(z) /\ z.s4 = {} /\ z.s6 = {}

(* RenderIP: where a packet that carries mark m goes; up are the live       *)
(* interfaces.  A table whose route is flushed falls through to main, unless*)
(* it fails closed.                                                         *)
Table(pl, e, k, up) ==
    CASE e.kind = "blackhole" -> "drop"
      [] e.kind = "interface" /\ e.iface \in up -> IF e.iface \in pl.masq THEN e.iface ELSE "lost"
      [] e.kind = "interface" /\ e.iface \notin up -> IF e.closed THEN "drop" ELSE "main"
      [] OTHER -> "main"

KernelRoute(pl, k, m, up) ==
    LET es == {t \in DOMAIN pl.egs : pl.egs[t].mark = m /\ t # Direct} IN
    IF k.dst \in Private \/ es = {} \/ (Is6(k) /\ ~hasV6(pl)) THEN "main"
    ELSE Table(pl, pl.egs[CHOOSE t \in es : TRUE], k, up)
=============================================================================
