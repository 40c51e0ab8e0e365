------------------------------- MODULE Planes -------------------------------
(***************************************************************************)
(* The two routing planes together: the kernel plane of Pbr.tla and the     *)
(* sing-box route of Generator.tla, made from one profile by                *)
(* genOptionsWithPlan, under live connections, links that go down, DNS that *)
(* fills and empties kernel sets, and an apply that replaces the plan.  The *)
(* nft plane is OpenWrt's, the ipset plane Keenetic's.                      *)
(*                                                                          *)
(* Installing the plan is one step here; KernelPlane.tla and Apply.tla have *)
(* its commands and failures.                                               *)
(***************************************************************************)
EXTENDS Generator

CONSTANTS
    Packets,              \* what LAN clients send
    Flows,                \* those that are long-lived connections
    NextProfiles, StartModes,
    Resolved,             \* domain -> address
    Offload,              \* flow offload is configured
    MaxApplies            \* bound

(* A packet is of one family. *)
ASSUME PacketsAssumption ==
    \A k \in Packets : {k.src, k.dst} \subseteq Addr4 \/ {k.src, k.dst} \subseteq Addr6

VARIABLES
    prof, mode, plane,    \* the profile and mode in force, and the platform
    plan,                 \* the kernel plan installed
    ct,                   \* connmark of each flow
    off,                  \* flows the flowtable carries
    dns,                  \* <<zone, address>> that dnsmasq has added
    up,                   \* interfaces that are up
    applies

planesVars == <<prof, mode, plane, plan, ct, off, dns, up, applies>>

(* genOptionsWithPlan: only hybrid and fast have a kernel plan. *)
PlanFor(p, m, pl) == IF m \in {"hybrid", "fast"} THEN Compile(p, pl = "ipset") ELSE NoPlan

(* ... and what hybrid keeps out of the TUN. *)
Excluded_Scoped(p) ==
    LET pl == Compile(p, FALSE) IN
    pl.bypass \cup UNION {UNION (z.v4 \cup z.v6) :
                            z \in {y \in pl.zones : pl.egs[y.out].kind # "blackhole"}}
Excluded(p) ==
    LET pl == Compile(p, FALSE) IN
    pl.bypass \cup UNION {UNION (z.v4 \cup z.v6) :
                            z \in {y \in pl.zones : pl.egs[y.out].kind # "blackhole" /\ ~y.scoped}}

PlanesInit(p) ==
    /\ prof = p /\ mode \in StartModes /\ plane \in {"nft", "ipset"}
    /\ plan = PlanFor(prof, mode, plane)
    /\ ct = [f \in Flows |-> 0] /\ off = {} /\ dns = {}
    /\ up = DOMAIN prof.ep
    /\ applies = 0

MarkNow(pl, k, saved) == IF plane = "nft" THEN NftMark(pl, k, saved) ELSE IpsetMark(pl, k, saved, dns)

(* Both chains return early for a bypassed packet, nft also for a restored  *)
(* one; otherwise the mark is saved.                                        *)
Saved(f) == IF f.dst \in plan.bypass THEN ct[f] ELSE MarkNow(plan, f, ct[f])

(* wr_offload: general traffic only. *)
Offloads(f) == Offload /\ mode = "fast" /\ plane = "nft" /\ MarkNow(plan, f, ct[f]) = 0

Packet(f) ==
    /\ f \notin off /\ plan # NoPlan
    /\ ct' = [ct EXCEPT ![f] = Saved(f)]
    /\ off' = IF Offloads(f) THEN off \cup {f} ELSE off
    /\ UNCHANGED <<prof, mode, plane, plan, dns, up, applies>>

(* handleApply with another profile: the table is replaced, and the         *)
(* flowtable with it; connection marks stay.                                *)
Reapply(q) ==
    /\ q # prof /\ applies < MaxApplies
    /\ applies' = applies + 1
    /\ prof' = q /\ plan' = PlanFor(q, mode, plane)
    /\ off' = {} /\ dns' = {}
    /\ UNCHANGED <<mode, plane, ct, up>>

Link(i) ==
    /\ i \in DOMAIN prof.ep
    /\ up' = IF i \in up THEN up \ {i} ELSE up \cup {i}
    /\ UNCHANGED <<prof, mode, plane, plan, ct, off, dns, applies>>

(* DnsmasqIpsetConfig: a lookup puts the answer into the zone's set ... *)
Lookup(d) ==
    /\ plane = "ipset" /\ d \in DOMAIN Resolved
    /\ dns' = dns \cup {<<z.name, Resolved[d]>> : z \in {y \in plan.zones : d \in y.doms}}
    /\ UNCHANGED <<prof, mode, plane, plan, ct, off, up, applies>>

(* ... from which it expires. *)
Expire(e) ==
    /\ dns' = dns \ {e}
    /\ UNCHANGED <<prof, mode, plane, plan, ct, off, up, applies>>

PlanesNext ==
    \/ \E f \in Flows : Packet(f)
    \/ \E q \in NextProfiles : Reapply(q)
    \/ \E i \in DOMAIN prof.ep : Link(i)
    \/ \E d \in DOMAIN Resolved : Lookup(d)
    \/ \E e \in dns : Expire(e)

PlanesSpec == (\E p \in NextProfiles : PlanesInit(p)) /\ [][PlanesNext]_planesVars
-----------------------------------------------------------------------------
TagOf(pl, m) == CHOOSE t \in DOMAIN pl.egs : pl.egs[t].mark = m

(* Which outbound a fresh packet ends up on, all links being up.            *)
KernelOut(p, k) ==
    LET pl == Compile(p, FALSE)
        m == NftMark(pl, k, 0) IN
    IF m > WanMark /\ KernelRoute(pl, k, m, DOMAIN p.ep) # "main" THEN TagOf(pl, m) ELSE Direct

HybridOut(p, k) ==
    IF KernelOut(p, k) = Direct /\ k.dst \notin Excluded(p) THEN SingBoxRoute(p, TRUE, k)
    ELSE KernelOut(p, k)

(* What the profile says: the first rule, then the first list.              *)
RuleMeans(r, k) == ~r.default /\ RuleTakes(r, k) /\ (r.tags # {} => k.tag \in r.tags)
ListMeans(l, k) == ListTakes(l, k) \/ Covers(l.cache, k.dst)
Takers(p, k) == {r \in LiveRules(p) : RuleMeans(r, k)} \cup {l \in LiveLists(p) : ListMeans(l, k)}
Meant(p, k) ==
    IF k.dst \in endpointBypass(p) THEN Direct
    ELSE IF Takers(p, k) = {} THEN Final(p) ELSE (CHOOSE e \in Takers(p, k) : TRUE).out

(* Profiles whose entries do not contend for a packet, and ask of each plane*)
(* only what it can match: no port next to a kernel address, no MAC outside *)
(* the kernel plane, no IPv6 into a tunnel that is not known to carry it,   *)
(* and no server that only sing-box knows to go out directly.               *)
Plain(p) ==
    /\ \A k \in Packets :
          /\ \A e, f \in Takers(p, k) : e.out = f.out
          /\ k.dst \in endpointBypass(p) \ Bypass(p) => Takers(p, k) = {}
    /\ \A r \in LiveRules(p) : ~r.default =>
          /\ r.ports \cup r.dom # {} => r.ips = {} /\ ~HasSourceMatcher(r)
          /\ r.tags # {} => r.ips = {} /\ r.src = {} /\ (kernelEgress(p, r.out) \/ r.out = Block)
          /\ Carried(p, r.out, r.ips) = r.ips /\ Carried(p, r.out, r.src) = r.src
    /\ \A l \in LiveLists(p) :
          /\ Carried(p, l.out, l.ips \cup l.cache) = l.ips \cup l.cache
          /\ l.cache # {} => resolveEgress(p, l.out).kind # "none"

Routed == {k \in Packets : k.dst \notin Private}

NoPorts(p) == \A r \in LiveRules(p) : r.ports = {}

(* singbox.go: a rule is dropped from sing-box when "kernel-routed by pbr   *)
(* with IDENTICAL semantics": for a plain profile, hybrid mode sends every  *)
(* packet where the profile says, whichever plane takes it.  And            *)
(* DatapathNativeOnly "returns true ONLY when the kernel plane provably     *)
(* carries everything": without sing-box the profile is still honoured.     *)
ProfileHonoured ==
    Plain(prof) => \A k \in Routed :
        /\ mode = "hybrid" => HybridOut(prof, k) = Meant(prof, k)
        /\ DatapathNativeOnly(prof, mode) /\ NoPorts(prof) => KernelOut(prof, k) = Meant(prof, k)

(* No rule, list, final or reachable group of the config names an outbound  *)
(* that hybrid mode left out.                                               *)
RouteResolves ==
    LET hy == mode \in {"hybrid", "fast"}
        reach == IF hy THEN hybridReachable(prof) ELSE {} IN
    /\ Targets(prof, hy) \subseteq Outbounds(prof, hy)
    /\ (UNION {Members(prof, g) : g \in reach \cap Outbounds(prof, hy)}) \subseteq Outbounds(prof, hy)

(* hasV6 "MUST stay in exact lockstep with the wr_mark chain": a marked     *)
(* packet of a connection leaves by its tunnel, or is dropped; it reaches   *)
(* the main table only when the tunnel is down and is not kill-switched.    *)
(* A tunnel's own server is never sent into a tunnel, and a fresh packet    *)
(* takes the same way on both planes ("so both platforms route identically",*)
(* render_ipset.go).  A restored mark counts where the plan has rules for   *)
(* the family; hasV6 does not ask for connections of the plan before.       *)
MarkedIsCarried ==
    \A k \in Packets : \A saved \in {0} \cup {ct[f] : f \in {g \in Flows : g = k /\ (Is6(g) => hasV6(plan))}} :
        LET m == MarkNow(plan, k, saved) IN
        /\ m > WanMark /\ m \in Marks(plan) /\ k.dst \notin Private =>
             LET e == plan.egs[TagOf(plan, m)] IN
             KernelRoute(plan, k, m, up) \in
                {"drop"} \cup (IF e.iface \in up THEN {e.iface} ELSE IF e.closed THEN {} ELSE {"main"})
        /\ k.dst \in plan.bypass => KernelRoute(plan, k, m, up) = "main"
        /\ saved = 0 => KernelRoute(plan, k, NftMark(plan, k, 0), up)
                         = KernelRoute(plan, k, IpsetMark(plan, k, 0, {}), up)

(* A connection that was sent to a tunnel does not fall back to the WAN     *)
(* "mid-connection (a censored-traffic leak)" while the plan stays: not     *)
(* when its address leaves a set, and not by being offloaded.               *)
Sticky ==
    [][\A f \in Flows : plan' = plan /\ ct[f] \in Marks(plan) \ {WanMark} /\ f.dst \notin plan.bypass =>
          ct'[f] > WanMark /\ f \notin off']_planesVars
=============================================================================
