------------------------------ MODULE MCPlanes ------------------------------
(* One instance of each model of the routing planes; part says which of    *)
(* them a behaviour is about, the others stand still.                      *)
(*   "still"     one initial state per profile of a large set, no steps;   *)
(*   "live"      a few profiles under connections, links, DNS and applies; *)
(*   "outbound"  one initial state per endpoint, no steps;                 *)
(*   "stream"    the command streams of MCKernelPlane.                     *)
EXTENDS MCKernelPlane, Planes, Outbound

CONSTANTS a, b, srv, c4, d4, x, c6, ext, awg, prx, wg, g1, g2, m1, m2, d1, d2, dx, p1, p2

VARIABLE part

mcVars == <<part, planesVars, outVars, vars>>

MCTagOrder == <<ext, awg, Block, g1, g2, prx, wg>>

K(src, dst, tag, dom, port) == [src |-> src, dst |-> dst, tag |-> tag, dom |-> dom, port |-> port]
MCFlows == {K(c4, a, m1, dx, p1), K(d4, b, m2, d1, p2)}
MCPackets == MCFlows \cup {K(c4, b, m1, dx, p2), K(d4, a, m2, dx, p2), K(c4, b, m1, d2, p2),
                           K(c4, srv, m1, dx, p1), K(c6, x, m1, dx, p1), K(c6, x, m2, d1, p2),
                           K(c4, d4, m1, dx, p1)}
MCResolved == [d \in {d1} |-> b]

E(engine, v6, server) == [engine |-> engine, on |-> TRUE, v6 |-> v6, server |-> server]
Eps == {[t \in {ext, wg} |-> IF t = ext THEN E("external", "unknown", srv) ELSE E("wireguard", "yes", Nobody)],
        [t \in {ext, awg} |-> IF t = ext THEN E("external", "unknown", srv) ELSE E("awg", "no", Nobody)]}
       \cup {[t \in {ext, awg, prx} |->
                CASE t = ext -> E("external", "unknown", srv) [] t = awg -> E("awg", v, Nobody)
                  [] t = prx -> E("vless", "unknown", s)] : v \in {"yes", "no"}, s \in {Nobody, b}}
NoGroups == [g \in {} |-> <<>>]
Grs == {[g \in {g1, g2} |-> IF g = g1 THEN [members |-> <<prx, awg>>, kill |-> TRUE]
                            ELSE [members |-> <<g1, prx>>, kill |-> FALSE]]}

R(id, ips, dom, ports, src, tags, default, disabled, out) ==
    [id |-> id, ips |-> ips, dom |-> dom, ports |-> ports, src |-> src, tags |-> tags,
     default |-> default, disabled |-> disabled, out |-> out]
L(id, ips, doms, remote, cache, enabled, out) ==
    [id |-> id, ips |-> ips, doms |-> doms, remote |-> remote, cache |-> cache,
     enabled |-> enabled, out |-> out]

Ips == {{}, {{a}}, {{a}, {a, srv}}, {{x}}, {{a}, {x}}}
Rule1(outs) ==
    {R(2, i, d, p, sr, t, FALSE, FALSE, o) :
        i \in Ips, d \in {{}, {d1}}, p \in {{}, {p1}}, sr \in {{}, {{c4}}, {{c6}}}, t \in {{}, {m1}}, o \in outs}
Rules1(outs) == {r \in Rule1(outs) : (r.dom = {} \/ r.ips = {}) /\ HasMatch(r)}
Rule2(outs) ==
    {<<R(1, {}, {}, {}, {}, {}, TRUE, FALSE, o)>> : o \in outs}
    \cup {<<>>} \cup {<<R(1, {{b}}, {}, {}, {}, {}, FALSE, FALSE, o)>> : o \in outs}
List1(outs) ==
    {<<>>} \cup {<<L(1, {{b}}, {}, {}, {}, TRUE, o)>> : o \in outs}
    \cup {<<L(1, {}, {d1}, {}, {}, TRUE, o)>> : o \in outs}
    \cup {<<L(1, {}, {}, {d2}, {{b}, {x}}, TRUE, o)>> : o \in outs}

P(e, g, rs, ls) == [ep |-> e, gr |-> g, rules |-> rs, lists |-> ls]
GroupsFor(e) == IF prx \in DOMAIN e THEN Grs ELSE {NoGroups}
Outs(e, g) == {Direct, Block} \cup DOMAIN e \cup DOMAIN g
Simple(outs) == {R(2, i, {}, {}, sr, {}, FALSE, FALSE, o) : i \in {{{a}}}, sr \in {{}, {{c4}}}, o \in outs}
Still ==
    \E e \in Eps : \E g \in GroupsFor(e) :
        LET outs == Outs(e, g) IN
        \/ \E r1 \in Rules1(outs), r2 \in Rule2({Block, ext}) :
              PlanesInit(P(e, g, <<r1>> \o r2, <<>>))
        \/ \E r1 \in Simple(outs), r2 \in Rule2(outs), l \in List1(outs) :
              PlanesInit(P(e, g, <<r1>> \o r2, l))

Full == CHOOSE e \in Eps : prx \in DOMAIN e /\ e[awg].v6 = "yes" /\ e[prx].server = Nobody
Live ==
    {P(Full, g, <<R(2, i, {}, {}, {{c4}}, {}, FALSE, FALSE, o)>>,
       <<L(1, j, {d1}, {}, {}, TRUE, q)>>) :
        i \in {{}, {{a}}}, j \in {{}, {{b}}}, g \in Grs, o \in {ext, g1}, q \in {awg, Block}}

-----------------------------------------------------------------------------
(* Endpoints: each protocol with every class of each of its parameters over *)
(* plain TLS, and with every TLS block and transport over good parameters.  *)
Block0 == [on |-> TRUE, alpn |-> {}, reality |-> FALSE, key |-> "none", sid |-> "none", finger |-> "none", fragment |-> FALSE]
TlsBlocks ==
    {NoTls} \cup {[Block0 EXCEPT !.alpn = al, !.fragment = fr, !.finger = fi] :
                   al \in SUBSET {"h2", "http/1.1", "h3", "h3-29"}, fr \in BOOLEAN, fi \in {"none", "alias", "bad"}}
    \cup {[Block0 EXCEPT !.reality = TRUE, !.key = ke, !.sid = si, !.fragment = fr, !.finger = fi] :
            ke \in {"none", "good", "alt", "bad"}, si \in {"none", "good", "bad"}, fr \in BOOLEAN, fi \in {"none", "good", "bad"}}
PeerLists == {<<>>} \cup UNION {[1..n -> [server : BOOLEAN, key : {"good", "alt", "bad"}, psk : {"none", "alt", "bad"}]] : n \in 1..2}
Ep(pr, par, tls, tr, hint, peers) ==
    [proto |-> pr, par |-> par, tls |-> tls, transport |-> tr, hint |-> hint, peers |-> peers]
GoodPar(pr) == [f \in ParamsOf(pr) |-> "good"]
MCEndpoints ==
    \E pr \in Protos :
       \/ \E par \in [ParamsOf(pr) -> Classes(pr)], tls \in {NoTls, Block0} : end = Ep(pr, par, tls, "", FALSE, <<>>)
       \/ \E tls \in TlsBlocks, tr \in {"", "other"} \cup Transports, hint \in BOOLEAN :
             end = Ep(pr, GoodPar(pr), tls, tr, hint, <<>>)
       \/ pr = "wireguard" /\ \E peers \in PeerLists : end = Ep(pr, GoodPar(pr), NoTls, "", FALSE, peers)
Plainest == Ep("trojan", GoodPar("trojan"), Block0, "", FALSE, <<>>)
Smallest == P(Full, NoGroups, <<>>, <<>>)
-----------------------------------------------------------------------------
MCInit ==
    \/ part = "still" /\ Still /\ plane = "nft" /\ end = Plainest /\ Init
    \/ part = "live" /\ (\E p \in Live : PlanesInit(p)) /\ mode = "fast" /\ end = Plainest /\ Init
    \/ part = "outbound" /\ PlanesInit(Smallest) /\ mode = "tun" /\ plane = "nft" /\ MCEndpoints /\ Init
    \/ part = "stream" /\ PlanesInit(Smallest) /\ mode = "tun" /\ plane = "nft" /\ end = Plainest /\ Init
MCNext ==
    \/ part = "live" /\ PlanesNext /\ UNCHANGED <<part, end, vars>>
    \/ part = "stream" /\ Next /\ UNCHANGED <<part, planesVars, outVars>>
MCSpec == MCInit /\ [][MCNext]_mcVars
=============================================================================
