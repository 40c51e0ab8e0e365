------------------------------ MODULE Outbound ------------------------------
(***************************************************************************)
(* internal/generator, outboundFor and endpointFor: one endpoint of the     *)
(* profile as an outbound of the shared sing-box config.  The config loads  *)
(* all or nothing, so one value sing-box does not know takes all routing    *)
(* down: the generator drops optional values it does not know, and          *)
(* Validate refuses bad mandatory ones.                                     *)
(*                                                                          *)
(* A value is reduced to its class:                                         *)
(*   "none", "good", "bad" (sing-box refuses it), "blank" (good between     *)
(*   blanks), "alt" (a key in an encoding that sing-box does not read).     *)
(* An endpoint is [proto, par, tls, transport, hint, peers]; par gives the  *)
(* class of each parameter, hint is the "?ed=N" of a path.                  *)
(***************************************************************************)
EXTENDS Naturals, Sequences, SequencesExt, FiniteSets

VARIABLE end             \* the endpoint in hand

NoTls == [on |-> FALSE]
Quic == {"tuic", "hysteria2"}
transportCapable == {"vless", "vmess", "trojan"}
tlsCapable == transportCapable \cup Quic \cup {"http", "anytls"}
Transports == {"ws", "grpc", "http", "httpupgrade"}

(* The endpoints a profile may hold.  WireGuard keys are not trimmed: one    *)
(* with blanks around it is "bad".                                          *)
Protos == {"vless", "vmess", "trojan", "anytls", "shadowsocks", "hysteria2", "tuic", "socks", "http", "wireguard"}
ParamsOf(pr) ==
    CASE pr = "vless" -> {"flow", "packet_encoding"}
      [] pr = "vmess" -> {"security"}
      [] pr = "shadowsocks" -> {"method", "password", "plugin"}
      [] pr = "hysteria2" -> {"obfs", "obfs_password", "hop_ports"}
      [] pr = "tuic" -> {"uuid", "udp_over_stream", "udp_relay_mode", "congestion_control", "heartbeat"}
      [] pr = "wireguard" -> {"private_key", "peer_public_key", "pre_shared_key"}
      [] OTHER -> {}
Classes(pr) == IF pr = "wireguard" THEN {"none", "good", "bad", "alt"} ELSE {"none", "good", "bad", "blank"}
TlsBlock ==
    [on : {TRUE}, alpn : SUBSET STRING, reality : BOOLEAN, key : {"none", "good", "alt", "bad"},
     sid : {"none", "good", "bad"}, finger : {"none", "good", "alias", "bad"}, fragment : BOOLEAN]
Endpoints(pr) ==
    [proto : {pr}, par : [ParamsOf(pr) -> Classes(pr)], tls : {NoTls} \cup TlsBlock, transport : STRING,
     hint : BOOLEAN, peers : Seq([server : BOOLEAN, key : {"good", "alt", "bad"}, psk : {"none", "good", "alt", "bad"}])]

(* model.missingProtoParam and invalidProtoParam; both trim first.          *)
Mandatory(proto) ==
    CASE proto = "tuic" -> {"uuid"}
      [] proto = "shadowsocks" -> {"method", "password"}
      [] proto = "wireguard" -> {"private_key", "peer_public_key"}
      [] OTHER -> {}
missingProtoParam(e) == {f \in Mandatory(e.proto) : e.par[f] = "none"}
invalidProtoParam(e) ==
    IF e.proto = "wireguard" THEN {} ELSE {f \in Mandatory(e.proto) : e.par[f] = "bad"}
Valid(e) == missingProtoParam(e) = {} /\ invalidProtoParam(e) = {}
-----------------------------------------------------------------------------
(* safeEnum and its kin (ParseDuration > 0, singBoxPortRange): a value that *)
(* is not known is dropped.                                                 *)
Safe(e, f) == e.par[f] = "good"
Known(e, fs) == {f \in fs : Safe(e, f)}

Vision(e) == IF e.tls.on /\ e.transport = "" THEN Known(e, {"flow"}) ELSE {}
Udp(e) == IF Safe(e, "udp_over_stream") THEN {"udp_over_stream"} ELSE Known(e, {"udp_relay_mode"})
Obfs_Alone(e) == Known(e, {"obfs"})
Obfs(e) == IF Safe(e, "obfs") /\ e.par["obfs_password"] # "none" THEN {"obfs", "obfs_password"} ELSE {}

(* The fields outboundFor emits beside server and credentials. *)
Fields(e) ==
    CASE e.proto = "vless" -> Vision(e) \cup Known(e, {"packet_encoding"})
      [] e.proto = "vmess" -> Known(e, {"security"})
      [] e.proto = "shadowsocks" -> Mandatory(e.proto) \cup Known(e, {"plugin"})
      [] e.proto = "hysteria2" -> Obfs(e) \cup Known(e, {"hop_ports"})
      [] e.proto = "tuic" -> Mandatory(e.proto) \cup Udp(e) \cup Known(e, {"congestion_control", "heartbeat"})
      [] OTHER -> {}

(* transportJSON: an unknown type is copied; httpupgrade only loses the     *)
(* hint, ws turns it into max_early_data.                                   *)
transportJSON(e) ==
    IF e.transport = "" \/ e.proto \notin transportCapable THEN [type |-> ""]
    ELSE [type |-> e.transport, early |-> e.transport = "ws" /\ e.hint,
          query |-> e.hint /\ e.transport \notin {"ws", "httpupgrade"}]

(* tlsJSON *)
validRealityPubKey(c) == c \in {"good", "alt"}
Finger(t, reality) == IF t.finger \in {"good", "alias"} THEN {"good"} ELSE IF reality THEN {"good"} ELSE {}
tlsJSON(t) ==
    LET reality == t.reality /\ validRealityPubKey(t.key) IN
    [on |-> TRUE, alpn |-> t.alpn, reality |-> reality, key |-> "good",
     sid |-> IF reality /\ t.sid = "good" THEN {"good"} ELSE {},
     utls |-> Finger(t, reality), fragment |-> t.fragment /\ ~reality]

(* The four passes over ALPN in outboundFor.  They look at the transport of *)
(* the endpoint, emitted or not.                                            *)
H3 == {"h3", "h3-29"}
AlpnQuic(e, a) == IF e.proto # "tuic" THEN a ELSE IF a \cap H3 = {} THEN {"h3"} ELSE a \cap H3
AlpnUpgrade(e, a) == IF e.transport \in {"ws", "httpupgrade"} THEN a \ {"h2"} ELSE a
AlpnH2(e, a) == IF e.transport \in {"grpc", "http"} THEN a \cap {"h2"} ELSE a
AlpnTcp(e, a) == IF e.proto \in Quic THEN a ELSE a \ {"h3"}
Alpn(e) == AlpnTcp(e, AlpnH2(e, AlpnUpgrade(e, AlpnQuic(e, e.tls.alpn))))

Tls(e) ==
    IF ~e.tls.on \/ e.proto \notin tlsCapable THEN NoTls
    ELSE [tlsJSON(e.tls) EXCEPT !.alpn = Alpn(e)]

outboundFor(e) ==
    [proto |-> e.proto, fields |-> [f \in Fields(e) |-> e.par[f]],
     transport |-> transportJSON(e), tls |-> Tls(e)]
-----------------------------------------------------------------------------
(* endpointFor: a bad own key fails the apply; a peer that cannot work is   *)
(* dropped, and a list of fewer than two is not used at all.                *)
validWGKey(c) == c \in {"good", "alt"}
normalizeWGKey(c) == IF validWGKey(c) THEN "good" ELSE c

wgPeer(q) == [key |-> normalizeWGKey(q.key), psk |-> normalizeWGKey(q.psk)]
wgPeers(e) ==
    LET ok == {i \in DOMAIN e.peers : e.peers[i].server /\ validWGKey(e.peers[i].key)}
    IN [i \in ok |-> wgPeer(e.peers[i])]

endpointFails(e) == ~validWGKey(e.par["private_key"]) \/ ~validWGKey(e.par["peer_public_key"])
endpointFor(e) ==
    [proto |-> "wireguard", key |-> normalizeWGKey(e.par["private_key"]),
     peers |-> IF Cardinality(DOMAIN wgPeers(e)) > 1 THEN wgPeers(e)
               ELSE <<[key |-> normalizeWGKey(e.par["peer_public_key"]),
                       psk |-> normalizeWGKey(e.par["pre_shared_key"])]>>]
-----------------------------------------------------------------------------
(* What sing-box 1.12 does with an outbound, as the comments of the         *)
(* generator describe it: Loads is the decoder, Connects the run time.      *)
LoadsTls(t) ==
    t.on => (t.reality => t.key = "good" /\ t.utls # {}) /\ (t.sid # {} => t.reality)
Loads(o) ==
    IF o.proto = "wireguard"
    THEN o.key = "good" /\ \A q \in Range(o.peers) : q.key = "good" /\ q.psk \in {"good", "none"}
    ELSE /\ \A f \in DOMAIN o.fields \ {"obfs_password"} : o.fields[f] = "good"
         /\ "obfs" \in DOMAIN o.fields => "obfs_password" \in DOMAIN o.fields
         /\ ~({"udp_over_stream", "udp_relay_mode"} \subseteq DOMAIN o.fields)
         /\ o.transport.type # "" => o.proto \in transportCapable /\ o.transport.type \in Transports
         /\ o.tls.on => o.proto \in tlsCapable
         /\ LoadsTls(o.tls)

AlpnFits(o) ==
    o.tls.on =>
        /\ o.proto = "tuic" => o.tls.alpn # {} /\ o.tls.alpn \subseteq H3
        /\ o.proto \in transportCapable => "h3" \notin o.tls.alpn
        /\ o.transport.type \in {"ws", "httpupgrade"} => "h2" \notin o.tls.alpn
        /\ o.transport.type \in {"grpc", "http"} => o.tls.alpn \subseteq {"h2"}
Connects(o) ==
    /\ AlpnFits(o)
    /\ "flow" \in DOMAIN o.fields => o.tls.on /\ o.transport.type = ""
    /\ o.transport.type \in {"ws", "httpupgrade"} => ~o.transport.query
    /\ o.tls.on /\ o.tls.reality => ~o.tls.fragment
-----------------------------------------------------------------------------
outVars == <<end>>

(* Inputs with which the generator is known to emit a value sing-box        *)
(* refuses: blanks around a mandatory value (trimmed when validated, not    *)
(* when emitted), a pre-shared key that is none, an unknown transport.      *)
Ordinary(e) ==
    /\ \A f \in Mandatory(e.proto) : e.par[f] # "blank"
    /\ e.transport \in {""} \cup Transports
    /\ e.proto = "wireguard" =>
         e.par["pre_shared_key"] # "bad" /\ \A q \in Range(e.peers) : q.psk # "bad"

(* "Drop, don't brick": whatever optional values an endpoint carries, what  *)
(* Generate emits for it loads, or the apply is refused; and it can connect:*)
(* the combinations that pass "sing-box check" and then fail every          *)
(* connection are not emitted.                                              *)
NeverBricks ==
    Valid(end) /\ Ordinary(end) =>
        IF end.proto = "wireguard" THEN endpointFails(end) \/ Loads(endpointFor(end))
        ELSE /\ Loads(outboundFor(end))
             /\ (end.transport # "" => end.proto \in transportCapable) => Connects(outboundFor(end))
=============================================================================
