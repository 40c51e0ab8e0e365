-------------------------------- MODULE Share -------------------------------
(***************************************************************************)
(* Endpoints that are handed on: a link, a .conf or a clash proxy is        *)
(* imported (internal/importer), the endpoint is shared with a phone as a   *)
(* link or .conf, or with a clash client as a proxy of the subscription     *)
(* (internal/exporter), and imported again by another panel.                *)
(*                                                                          *)
(* A text is [scheme, user, pass, q]: q gives the value of each key that is *)
(* set, whether it is a query, a VMess JSON, a .conf or the folded keys of  *)
(* a clash proxy.  The escaping, base64 and YAML around them, names, ports  *)
(* and the host are left out.  "" is what is not set.                       *)
(***************************************************************************)
EXTENDS Naturals, Sequences

CONSTANT Texts           \* what clients and providers hand out

VARIABLES given, stored, shared, again   \* the text, the endpoint, its text, the endpoint again

shareVars == <<given, stored, shared, again>>

NoEp == [proto |-> ""]
NoText == [scheme |-> ""]
NoTransport == [type |-> "", path |-> "", host |-> "", svc |-> ""]
PlainText == [on |-> FALSE, type |-> "", sni |-> "", finger |-> "", key |-> "", sid |-> "",
              alpn |-> "", insecure |-> FALSE]

Get(q, k) == IF k \in DOMAIN q THEN q[k] ELSE ""
FirstNonEmpty(vs) ==
    LET ne == {i \in DOMAIN vs : vs[i] # ""}
    IN IF ne = {} THEN "" ELSE vs[CHOOSE i \in ne : \A j \in ne : i <= j]
Spelled(q, ks) == FirstNonEmpty([i \in DOMAIN ks |-> Get(q, ks[i])])
truthy(v) == v \in {"1", "true", "yes"}

(* The keys and values of the pairs that are set, as setIf keeps them. *)
Pairs(ps) == LET set == {p \in ps : p[2] # ""} IN
    [k \in {p[1] : p \in set} |-> (CHOOSE p \in set : p[1] = k)[2]]
Bit(b) == IF b THEN "1" ELSE ""
Flag(p, k) == Bit(k \in DOMAIN p)

Endpoint(proto, par, tr, tls) == [proto |-> proto, par |-> Pairs(par), transport |-> tr, tls |-> tls]
buildURI(scheme, user, pass, q) == [scheme |-> scheme, user |-> user, pass |-> pass, q |-> Pairs(q)]
-----------------------------------------------------------------------------
(* Import of links. *)
insecureFromQuery(q) == \E k \in {"allowInsecure", "insecure", "allow_insecure"} : truthy(Get(q, k))

transportFromQuery(q) ==
    LET t == Get(q, "type") IN
    CASE t = "grpc" -> [NoTransport EXCEPT !.type = "grpc",
                           !.svc = Spelled(q, <<"serviceName", "service_name", "servicename">>)]
      [] t \in {"ws", "http", "h2", "httpupgrade"} ->
             [NoTransport EXCEPT !.type = IF t = "h2" THEN "http" ELSE t,
                                 !.path = Get(q, "path"), !.host = Get(q, "host")]
      [] OTHER -> NoTransport

tlsFromQuery(q, defaultOn) ==
    LET sec == IF Get(q, "security") = "" /\ defaultOn THEN "tls" ELSE Get(q, "security")
        tls == [PlainText EXCEPT !.on = TRUE, !.finger = Get(q, "fp"), !.alpn = Get(q, "alpn")]
    IN CASE sec = "reality" -> [tls EXCEPT !.type = "reality", !.sni = Get(q, "sni"),
                                           !.key = Get(q, "pbk"), !.sid = Get(q, "sid")]
         [] sec \in {"tls", "xtls"} -> [tls EXCEPT !.type = "tls", !.insecure = insecureFromQuery(q),
                                           !.sni = FirstNonEmpty(<<Get(q, "sni"), Get(q, "host"), "server">>)]
         [] OTHER -> PlainText

(* The QUIC protocols: always TLS, no fingerprint. *)
QuicTls(q) == [PlainText EXCEPT !.on = TRUE, !.type = "tls", !.alpn = Get(q, "alpn"),
                  !.sni = FirstNonEmpty(<<Get(q, "sni"), "server">>), !.insecure = insecureFromQuery(q)]

parseVLESS(l) ==
    Endpoint("vless", {<<"uuid", l.user>>, <<"flow", Get(l.q, "flow")>>,
                       <<"packet_encoding", Spelled(l.q, <<"packetEncoding", "packet_encoding">>)>>},
             transportFromQuery(l.q), tlsFromQuery(l.q, FALSE))
parseTrojan(l) ==
    Endpoint("trojan", {<<"password", l.user>>}, transportFromQuery(l.q), tlsFromQuery(l.q, TRUE))
parseAnyTLS(l) ==
    Endpoint("anytls", {<<"password", l.user>>}, NoTransport, tlsFromQuery(l.q, TRUE))

(* A password in the link's own "user:pass" form is one value. *)
parseHysteria2(l) ==
    Endpoint("hysteria2",
        {<<"password", IF l.pass = "" THEN l.user ELSE "user:pass">>, <<"obfs", Get(l.q, "obfs")>>,
         <<"obfs_password", IF Get(l.q, "obfs") = "" THEN "" ELSE Get(l.q, "obfs-password")>>,
         <<"hop_ports", Spelled(l.q, <<"mport", "ports">>)>>},
        NoTransport, QuicTls(l.q))
parseTUIC(l) ==
    Endpoint("tuic",
        {<<"uuid", l.user>>, <<"password", l.pass>>} \cup
        {<<k, Get(l.q, k)>> : k \in {"congestion_control", "udp_relay_mode", "heartbeat"}} \cup
        {<<k, Bit(truthy(Get(l.q, k)))>> : k \in {"zero_rtt_handshake", "udp_over_stream"}},
        NoTransport, QuicTls(l.q))

parseVMess(l) ==
    LET q   == l.q
        net == IF Get(q, "net") = "h2" THEN "http" ELSE Get(q, "net")
        tr  == [type |-> net, path |-> Get(q, "path"), host |-> Get(q, "host"),
                svc |-> IF net = "grpc" THEN Get(q, "path") ELSE ""]
        tls == [PlainText EXCEPT !.on = TRUE, !.type = "tls", !.finger = Get(q, "fp"), !.alpn = Get(q, "alpn"),
                   !.sni = FirstNonEmpty(<<Get(q, "sni"), Get(q, "host"), "server">>),
                   !.insecure = truthy(Get(q, "allowInsecure"))]
    IN Endpoint("vmess", {<<"uuid", Get(q, "id")>>, <<"alter_id", FirstNonEmpty(<<Get(q, "aid"), "0">>)>>,
                          <<"security", FirstNonEmpty(<<Get(q, "scy"), "auto">>)>>},
                IF net \in {"ws", "grpc", "http", "httpupgrade"} THEN tr ELSE NoTransport,
                IF Get(q, "tls") = "tls" \/ truthy(Get(q, "tls")) THEN tls ELSE PlainText)

(* opt.x stands for the x of "plugin=name;x=...". *)
PluginOpts == {"opt.obfs", "opt.obfs-host", "opt.mode", "opt.host", "opt.path", "opt.tls", "opt.mux"}
parseShadowsocks(l) ==
    Endpoint("shadowsocks",
        {<<"method", l.user>>, <<"password", l.pass>>, <<"plugin", Get(l.q, "plugin")>>,
         <<"udp_over_tcp", Bit(\E k \in {"udp-over-tcp", "udp_over_tcp", "uot"} : truthy(Get(l.q, k)))>>} \cup
        (IF Get(l.q, "plugin") = "" THEN {} ELSE {<<k, Get(l.q, k)>> : k \in PluginOpts}),
        NoTransport, PlainText)

parseWireGuardURL(l) ==
    Endpoint("wireguard",
        {<<"private_key", l.user>>, <<"peer_public_key", Get(l.q, "publickey")>>,
         <<"pre_shared_key", Get(l.q, "presharedkey")>>,
         <<"persistent_keepalive", Spelled(l.q, <<"keepalive", "persistentkeepalive">>)>>,
         <<"local_address", Get(l.q, "address")>>, <<"reserved", Get(l.q, "reserved")>>, <<"mtu", Get(l.q, "mtu")>>},
        NoTransport, PlainText)

(* Every [Peer] is kept; the first one also in the keys of a single peer. *)
parseConf(l) ==
    Endpoint("wireguard",
        {<<"private_key", Get(l.q, "privatekey")>>, <<"peer_public_key", Get(l.q, "publickey")>>,
         <<"pre_shared_key", Get(l.q, "presharedkey")>>,
         <<"persistent_keepalive", Get(l.q, "persistentkeepalive")>>,
         <<"local_address", Get(l.q, "address")>>, <<"reserved", Get(l.q, "reserved")>>, <<"mtu", Get(l.q, "mtu")>>,
         <<"peers", IF Get(l.q, "peer2") = "" THEN "one" ELSE "two">>},
        NoTransport, PlainText)

Parse(l) ==
    CASE l.scheme = "vless" -> parseVLESS(l)
      [] l.scheme = "trojan" -> parseTrojan(l)
      [] l.scheme = "anytls" -> parseAnyTLS(l)
      [] l.scheme \in {"hysteria2", "hy2"} -> parseHysteria2(l)
      [] l.scheme = "tuic" -> parseTUIC(l)
      [] l.scheme = "vmess" -> parseVMess(l)
      [] l.scheme = "ss" -> parseShadowsocks(l)
      [] l.scheme \in {"wireguard", "wg"} -> parseWireGuardURL(l)
      [] l.scheme = "[Interface]" -> parseConf(l)
-----------------------------------------------------------------------------
(* Import of clash proxies. *)
wsHost(p) == Spelled(p, <<"ws-opts.headers.Host", "ws-opts.headers.host", "ws-headers.Host", "ws-host">>)

clashTransport(p) ==
    LET n == Get(p, "network") IN
    CASE n = "ws" -> [NoTransport EXCEPT !.type = n, !.path = Spelled(p, <<"ws-opts.path", "ws-path">>), !.host = wsHost(p)]
      [] n = "httpupgrade" -> [NoTransport EXCEPT !.type = n, !.path = Get(p, "ws-opts.path"), !.host = wsHost(p)]
      [] n = "grpc" -> [NoTransport EXCEPT !.type = n,
             !.svc = Spelled(p, <<"grpc-opts.grpc-service-name", "grpc-service-name", "grpc-opts.serviceName">>)]
      [] n \in {"http", "h2"} -> [NoTransport EXCEPT !.type = "http",
             !.path = Spelled(p, <<"http-opts.path", "h2-opts.path", "ws-opts.path">>),
             !.host = FirstNonEmpty(<<Spelled(p, <<"h2-opts.host", "http-opts.headers.Host">>), wsHost(p)>>)]
      [] OTHER -> NoTransport

clashTLSEnabled(p) == truthy(Get(p, "tls"))
clashTLSDefaultOn(p) == Get(p, "tls") \notin {"false", "0", "no"}
clashInsecure(p) ==
    \E k \in {"skip-cert-verify", "skip_cert_verify", "allowInsecure", "insecure", "allow_insecure"} : truthy(Get(p, k))

(* The plain TLS block; each protocol has its own order of fallbacks for    *)
(* the server name.                                                         *)
ClashTls(p, names) ==
    [PlainText EXCEPT !.on = TRUE, !.type = "tls", !.sni = FirstNonEmpty(names),
        !.finger = Spelled(p, <<"client-fingerprint", "fingerprint">>),
        !.insecure = clashInsecure(p), !.alpn = Get(p, "alpn")]
NameFirst(p) == <<Get(p, "servername"), Get(p, "sni"), wsHost(p), "server">>
SniFirst(p) == <<Get(p, "sni"), Get(p, "servername"), wsHost(p), "server">>
ClashQuicTls(p) == [ClashTls(p, <<Get(p, "sni"), Get(p, "servername"), "server">>) EXCEPT !.finger = ""]

(* The options by which a plugin is known to sing-box. *)
clashSSPlugin(p) ==
    LET mode == Spelled(p, <<"plugin-opts.mode", "plugin_opts.mode">>)
        host == Spelled(p, <<"plugin-opts.host", "plugin_opts.host">>)
        path == Spelled(p, <<"plugin-opts.path", "plugin_opts.path">>)
        tls == Bit(truthy(Spelled(p, <<"plugin-opts.tls", "plugin_opts.tls">>))) IN
    CASE Get(p, "plugin") \in {"obfs", "simple-obfs", "obfs-local"} ->
             {<<"plugin", "obfs-local">>, <<"opt.obfs", mode>>, <<"opt.obfs-host", host>>}
      [] Get(p, "plugin") = "v2ray-plugin" ->
             {<<"plugin", "v2ray-plugin">>, <<"opt.mode", mode>>, <<"opt.host", host>>,
              <<"opt.path", path>>, <<"opt.tls", tls>>}
      [] OTHER -> {<<"plugin", Get(p, "plugin")>>}
clashShadowsocks(p) ==
    Endpoint("shadowsocks",
        {<<"method", Get(p, "cipher")>>, <<"password", Get(p, "password")>>,
         <<"udp_over_tcp", Bit(truthy(Get(p, "udp-over-tcp")) \/ truthy(Get(p, "udp_over_tcp")))>>} \cup clashSSPlugin(p),
        NoTransport, PlainText)
clashVMess(p) ==
    Endpoint("vmess", {<<"uuid", Get(p, "uuid")>>, <<"alter_id", FirstNonEmpty(<<Get(p, "alterId"), "0">>)>>,
                       <<"security", FirstNonEmpty(<<Get(p, "cipher"), "auto">>)>>},
             clashTransport(p), IF clashTLSEnabled(p) THEN ClashTls(p, NameFirst(p)) ELSE PlainText)
clashTrojan(p) ==
    Endpoint("trojan", {<<"password", Get(p, "password")>>},
             clashTransport(p), IF clashTLSDefaultOn(p) THEN ClashTls(p, SniFirst(p)) ELSE PlainText)
clashAnyTLS(p) ==
    Endpoint("anytls", {<<"password", Get(p, "password")>>}, NoTransport,
             ClashTls(p, <<Get(p, "sni"), Get(p, "servername"), "server">>))
clashVLESS(p) ==
    LET key == Spelled(p, <<"reality-opts.public-key", "reality-opts.publicKey">>)
        reality == [ClashTls(p, <<Get(p, "servername"), Get(p, "sni")>>) EXCEPT
            !.type = "reality", !.insecure = FALSE, !.key = key,
            !.sid = Spelled(p, <<"reality-opts.short-id", "reality-opts.shortId">>)]
    IN Endpoint("vless", {<<"uuid", Get(p, "uuid")>>, <<"flow", Get(p, "flow")>>}, clashTransport(p),
                IF key # "" THEN reality
                ELSE IF clashTLSEnabled(p) THEN ClashTls(p, NameFirst(p)) ELSE PlainText)
clashHysteria2(p) ==
    Endpoint("hysteria2",
        {<<"password", Spelled(p, <<"password", "auth">>)>>, <<"obfs", Get(p, "obfs")>>,
         <<"obfs_password", IF Get(p, "obfs") = "" THEN "" ELSE Spelled(p, <<"obfs-password", "obfs_password">>)>>,
         <<"hop_ports", Spelled(p, <<"ports", "mport">>)>>,
         <<"up_mbps", Get(p, "up")>>, <<"down_mbps", Get(p, "down")>>},
        NoTransport, ClashQuicTls(p))
clashTUIC(p) ==
    Endpoint("tuic",
        {<<"uuid", Get(p, "uuid")>>, <<"password", Get(p, "password")>>,
         <<"congestion_control", Spelled(p, <<"congestion-controller", "congestion_control">>)>>,
         <<"udp_relay_mode", Spelled(p, <<"udp-relay-mode", "udp_relay_mode">>)>>},
        NoTransport, ClashQuicTls(p))
(* The addresses of ip, then those of ipv6. *)
Addresses(p) ==
    LET a == Get(p, "ip") b == Get(p, "ipv6") IN
    IF a # "" /\ b # "" THEN "v4,v6" ELSE FirstNonEmpty(<<a, b>>)
clashWireGuard(p) ==
    Endpoint("wireguard",
        {<<"private_key", Spelled(p, <<"private-key", "private_key">>)>>,
         <<"peer_public_key", Spelled(p, <<"public-key", "public_key">>)>>,
         <<"pre_shared_key", Spelled(p, <<"pre-shared-key", "preshared-key", "pre_shared_key">>)>>,
         <<"local_address", Addresses(p)>>, <<"reserved", Get(p, "reserved")>>, <<"mtu", Get(p, "mtu")>>},
        NoTransport, PlainText)

proxyToEndpoint(p) ==
    LET t == Get(p, "type") IN
    CASE t \in {"ss", "shadowsocks"} -> clashShadowsocks(p)
      [] t = "vmess" -> clashVMess(p)
      [] t = "trojan" -> clashTrojan(p)
      [] t = "anytls" -> clashAnyTLS(p)
      [] t = "vless" -> clashVLESS(p)
      [] t \in {"hysteria2", "hy2"} -> clashHysteria2(p)
      [] t = "tuic" -> clashTUIC(p)
      [] t \in {"wireguard", "wg"} -> clashWireGuard(p)
-----------------------------------------------------------------------------
(* Export as a link or a .conf. *)
setTransportQuery(t) ==
    {<<"type", t.type>>} \cup
    (IF t.type = "grpc" THEN {<<"serviceName", t.svc>>}
     ELSE IF t.type = "" THEN {} ELSE {<<"path", t.path>>, <<"host", t.host>>})

setTLSQuery_NoAlpn(t) ==
    IF ~t.on THEN {}
    ELSE {<<"sni", t.sni>>, <<"fp", t.finger>>} \cup
         (IF t.type = "reality" THEN {<<"security", "reality">>, <<"pbk", t.key>>, <<"sid", t.sid>>}
          ELSE {<<"security", "tls">>, <<"allowInsecure", Bit(t.insecure)>>, <<"alpn", t.alpn>>})
setTLSQuery(t) ==
    IF ~t.on THEN {}
    ELSE {<<"sni", t.sni>>, <<"fp", t.finger>>, <<"alpn", t.alpn>>} \cup
         (IF t.type = "reality" THEN {<<"security", "reality">>, <<"pbk", t.key>>, <<"sid", t.sid>>}
          ELSE {<<"security", "tls">>, <<"allowInsecure", Bit(t.insecure)>>})

vlessLink(e) ==
    buildURI("vless", Get(e.par, "uuid"), "",
        {<<"flow", Get(e.par, "flow")>>, <<"packetEncoding", Get(e.par, "packet_encoding")>>} \cup
        setTransportQuery(e.transport) \cup setTLSQuery(e.tls))
trojanLink(e) ==
    buildURI("trojan", Get(e.par, "password"), "", setTransportQuery(e.transport) \cup setTLSQuery(e.tls))
anytlsLink(e) == buildURI("anytls", Get(e.par, "password"), "", setTLSQuery(e.tls))
hysteria2Link(e) ==
    buildURI("hysteria2", Get(e.par, "password"), "",
        {<<"sni", e.tls.sni>>, <<"insecure", Bit(e.tls.insecure)>>, <<"alpn", e.tls.alpn>>,
         <<"obfs", Get(e.par, "obfs")>>,
         <<"obfs-password", IF Get(e.par, "obfs") = "" THEN "" ELSE Get(e.par, "obfs_password")>>,
         <<"mport", Get(e.par, "hop_ports")>>})
tuicLink(e) ==
    buildURI("tuic", Get(e.par, "uuid"), Get(e.par, "password"),
        {<<"sni", e.tls.sni>>, <<"allow_insecure", Bit(e.tls.insecure)>>, <<"alpn", e.tls.alpn>>} \cup
        {<<k, Get(e.par, k)>> : k \in {"congestion_control", "udp_relay_mode", "heartbeat",
                                       "zero_rtt_handshake", "udp_over_stream"}})
ssLink(e) ==
    buildURI("ss", Get(e.par, "method"), Get(e.par, "password"),
        {<<"udp-over-tcp", Flag(e.par, "udp_over_tcp")>>, <<"plugin", Get(e.par, "plugin")>>} \cup
        (IF Get(e.par, "plugin") = "" THEN {} ELSE {<<k, Get(e.par, k)>> : k \in PluginOpts}))
vmessLink(e) ==
    LET t == e.transport IN
    buildURI("vmess", "", "",
        {<<"id", Get(e.par, "uuid")>>, <<"aid", FirstNonEmpty(<<Get(e.par, "alter_id"), "0">>)>>,
         <<"scy", FirstNonEmpty(<<Get(e.par, "security"), "auto">>)>>,
         <<"net", CASE t.type = "" -> "tcp" [] t.type = "http" -> "h2" [] OTHER -> t.type>>} \cup
        (IF t.type = "" THEN {}
         ELSE {<<"path", IF t.type = "grpc" THEN t.svc ELSE t.path>>, <<"host", t.host>>}) \cup
        (IF ~e.tls.on THEN {}
         ELSE {<<"tls", "tls">>, <<"sni", e.tls.sni>>, <<"fp", e.tls.finger>>, <<"alpn", e.tls.alpn>>,
               <<"allowInsecure", Bit(e.tls.insecure)>>}))
(* Only the first peer. *)
plainWGConf(e) ==
    buildURI("[Interface]", "", "",
        {<<"privatekey", Get(e.par, "private_key")>>, <<"publickey", Get(e.par, "peer_public_key")>>,
         <<"presharedkey", Get(e.par, "pre_shared_key")>>, <<"address", Get(e.par, "local_address")>>,
         <<"persistentkeepalive", Get(e.par, "persistent_keepalive")>>,
         <<"reserved", Get(e.par, "reserved")>>, <<"mtu", Get(e.par, "mtu")>>})

Export(e) ==
    CASE e.proto = "vless" -> vlessLink(e)
      [] e.proto = "trojan" -> trojanLink(e)
      [] e.proto = "anytls" -> anytlsLink(e)
      [] e.proto = "hysteria2" -> hysteria2Link(e)
      [] e.proto = "tuic" -> tuicLink(e)
      [] e.proto = "shadowsocks" -> ssLink(e)
      [] e.proto = "vmess" -> vmessLink(e)
      [] e.proto = "wireguard" -> plainWGConf(e)
-----------------------------------------------------------------------------
(* Export as a proxy of the clash subscription. *)
clashTransportOut(t) ==
    CASE t.type \in {"ws", "httpupgrade"} ->
             {<<"network", t.type>>, <<"ws-opts.path", t.path>>, <<"ws-opts.headers.Host", t.host>>}
      [] t.type = "grpc" -> {<<"network", "grpc">>, <<"grpc-opts.grpc-service-name", t.svc>>}
      [] t.type = "http" -> {<<"network", "h2">>, <<"h2-opts.path", t.path>>, <<"h2-opts.host", t.host>>}
      [] OTHER -> {}

Verify(t) == <<"skip-cert-verify", Bit(t.insecure)>>
clashTLSOut(t) ==
    IF ~t.on \/ t.type = "reality" THEN {}
    ELSE {<<"tls", "true">>, <<"servername", t.sni>>, <<"client-fingerprint", t.finger>>, Verify(t), <<"alpn", t.alpn>>}

ssPluginToClash(e) ==
    LET key(k) == CASE k = "opt.obfs" -> "plugin-opts.mode" [] k = "opt.obfs-host" -> "plugin-opts.host"
                    [] k = "opt.mode" -> "plugin-opts.mode" [] k = "opt.host" -> "plugin-opts.host"
                    [] k = "opt.path" -> "plugin-opts.path" [] k = "opt.tls" -> "plugin-opts.tls"
                    [] k = "opt.mux" -> "plugin-opts.mux"
    IN {<<"plugin", IF Get(e.par, "plugin") = "obfs-local" THEN "obfs" ELSE Get(e.par, "plugin")>>} \cup
       {<<key(k), e.par[k]>> : k \in PluginOpts \cap DOMAIN e.par}
clashSS(e) ==
    {<<"type", "ss">>, <<"cipher", Get(e.par, "method")>>, <<"password", Get(e.par, "password")>>,
     <<"udp-over-tcp", Flag(e.par, "udp_over_tcp")>>} \cup
    (IF Get(e.par, "plugin") = "" THEN {} ELSE ssPluginToClash(e))
clashVMessOut(e) ==
    {<<"type", "vmess">>, <<"uuid", Get(e.par, "uuid")>>, <<"alterId", FirstNonEmpty(<<Get(e.par, "alter_id"), "0">>)>>,
     <<"cipher", FirstNonEmpty(<<Get(e.par, "security"), "auto">>)>>} \cup
    clashTransportOut(e.transport) \cup clashTLSOut(e.tls)
(* What trojan and anytls say of TLS, which is on unless it is said not to  *)
(* be; without a TLS block trojan says nothing.                             *)
TrojanTls(t) ==
    IF ~t.on THEN {} ELSE {<<"sni", t.sni>>, <<"client-fingerprint", t.finger>>, Verify(t), <<"alpn", t.alpn>>}
clashTrojanOut(e) ==
    {<<"type", "trojan">>, <<"password", Get(e.par, "password")>>} \cup
    clashTransportOut(e.transport) \cup TrojanTls(e.tls)
clashAnyTLSOut(e) == {<<"type", "anytls">>, <<"password", Get(e.par, "password")>>} \cup TrojanTls(e.tls)
clashVLESSOut(e) ==
    {<<"type", "vless">>, <<"uuid", Get(e.par, "uuid")>>, <<"flow", Get(e.par, "flow")>>} \cup
    clashTransportOut(e.transport) \cup
    (IF e.tls.on /\ e.tls.type = "reality"
     THEN {<<"tls", "true">>, <<"servername", e.tls.sni>>, <<"client-fingerprint", e.tls.finger>>,
           <<"alpn", e.tls.alpn>>, <<"reality-opts.public-key", e.tls.key>>, <<"reality-opts.short-id", e.tls.sid>>}
     ELSE clashTLSOut(e.tls))
QuicTlsOut(t) == {<<"sni", t.sni>>, Verify(t), <<"alpn", t.alpn>>}
clashHysteria2Out(e) ==
    {<<"type", "hysteria2">>, <<"password", Get(e.par, "password")>>, <<"obfs", Get(e.par, "obfs")>>,
     <<"obfs-password", Get(e.par, "obfs_password")>>, <<"ports", Get(e.par, "hop_ports")>>,
     <<"up", Get(e.par, "up_mbps")>>, <<"down", Get(e.par, "down_mbps")>>} \cup QuicTlsOut(e.tls)
clashTUICOut(e) ==
    {<<"type", "tuic">>, <<"uuid", Get(e.par, "uuid")>>, <<"password", Get(e.par, "password")>>,
     <<"congestion-controller", Get(e.par, "congestion_control")>>,
     <<"udp-relay-mode", Get(e.par, "udp_relay_mode")>>} \cup QuicTlsOut(e.tls)
clashWireGuardOut(e) ==
    LET a == Get(e.par, "local_address") IN
    {<<"type", "wireguard">>, <<"private-key", Get(e.par, "private_key")>>,
     <<"public-key", Get(e.par, "peer_public_key")>>, <<"pre-shared-key", Get(e.par, "pre_shared_key")>>,
     <<"ip", IF a \in {"v4", "v4,v6"} THEN "v4" ELSE "">>, <<"ipv6", IF a \in {"v6", "v4,v6"} THEN "v6" ELSE "">>,
     <<"mtu", Get(e.par, "mtu")>>, <<"reserved", Get(e.par, "reserved")>>}

clashProxy(e) ==
    buildURI("clash", "", "",
        CASE e.proto = "shadowsocks" -> clashSS(e)
          [] e.proto = "vmess" -> clashVMessOut(e)
          [] e.proto = "trojan" -> clashTrojanOut(e)
          [] e.proto = "anytls" -> clashAnyTLSOut(e)
          [] e.proto = "vless" -> clashVLESSOut(e)
          [] e.proto = "hysteria2" -> clashHysteria2Out(e)
          [] e.proto = "tuic" -> clashTUICOut(e)
          [] e.proto = "wireguard" -> clashWireGuardOut(e))
-----------------------------------------------------------------------------
(* ParseSubscription tells a clash document from links. *)
Import(l) == IF l.scheme = "clash" THEN proxyToEndpoint(l.q) ELSE Parse(l)

(* Addresses are v4, v6 or both; a plugin is named as sing-box names it and *)
(* has only its own options.                                                *)
OptsOf(plugin) ==
    CASE plugin = "obfs-local" -> {"opt.obfs", "opt.obfs-host"}
      [] plugin = "v2ray-plugin" -> {"opt.mode", "opt.host", "opt.path", "opt.tls", "opt.mux"}
      [] OTHER -> {}
ASSUME ShareAssumption ==
    \A l \in Texts :
        /\ l.scheme \in {"vless", "trojan", "anytls", "hysteria2", "hy2", "tuic", "vmess", "ss", "wireguard", "wg",
                         "[Interface]", "clash"}
        /\ l.scheme = "clash" => Get(l.q, "type") \in {"ss", "shadowsocks", "vmess", "trojan", "anytls", "vless",
                                                     "hysteria2", "hy2", "tuic", "wireguard", "wg"}
        /\ Get(l.q, "address") \in {"", "v4", "v6", "v4,v6"} /\ Get(l.q, "ip") \in {"", "v4"} /\ Get(l.q, "ipv6") \in {"", "v6"}
        /\ l.scheme = "ss" => /\ Get(l.q, "plugin") \notin {"obfs", "simple-obfs"}
                              /\ PluginOpts \cap DOMAIN l.q \subseteq OptsOf(Get(l.q, "plugin"))
                              /\ Get(l.q, "opt.tls") \in {"", "1"}

ShareInit == given \in Texts /\ stored = NoEp /\ shared = NoText /\ again = NoEp

Receive ==
    /\ stored = NoEp
    /\ stored' = Import(given)
    /\ UNCHANGED <<given, shared, again>>
(* handleEndpointExport, and handleSubServe for a client that wants clash. *)
HandOn(text) ==
    /\ stored # NoEp /\ shared = NoText
    /\ shared' = text
    /\ UNCHANGED <<given, stored, again>>
ReceiveAgain ==
    /\ shared # NoText /\ again = NoEp
    /\ again' = Import(shared)
    /\ UNCHANGED <<given, stored, shared>>

ShareNext ==
    \/ Receive \/ ReceiveAgain
    \/ stored # NoEp /\ (HandOn(Export(stored)) \/ HandOn(clashProxy(stored)))
ShareSpec == ShareInit /\ [][ShareNext]_shareVars
-----------------------------------------------------------------------------
(* What the generator reads of an endpoint: of a grpc transport only the    *)
(* service name, and the list of peers only when there are two.             *)
Dialled(e) ==
    [e EXCEPT !.par = [k \in DOMAIN @ \ {"peers"} |-> @[k]],
              !.transport = IF @.type = "grpc" THEN [@ EXCEPT !.path = "", !.host = ""] ELSE @]

(* What a format has no key for, or the exporter writes none.               *)
Lost(text) ==
    IF text.scheme # "clash" THEN {"up_mbps", "down_mbps"}
    ELSE {"packet_encoding", "heartbeat", "zero_rtt_handshake", "udp_over_stream", "persistent_keepalive", "opt.mux"}

(* Left out: trojan and anytls without TLS, which come back with it; a      *)
(* second peer; and Reality in a clash proxy that is not vless, or has no   *)
(* key, which comes back as plain TLS.                                      *)
Sharable(e, text) ==
    /\ e.proto \in {"trojan", "anytls"} => e.tls.on
    /\ Get(e.par, "peers") # "two"
    /\ text.scheme = "clash" /\ e.tls.type = "reality" => e.proto = "vless" /\ e.tls.key # ""

(* The exporter "is the inverse of internal/importer": an endpoint, however *)
(* its text was spelled, comes back from what is handed on as an endpoint   *)
(* that dials the same way, but for the parameters in Lost.                 *)
RoundTrip ==
    again # NoEp /\ Sharable(stored, shared) =>
        LET e == Dialled(stored)
        IN Dialled(again) = [e EXCEPT !.par = [k \in DOMAIN @ \ Lost(shared) |-> @[k]]]
=============================================================================
