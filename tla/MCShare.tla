------------------------------ MODULE MCShare -------------------------------
(* Texts as clients write them: every protocol with each transport and kind *)
(* of TLS, and any two of the other keys, in all their spellings.           *)
EXTENDS Share, TLC, Naturals, FiniteSetsExt

OnKeys == {"allowInsecure", "insecure", "allow_insecure", "zero_rtt_handshake", "udp_over_stream", "udp-over-tcp",
           "udp_over_tcp", "uot", "skip-cert-verify", "skip_cert_verify", "opt.tls", "plugin-opts.tls",
           "plugin_opts.tls", "peer2"}
UpTo(n, keys) == UNION {kSubset(i, keys) : i \in 0 .. n}
Text(scheme, pass, fixed, keys) ==
    [scheme |-> scheme, user |-> "user", pass |-> pass,
     q |-> fixed @@ [k \in keys |-> IF k \in OnKeys THEN "1" ELSE k]]
One(k, vs) == {k :> v : v \in vs} \cup {<<>>}

StreamKeys == {"path", "host", "serviceName", "service_name", "sni", "fp", "pbk", "sid", "alpn", "allowInsecure", "insecure"}
StreamLinks ==
    {Text(sc, "", t @@ s, ks) : sc \in {"vless", "trojan"},
        t \in One("type", {"ws", "grpc", "h2", "http", "httpupgrade", "kcp"}),
        s \in One("security", {"none", "tls", "xtls", "reality"}), ks \in UpTo(2, StreamKeys)}
    \cup {Text("vless", "", "security" :> "tls", ks) : ks \in UpTo(2, {"flow", "packetEncoding", "packet_encoding"})}
    \cup {Text("anytls", "", s, ks) : s \in One("security", {"none", "tls", "reality"}), ks \in UpTo(2, StreamKeys)}
QuicLinks ==
    {Text(sc, p, <<>>, ks) : sc \in {"hysteria2", "hy2"}, p \in {"", "pass"},
        ks \in UpTo(3, {"obfs", "obfs-password", "mport", "ports", "sni", "alpn", "insecure"})}
    \cup {Text("tuic", p, <<>>, ks) : p \in {"", "pass"},
        ks \in UpTo(2, {"congestion_control", "udp_relay_mode", "heartbeat", "zero_rtt_handshake", "udp_over_stream",
                        "sni", "alpn", "allow_insecure"})}
VMessLinks ==
    {Text("vmess", "", n @@ t, ks) : n \in One("net", {"tcp", "ws", "grpc", "h2", "http", "httpupgrade"}),
        t \in One("tls", {"tls", "true", "none"}),
        ks \in UpTo(2, {"id", "aid", "scy", "path", "host", "sni", "fp", "alpn", "allowInsecure"})}
SsLinks ==
    {Text("ss", "pass", <<>>, ks) : ks \in UpTo(2, {"udp-over-tcp", "udp_over_tcp", "uot"})}
    \cup {Text("ss", "pass", "plugin" :> "obfs-local", ks) : ks \in UpTo(2, {"opt.obfs", "opt.obfs-host", "uot"})}
    \cup {Text("ss", "pass", "plugin" :> "v2ray-plugin", ks) : ks \in UpTo(3, {"opt.mode", "opt.host", "opt.path", "opt.tls", "opt.mux"})}
WgTexts ==
    {Text(sc, "", "publickey" :> "pub" @@ a, ks) : sc \in {"wg", "wireguard"},
        a \in One("address", {"v4", "v6", "v4,v6"}),
        ks \in UpTo(2, {"presharedkey", "keepalive", "persistentkeepalive", "reserved", "mtu"})}
    \cup {Text("[Interface]", "", "publickey" :> "pub" @@ "privatekey" :> "priv" @@ a, ks) :
        a \in One("address", {"v4", "v6", "v4,v6"}),
        ks \in UpTo(2, {"presharedkey", "persistentkeepalive", "reserved", "mtu", "peer2"})}

Proxy(type, fixed, keys) == Text("clash", "", "type" :> type @@ fixed, keys)
ClashKeys == {"ws-opts.path", "ws-opts.headers.Host", "ws-host", "grpc-opts.grpc-service-name", "h2-opts.path", "h2-opts.host",
              "servername", "sni", "client-fingerprint", "fingerprint", "skip-cert-verify", "insecure", "alpn"}
Proxies ==
    {Proxy(ty, n @@ t, ks) : ty \in {"vless", "vmess", "trojan"},
        n \in One("network", {"ws", "grpc", "h2", "httpupgrade"}), t \in One("tls", {"true", "false"}), ks \in UpTo(2, ClashKeys)}
    \cup {Proxy("vless", "reality-opts.public-key" :> "pub", ks) :
        ks \in UpTo(3, {"flow", "servername", "sni", "reality-opts.short-id", "fingerprint", "alpn", "insecure"})}
    \cup {Proxy("anytls", <<>>, ks) : ks \in UpTo(2, {"password", "sni", "servername", "fingerprint", "insecure"})}
    \cup {Proxy("hy2", <<>>, ks) : ks \in UpTo(3, {"auth", "password", "obfs", "obfs-password", "ports", "mport", "up", "down"})}
    \cup {Proxy("tuic", <<>>, ks) : ks \in UpTo(2, {"uuid", "password", "congestion-controller", "udp_relay_mode", "sni", "alpn"})}
    \cup {Proxy("ss", "plugin" :> p, ks) : p \in {"obfs", "v2ray-plugin"},
        ks \in UpTo(3, {"cipher", "plugin-opts.mode", "plugin-opts.host", "plugin-opts.path", "plugin-opts.tls",
                     "plugin_opts.mode", "plugin_opts.tls", "udp_over_tcp"})}
    \cup {Proxy("wg", i @@ j, ks) : i \in One("ip", {"v4"}), j \in One("ipv6", {"v6"}),
        ks \in UpTo(2, {"private-key", "public_key", "preshared-key", "reserved", "mtu"})}

MCTexts == StreamLinks \cup QuicLinks \cup VMessLinks \cup SsLinks \cup WgTexts \cup Proxies
=============================================================================
