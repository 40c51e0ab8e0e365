----------------------------- MODULE MCServices -----------------------------
(* What an order of the user writes: the profile store, the binaries of the *)
(* updater, the servers of the initialisation jobs, a Keenetic router that  *)
(* is cut over, and an endpoint that is handed on.  They share no state;    *)
(* part says which of them a behaviour is about.                            *)
EXTENDS Store, Updater, Jobs, Migrate, Cutover, MCShare

CONSTANTS e1, e2, g1, g2, r1, l1, tun, hybrid, Parts

VARIABLE part

mcVars == <<part, vars, updVars, jobVars, migVars, cutVars, shareVars>>

(* A profile small enough to enumerate, with nested groups, a rule, and a   *)
(* routing list that may download via an endpoint.                          *)
MCEps == {e1, e2}
MCGrs == {g1, g2}
MCMembers == {{e1}, {e2}, {e1, e2}, {g1}, {g2, e1}, {g1, e2}}
MCRuleOuts == {e1, g2}
MCLists == {[out |-> e1, via |-> None], [out |-> g1, via |-> e2]}

(* A bundle to fall back to, one with a dangling member, and one whose      *)
(* routing mode is unknown.                                                 *)
GoodProfile == [Empty EXCEPT !.ep[e1] = "on", !.gr[g1] = {e1}, !.ru[r1] = g1]
BadProfile  == [Empty EXCEPT !.gr[g1] = {e1}]
MCBundles == {[prof |-> GoodProfile, mode |-> hybrid],
              [prof |-> BadProfile,  mode |-> hybrid],
              [prof |-> GoodProfile, mode |-> BadMode]}

(* Releases for a 32-bit ARM router: assets whose names contain each        *)
(* other's architecture, a release without a digest, one whose daemon asset *)
(* is for another machine, and one with nothing for this one.               *)
Asset(has, arch) == [has |-> has \cup {"linux"}, arch |-> arch, plain |-> TRUE]
MCAssets == <<Asset({"arm64", "arm"}, "arm64"), Asset({"arm", "armv5"}, "arm"),
              Asset({"mips64", "mips"}, "mips64"), Asset({"mipsle", "mips"}, "mipsle"),
              Asset({"armv7", "arm"}, "arm"), Asset({"mips"}, "mips"), Asset({"amd64"}, "amd64")>>
MCReleases ==
    {[ver |-> 0, digest |-> TRUE,  assets |-> <<>>, selfAsset |-> "none"],
     [ver |-> 1, digest |-> TRUE,  assets |-> SubSeq(MCAssets, 1, 2), selfAsset |-> "own"],
     [ver |-> 2, digest |-> FALSE, assets |-> MCAssets, selfAsset |-> "own"],
     [ver |-> 3, digest |-> TRUE,  assets |-> Tail(MCAssets), selfAsset |-> "alien"]}

MCOrders == {<<"vless-reality">>, <<"trojan", "vless-reality">>, <<"wireguard", "trojan">>}

(* A keen-pbr config with every kind of list, one of them in no rule and    *)
(* one in two; one whose rule names an outbound nobody knows; and one whose *)
(* file is missing.                                                         *)
Line(f, v) == [form |-> f, v |-> v]
NoSrc == [url |-> "", file |-> "", domains |-> {}, cidrs |-> {}]
MCKeenLists ==
    [telegram |-> [NoSrc EXCEPT !.url = "ipv4_feed"], youtube |-> [NoSrc EXCEPT !.url = "yt_lst"],
     news |-> [NoSrc EXCEPT !.url = "news_lst"], local |-> [NoSrc EXCEPT !.file = "local"],
     mixed |-> [NoSrc EXCEPT !.domains = {"d1"}, !.cidrs = {"ip1"}], work |-> [NoSrc EXCEPT !.cidrs = {"ip2"}],
     idle |-> [NoSrc EXCEPT !.domains = {"d2"}]]
Rule(on, ls, ob) == [enabled |-> on, list |-> ls, outbound |-> ob]
MCRules == <<Rule(TRUE, {"telegram", "mixed", "work"}, "keentest"), Rule(TRUE, {"youtube", "news"}, "auto_failover_with_wan"),
             Rule(TRUE, {"work"}, "netherlands"), Rule(FALSE, {"local"}, "auto_failover_soft")>>
MCKeenConfigs ==
    {[lists |-> MCKeenLists, rules |-> MCRules],
     [lists |-> MCKeenLists, rules |-> Append(MCRules, Rule(TRUE, {"local"}, "vpn9"))],
     [lists |-> [MCKeenLists EXCEPT !.local.file = "gone"], rules |-> MCRules]}
MCFiles == [local |-> {"d3", "ip3"}]
MCFeedBody ==
    [ipv4_feed |-> <<Line("comment", "x"), Line("plain", "ip4")>>,
     yt_lst |-> <<Line("plain", "d4")>>,
     news_lst |-> <<Line("domain", "d5"), Line("include", "x"), Line("full", "d6"), Line("plain", "ip5")>>]
MCPeerHost == [n \in {0, 1, 2, 3, 5} |-> CASE n = 0 -> "peer4" [] n = 1 -> "vpn.name" [] n = 2 -> "mgmt" [] n = 3 -> "peer6" [] OTHER -> ""]

AnyInput == CHOOSE in \in Inputs : TRUE
AnyText == CHOOSE t \in Texts : t.scheme = "ss"

MCInit ==
    /\ part \in Parts
    /\ Init /\ (part # "store" => mode = tun)
    /\ UpdInit /\ JobInit
    /\ minput \in (IF part = "migrate" THEN Inputs ELSE {AnyInput}) /\ MigInit
    /\ CutInit /\ (part # "cutover" => kind = "kernel")
    /\ IF part = "share" THEN ShareInit
       ELSE given = AnyText /\ stored = NoEp /\ shared = NoText /\ again = NoEp
MCNext ==
    \/ part = "store" /\ Next /\ UNCHANGED <<part, updVars, jobVars, migVars, cutVars, shareVars>>
    \/ part = "updater" /\ UpdNext /\ UNCHANGED <<part, vars, jobVars, migVars, cutVars, shareVars>>
    \/ part = "jobs" /\ JobNext /\ UNCHANGED <<part, vars, updVars, migVars, cutVars, shareVars>>
    \/ part = "migrate" /\ MigNext /\ UNCHANGED <<part, vars, updVars, jobVars, cutVars, shareVars>>
    \/ part = "cutover" /\ CutNext /\ UNCHANGED <<part, vars, updVars, jobVars, migVars, shareVars>>
    \/ part = "share" /\ ShareNext /\ UNCHANGED <<part, vars, updVars, jobVars, migVars, cutVars>>

MCSpec == MCInit /\ [][MCNext]_mcVars
=============================================================================
