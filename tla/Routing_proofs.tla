--------------------------- MODULE Routing_proofs ---------------------------
(***************************************************************************)
(* Proofs about KernelPlane, for any plans, rules, faults, flushes and     *)
(* daemon restarts: type correctness, and that the kernel holds the plan   *)
(* the server believes installed.  About Outbound, for every endpoint a    *)
(* profile may hold: what is emitted for it loads.  And about Planes, for  *)
(* any profiles, connections, links, lookups and applies: marked packets   *)
(* and connections stay with their tunnel, the config names only outbounds *)
(* it has, and the two planes send a packet where the profile says.        *)
(***************************************************************************)
EXTENDS KernelPlane, Planes, Outbound, FiniteSetTheorems, TLAPS

(* Until a stream crosses another one, whoever holds pbrMu is alone with    *)
(* the kernel, and a stream outside pbrMu works on a plan already forgotten.*)
Alone ==
    /\ tx.pc # "idle" => tx.old = pbrPlan
    /\ tx.pc \in {"load", "clear", "add", "undonft", "undoip", "fail"} => tx.new # None
    /\ tx.pc \in {"clear", "add"} => tx.todo \subseteq RulesIn(tx.new)
    /\ ~crossed =>
         /\ tx.pc # "idle" => td.pc = "done" /\ bt.pc # "ip"
         /\ td.pc # "done" \/ bt.pc = "ip" => pbrPlan = None

(* What an install has reached, whatever an earlier daemon left behind. *)
Installed ==
    ~crossed =>
      /\ tx.pc = "clear" => RulesIn(tx.new) \cap rules \subseteq tx.todo
      /\ tx.pc = "add" => RulesIn(tx.new) \subseteq tx.todo \cup rules
      /\ tx.pc = "commit" => RulesIn(tx.new) \subseteq rules
      /\ tx.pc \in {"clear", "add", "commit"} /\ tx.new # None /\ flushes = 0 => nft = tx.new

(* The rules that may be in the kernel at each command of a stream: what is *)
(* still to be removed, or belongs to the plan being installed.             *)
Allowed ==
    IF td.pc # "done" THEN td.todo
    ELSE CASE tx.pc \in {"idle", "delnft"} -> RulesIn(pbrPlan)
      [] tx.pc \in {"delip", "undoip"} -> tx.todo
      [] tx.pc \in {"load", "clear", "fail"} -> {}
      [] OTHER -> RulesIn(tx.new)

(* In a daemon that found the kernel clean nothing else is there, and       *)
(* between streams nothing is missing.                                      *)
Clean ==
    ~crossed /\ restarts = 0 =>
      /\ rules \subseteq Allowed
      /\ tx.pc = "add" => tx.todo \cap rules = {}
      /\ tx.pc = "idle" /\ td.pc = "done" => RulesIn(pbrPlan) \subseteq rules
      /\ flushes = 0 =>
           /\ td.pc = "ip" \/ tx.pc \in {"delip", "load", "undoip", "fail"} => nft = None
           /\ tx.pc = "idle" /\ td.pc = "done" => nft = pbrPlan
           /\ tx.pc = "commit" => nft = tx.new

PlaneInv == TypeOK /\ Alone /\ Installed /\ Clean
-----------------------------------------------------------------------------
LEMMA RulesInType == \A p \in Maybe : RulesIn(p) \in SUBSET Rules
  BY KernelPlaneAssumption DEF RulesIn, Maybe

LEMMA Bounds == /\ MaxFaults \in Nat /\ MaxFlushes \in Nat /\ MaxRestarts \in Nat
                /\ None \in Maybe /\ Excludes \in SUBSET Rules
  BY KernelPlaneAssumption DEF Maybe

LEMMA PlaneInit == Init => PlaneInv
<1> SUFFICES ASSUME Init
             PROVE  PlaneInv
  OBVIOUS
<1>1. TypeOK
  <2>1. tx \in [pc : TxPcs, old : Maybe, new : Maybe, todo : SUBSET Rules]
    BY Bounds DEF Init, NoTx, TxPcs
  <2>2. /\ td \in [pc : {"nft", "ip", "done"}, todo : SUBSET Rules]
        /\ bt \in [pc : {"start", "ip", "done"}, todo : SUBSET Rules]
    BY DEF Init, Done, Boot
  <2>3. crossed \in BOOLEAN /\ rules \subseteq Rules
    BY DEF Init
  <2>. QED
    BY <2>1, <2>2, <2>3, Bounds DEF Init, TypeOK
<1>2. Alone /\ Installed /\ Clean
  BY DEF Init, Alone, Installed, Clean, Allowed, NoTx, Done, Boot, RulesIn
<1>. QED
  BY <1>1, <1>2 DEF PlaneInv

(* A stream that is opened under pbrMu. *)
LEMMA OpenStep ==
  ASSUME PlaneInv, tx.pc = "idle", NEW new \in Maybe, Open(new),
         UNCHANGED <<kernel, pbrPlan, pbrBaseline, td, faults, flushes, restarts>>,
         bt' = bt \/ bt' = Done
  PROVE  PlaneInv'
<1> USE DEF kernel, PlaneInv
<1>1. TypeOK'
  BY DEF TypeOK, Open, FirstPc, Done, TxPcs
<1>2. Alone'
  <2>1. tx'.pc = FirstPc(new) /\ tx'.old = pbrPlan /\ tx'.new = new
    BY DEF Open
  <2>2. tx'.pc \in {"delnft", "load", "commit"} /\ (tx'.pc = "load" => new # None)
    BY <2>1 DEF FirstPc
  <2>3. ~crossed' => ~crossed /\ td.pc = "done" /\ bt.pc # "ip" /\ bt'.pc # "ip"
    <3>1. ~crossed' => ~crossed /\ td.pc = "done" /\ bt.pc # "ip"
      BY Zenon DEF Open
    <3>2. bt'.pc \in {bt.pc, "done"}
      BY DEF Done
    <3>. QED
      BY <3>1, <3>2
  <2>. QED
    BY <2>1, <2>2, <2>3 DEF Alone
<1>3. Installed'
  BY DEF TypeOK, Installed, Alone, Open, FirstPc, RulesIn
<1>4. Clean'
  BY DEF TypeOK, Clean, Alone, Allowed, Open, FirstPc, RulesIn
<1>. QED
  BY <1>1, <1>2, <1>3, <1>4

LEMMA InstallStep ==
  ASSUME PlaneInv, NEW new \in Maybe, Install(new), bt' = bt \/ bt' = Done
  PROVE  PlaneInv'
<1>1. CASE new # pbrPlan
  BY <1>1, OpenStep DEF Install
<1>2. CASE new = pbrPlan
  <2> USE <1>2 DEF Install, kernel, PlaneInv
  <2>1. TypeOK'
    BY DEF TypeOK, Done
  <2>2. Alone'
    BY DEF Alone, Done
  <2>3. Installed' /\ Clean'
    BY DEF Installed, Clean, Allowed
  <2>. QED
    BY <2>1, <2>2, <2>3
<1>. QED
  BY <1>1, <1>2

LEMMA PlaneStep == PlaneInv /\ [Next]_vars => PlaneInv'
<1> SUFFICES ASSUME PlaneInv, [Next]_vars
             PROVE  PlaneInv'
  OBVIOUS
<1> USE DEF kernel
<1>1. CASE TxDelNft
  <2> USE <1>1 DEF TxDelNft, PlaneInv
  <2>1. TypeOK'
    BY Bounds, RulesInType DEF TypeOK, TxPcs
  <2>2. Alone'
    BY RulesInType DEF TypeOK, Alone
  <2>3. Installed'
    BY DEF TypeOK, Alone, Installed
  <2>4. Clean'
    BY RulesInType DEF TypeOK, Alone, Installed, Clean, Allowed, RulesIn
  <2>. QED
    BY <2>1, <2>2, <2>3, <2>4
<1>2. CASE TxDelIp
  <2> USE <1>2 DEF TxDelIp, PlaneInv
  <2>1. TypeOK'
    BY Bounds, RulesInType DEF TypeOK, TxPcs
  <2>2. Alone'
    BY RulesInType DEF TypeOK, Alone
  <2>3. Installed'
    BY DEF TypeOK, Alone, Installed, RulesIn
  <2>4. Clean'
    BY RulesInType DEF TypeOK, Alone, Installed, Clean, Allowed, RulesIn
  <2>. QED
    BY <2>1, <2>2, <2>3, <2>4
<1>3. CASE TxLoad
  <2> USE <1>3 DEF TxLoad, Fault, OnError, PlaneInv
  <2>1. TypeOK'
    <3>1. RulesIn(tx.new) \in SUBSET Rules
      BY RulesInType DEF TypeOK
    <3>2. tx' \in [pc : TxPcs, old : Maybe, new : Maybe, todo : SUBSET Rules]
      BY <3>1 DEF TypeOK, TxPcs
    <3>. QED
      BY <3>2, Bounds DEF TypeOK
  <2>2. Alone'
    BY RulesInType DEF TypeOK, Alone
  <2>3. Installed'
    BY DEF TypeOK, Alone, Installed
  <2>4. Clean'
    BY RulesInType DEF TypeOK, Alone, Installed, Clean, Allowed, RulesIn
  <2>. QED
    BY <2>1, <2>2, <2>3, <2>4
<1>4. CASE TxClear
  <2> USE <1>4 DEF TxClear, PlaneInv
  <2>1. TypeOK'
    <3>1. RulesIn(tx.new) \in SUBSET Rules
      BY RulesInType DEF TypeOK
    <3>2. tx' \in [pc : TxPcs, old : Maybe, new : Maybe, todo : SUBSET Rules]
      BY <3>1 DEF TypeOK, TxPcs
    <3>. QED
      BY <3>2, Bounds DEF TypeOK
  <2>2. Alone'
    BY RulesInType DEF TypeOK, Alone
  <2>3. Installed'
    BY DEF TypeOK, Alone, Installed
  <2>4. Clean'
    BY RulesInType DEF TypeOK, Alone, Installed, Clean, Allowed, RulesIn
  <2>. QED
    BY <2>1, <2>2, <2>3, <2>4
<1>5. CASE TxAdd
  <2> USE <1>5 DEF TxAdd, Fault, OnError, AddError, PlaneInv
  <2>1. TypeOK'
    BY Bounds, RulesInType DEF TypeOK, TxPcs
  <2>2. Alone'
    BY RulesInType DEF TypeOK, Alone
  <2>3. Installed'
    BY DEF TypeOK, Alone, Installed
  <2>4. Clean'
    BY RulesInType DEF TypeOK, Alone, Installed, Clean, Allowed, RulesIn
  <2>. QED
    BY <2>1, <2>2, <2>3, <2>4
<1>6. CASE TxUndoNft
  <2> USE <1>6 DEF TxUndoNft, PlaneInv
  <2>1. TypeOK'
    BY Bounds, RulesInType DEF TypeOK, TxPcs
  <2>2. Alone'
    BY RulesInType DEF TypeOK, Alone
  <2>3. Installed'
    BY DEF TypeOK, Alone, Installed
  <2>4. Clean'
    BY RulesInType DEF TypeOK, Alone, Installed, Clean, Allowed, RulesIn
  <2>. QED
    BY <2>1, <2>2, <2>3, <2>4
<1>7. CASE TxUndoIp
  <2> USE <1>7 DEF TxUndoIp, PlaneInv
  <2>1. TypeOK'
    BY Bounds, RulesInType DEF TypeOK, TxPcs
  <2>2. Alone'
    BY RulesInType DEF TypeOK, Alone
  <2>3. Installed'
    BY DEF TypeOK, Alone, Installed
  <2>4. Clean'
    BY RulesInType DEF TypeOK, Alone, Installed, Clean, Allowed, RulesIn
  <2>. QED
    BY <2>1, <2>2, <2>3, <2>4
<1>8. CASE TxFail
  <2> USE <1>8 DEF TxFail, NoTx, PlaneInv
  <2>1. TypeOK'
    BY Bounds, RulesInType DEF TypeOK, TxPcs
  <2>2. Alone'
    BY RulesInType DEF TypeOK, Alone
  <2>3. Installed'
    BY DEF TypeOK, Alone, Installed
  <2>4. Clean'
    BY RulesInType DEF TypeOK, Alone, Installed, Clean, Allowed, RulesIn
  <2>. QED
    BY <2>1, <2>2, <2>3, <2>4
<1>9. CASE TxCommit
  <2> USE <1>9 DEF TxCommit, NoTx, PlaneInv
  <2>1. TypeOK'
    BY Bounds, RulesInType DEF TypeOK, TxPcs
  <2>2. Alone'
    BY RulesInType DEF TypeOK, Alone
  <2>3. Installed'
    BY DEF TypeOK, Alone, Installed
  <2>4. Clean'
    BY RulesInType DEF TypeOK, Alone, Installed, Clean, Allowed, RulesIn
  <2>. QED
    BY <2>1, <2>2, <2>3, <2>4
<1>10. CASE PBRTeardown
  <2> USE <1>10 DEF PBRTeardown, PlaneInv
  <2>1. TypeOK'
    BY Bounds, RulesInType DEF TypeOK, TxPcs
  <2>2. Alone'
    BY RulesInType DEF TypeOK, Alone
  <2>3. Installed'
    BY DEF TypeOK, Alone, Installed
  <2>4. Clean'
    <3>1. Allowed' = RulesIn(pbrPlan) /\ td'.pc = "nft"
      BY DEF Allowed
    <3>2. Allowed = RulesIn(pbrPlan)
      BY DEF Allowed
    <3>. QED
      BY <3>1, <3>2 DEF Clean
  <2>. QED
    BY <2>1, <2>2, <2>3, <2>4
<1>11. CASE TdStep
  <2> USE <1>11 DEF TdStep, Done, PlaneInv
  <2>1. TypeOK'
    BY Bounds, RulesInType DEF TypeOK, TxPcs
  <2>2. Alone'
    BY RulesInType DEF TypeOK, Alone
  <2>3. Installed'
    BY DEF TypeOK, Alone, Installed
  <2>4. Clean'
    BY RulesInType DEF TypeOK, Alone, Installed, Clean, Allowed, RulesIn
  <2>. QED
    BY <2>1, <2>2, <2>3, <2>4
<1>12. CASE BootTeardown
  <2> USE <1>12 DEF BootTeardown, Done, PlaneInv
  <2>1. TypeOK'
    <3>1. bt' \in [pc : {"start", "ip", "done"}, todo : SUBSET Rules]
      BY Bounds DEF TypeOK
    <3>. QED
      BY <3>1, Bounds DEF TypeOK
  <2>2. Alone'
    BY RulesInType DEF TypeOK, Alone
  <2>3. Installed'
    BY DEF TypeOK, Alone, Installed
  <2>4. Clean'
    BY RulesInType DEF TypeOK, Alone, Installed, Clean, Allowed, RulesIn
  <2>. QED
    BY <2>1, <2>2, <2>3, <2>4
<1>13. CASE Flush
  <2> USE <1>13 DEF Flush, PlaneInv
  <2>1. TypeOK'
    BY Bounds, RulesInType DEF TypeOK, TxPcs
  <2>2. Alone'
    BY RulesInType DEF TypeOK, Alone
  <2>3. Installed'
    BY DEF TypeOK, Alone, Installed
  <2>4. Clean'
    BY RulesInType DEF TypeOK, Alone, Installed, Clean, Allowed, RulesIn
  <2>. QED
    BY <2>1, <2>2, <2>3, <2>4
<1>14. CASE Restart
  <2> USE <1>14 DEF Restart, NoTx, Done, Boot, PlaneInv
  <2>1. TypeOK'
    BY Bounds, RulesInType DEF TypeOK, TxPcs
  <2>2. Alone'
    BY RulesInType DEF TypeOK, Alone
  <2>3. Installed'
    BY DEF TypeOK, Alone, Installed
  <2>4. Clean'
    BY RulesInType DEF TypeOK, Alone, Installed, Clean, Allowed, RulesIn
  <2>. QED
    BY <2>1, <2>2, <2>3, <2>4
<1>15. CASE SnapshotPBRBaseline
  <2> USE <1>15 DEF SnapshotPBRBaseline, PlaneInv
  <2>1. TypeOK'
    BY Bounds, RulesInType DEF TypeOK, TxPcs
  <2>2. Alone'
    BY RulesInType DEF TypeOK, Alone
  <2>3. Installed'
    BY DEF TypeOK, Alone, Installed
  <2>4. Clean'
    BY RulesInType DEF TypeOK, Alone, Installed, Clean, Allowed, RulesIn
  <2>. QED
    BY <2>1, <2>2, <2>3, <2>4
<1>16. CASE RestorePBRBaseline
  BY <1>16, OpenStep DEF RestorePBRBaseline, PlaneInv, TypeOK
<1>17. ASSUME NEW p \in Maybe, ApplyPBR(p)
      PROVE  PlaneInv'
  BY <1>17, InstallStep DEF ApplyPBR
<1>18. CASE BootApply
  BY <1>18, InstallStep DEF BootApply, Maybe
<1>19. CASE UNCHANGED vars
  BY <1>19 DEF vars, PlaneInv, TypeOK, Alone, Installed, Clean, Allowed
<1>. QED
  BY <1>1, <1>2, <1>3, <1>4, <1>5, <1>6, <1>7, <1>8, <1>9, <1>10, <1>11, <1>12, <1>13, <1>14, <1>15, <1>16, <1>17, <1>18, <1>19 DEF Next, Tx

(* The invariant is enough. *)
LEMMA PlaneInvEnough == PlaneInv => PlaneMatches
  BY DEF PlaneInv, Alone, Installed, Clean, Allowed, Matches, Quiet, PlaneMatches

(* Every command stream keeps the plane's state well-formed. *)
THEOREM PlaneTyped == Spec => []TypeOK
<1>1. PlaneInv => TypeOK
  BY DEF PlaneInv
<1>. QED
  BY <1>1, PlaneInit, PlaneStep, PTL DEF Spec

(* As long as no stream outside pbrMu crosses one under it, the kernel      *)
(* agrees with pbrPlan whenever applyPBR, restorePBRBaseline and the        *)
(* teardowns are done: for any plans, and any number of failed commands,    *)
(* firewall reloads and restarts.                                           *)
THEOREM PlaneAgrees == Spec => []PlaneMatches
  BY PlaneInit, PlaneStep, PlaneInvEnough, PTL DEF Spec
-----------------------------------------------------------------------------
(* endpointFor: whatever the list of peers holds, what is emitted of it     *)
(* loads.                                                                   *)
LEMMA PeersLoad ==
    ASSUME NEW e \in Endpoints("wireguard"), Ordinary(e), ~endpointFails(e)
    PROVE  Loads(endpointFor(e))
<1>. DEFINE ps == endpointFor(e).peers
<1>1. /\ e.proto = "wireguard" /\ e.par["pre_shared_key"] \in {"none", "good", "alt"}
      /\ \A i \in DOMAIN e.peers : e.peers[i].psk \in {"none", "good", "alt"}
  <2>1. e.proto = "wireguard" /\ e.par \in [ParamsOf("wireguard") -> {"none", "good", "bad", "alt"}]
    BY DEF Endpoints, Classes
  <2>2. "pre_shared_key" \in ParamsOf("wireguard")
    BY DEF ParamsOf
  <2>. DEFINE Peer == [server : BOOLEAN, key : {"good", "alt", "bad"}, psk : {"none", "good", "alt", "bad"}]
  <2>3. \A i \in DOMAIN e.peers : e.peers[i].psk \in {"none", "good", "alt", "bad"}
    <3>1. e.peers \in Seq(Peer)
      BY DEF Endpoints
    <3>2. \A i \in DOMAIN e.peers : e.peers[i] \in Peer
      <4>. HIDE DEF Peer
      <4>. QED
        BY <3>1
    <3>. QED
      BY <3>2
  <2>. QED
    BY <2>1, <2>2, <2>3 DEF Ordinary, Range
<1>2. endpointFor(e).proto = "wireguard" /\ endpointFor(e).key = "good"
  BY DEF endpointFor, endpointFails, normalizeWGKey
<1>3. ASSUME NEW i \in DOMAIN wgPeers(e)
      PROVE  wgPeers(e)[i].key = "good" /\ wgPeers(e)[i].psk \in {"good", "none"}
  BY <1>1 DEF wgPeers, wgPeer, normalizeWGKey, validWGKey
<1>4. ASSUME NEW i \in DOMAIN ps
      PROVE  ps[i].key = "good" /\ ps[i].psk \in {"good", "none"}
  <2>1. CASE Cardinality(DOMAIN wgPeers(e)) > 1
    BY <1>3, <2>1 DEF endpointFor
  <2>2. CASE ~(Cardinality(DOMAIN wgPeers(e)) > 1)
    <3>1. ps = <<[key |-> normalizeWGKey(e.par["peer_public_key"]),
                  psk |-> normalizeWGKey(e.par["pre_shared_key"])]>>
      BY <2>2 DEF endpointFor
    <3>. HIDE DEF ps
    <3>2. i = 1
      BY <3>1
    <3>. QED
      BY <1>1, <3>1, <3>2 DEF endpointFails, normalizeWGKey, validWGKey
  <2>. QED
    BY <2>1, <2>2
<1>5. \A q \in Range(ps) : q.key = "good" /\ q.psk \in {"good", "none"}
  <2>. HIDE DEF ps
  <2>. QED
    BY <1>4 DEF Range
<1>. QED
  BY <1>2, <1>5 DEF Loads

(* outboundFor: the fields.  What is mandatory was validated, what is       *)
(* optional is emitted only when known, and never half of a pair.           *)
FieldsFit(e) ==
    /\ \A f \in Fields(e) \ {"obfs_password"} : e.par[f] = "good"
    /\ "obfs" \in Fields(e) => "obfs_password" \in Fields(e)
    /\ ~({"udp_over_stream", "udp_relay_mode"} \subseteq Fields(e))
    /\ "flow" \in Fields(e) => e.proto = "vless" /\ e.tls.on /\ e.transport = ""

LEMMA FieldsLoad ==
    ASSUME NEW pr \in Protos \ {"wireguard"}, NEW e \in Endpoints(pr), Valid(e), Ordinary(e)
    PROVE  FieldsFit(e)
<1>1. e.proto = pr /\ e.par \in [ParamsOf(pr) -> {"none", "good", "bad", "blank"}]
  BY DEF Endpoints, Classes, Protos
<1>2. \A f \in Mandatory(pr) : e.par[f] = "good"
  <2>1. \A f \in Mandatory(pr) : e.par[f] # "none" /\ e.par[f] # "bad" /\ e.par[f] # "blank"
    BY <1>1 DEF Valid, Ordinary, missingProtoParam, invalidProtoParam
  <2>2. Mandatory(pr) \subseteq ParamsOf(pr)
    BY DEF Mandatory, ParamsOf, Protos
  <2>. QED
    BY <1>1, <2>1, <2>2
<1>3. CASE pr = "vless"
  BY <1>1, <1>3 DEF FieldsFit, Fields, Vision, Known, Safe
<1>4. CASE pr = "vmess"
  BY <1>1, <1>4 DEF FieldsFit, Fields, Known, Safe
<1>5. CASE pr = "shadowsocks"
  BY <1>1, <1>2, <1>5 DEF FieldsFit, Fields, Known, Safe, Mandatory
<1>6. CASE pr = "hysteria2"
  BY <1>1, <1>6 DEF FieldsFit, Fields, Known, Safe, Obfs
<1>7. CASE pr = "tuic"
  BY <1>1, <1>2, <1>7 DEF FieldsFit, Fields, Known, Safe, Udp, Mandatory
<1>8. CASE pr \in {"trojan", "anytls", "socks", "http"}
  BY <1>1, <1>8 DEF FieldsFit, Fields
<1>. QED
  BY <1>3, <1>4, <1>5, <1>6, <1>7, <1>8 DEF Protos

(* tlsJSON and the four passes over ALPN. *)
LEMMA TlsLoads ==
    ASSUME NEW pr \in Protos \ {"wireguard"}, NEW e \in Endpoints(pr)
    PROVE  LET t == Tls(e)
           IN /\ t.on \in BOOLEAN
              /\ t.on => e.tls.on /\ pr \in tlsCapable /\ t.alpn = Alpn(e)
              /\ LoadsTls(t)
              /\ t.on /\ t.reality => ~t.fragment
<1>1. e.proto = pr /\ e.tls \in {NoTls} \cup TlsBlock
  BY DEF Endpoints
<1>2. CASE ~e.tls.on \/ pr \notin tlsCapable
  BY <1>1, <1>2 DEF Tls, NoTls, LoadsTls
<1>3. CASE e.tls.on /\ pr \in tlsCapable
  <2>1. e.tls \in TlsBlock
    BY <1>1, <1>3 DEF NoTls
  <2>2. Tls(e) = [tlsJSON(e.tls) EXCEPT !.alpn = Alpn(e)]
    BY <1>1, <1>3 DEF Tls
  <2>. DEFINE r == e.tls.reality /\ validRealityPubKey(e.tls.key)
  <2>3. /\ Tls(e).on = TRUE /\ Tls(e).alpn = Alpn(e) /\ Tls(e).key = "good" /\ Tls(e).reality = r
        /\ Tls(e).sid = (IF r /\ e.tls.sid = "good" THEN {"good"} ELSE {})
        /\ Tls(e).utls = Finger(e.tls, r) /\ Tls(e).fragment = (e.tls.fragment /\ ~r)
    BY <2>2, Zenon DEF tlsJSON
  <2>4. r \in BOOLEAN
    BY <2>1 DEF TlsBlock, validRealityPubKey
  <2>. HIDE DEF r
  <2>. QED
    BY <1>3, <2>3, <2>4 DEF LoadsTls, Finger
<1>. QED
  BY <1>1, <1>2, <1>3 DEF NoTls, TlsBlock

LEMMA AlpnOK ==
    ASSUME NEW pr \in Protos \ {"wireguard"}, NEW e \in Endpoints(pr), e.tls.on,
           e.transport # "" => pr \in transportCapable
    PROVE  /\ pr = "tuic" => Alpn(e) # {} /\ Alpn(e) \subseteq H3
           /\ pr \in transportCapable => "h3" \notin Alpn(e)
           /\ e.transport \in {"ws", "httpupgrade"} => "h2" \notin Alpn(e)
           /\ e.transport \in {"grpc", "http"} => Alpn(e) \subseteq {"h2"}
<1>1. e.proto = pr
  BY DEF Endpoints
<1>. DEFINE a == e.tls.alpn
<1>2. CASE pr = "tuic"
  <2>1. e.transport = ""
    BY <1>2 DEF transportCapable
  <2>2. Alpn(e) = AlpnQuic(e, a)
    BY <1>1, <1>2, <2>1 DEF Alpn, AlpnTcp, AlpnH2, AlpnUpgrade, Quic
  <2>. QED
    BY <1>1, <1>2, <2>1, <2>2 DEF AlpnQuic, H3, transportCapable
<1>3. CASE pr # "tuic"
  <2>1. Alpn(e) = AlpnTcp(e, AlpnH2(e, AlpnUpgrade(e, a)))
    BY <1>1, <1>3 DEF Alpn, AlpnQuic
  <2>. QED
    BY <1>1, <1>3, <2>1 DEF AlpnTcp, AlpnH2, AlpnUpgrade, Quic, transportCapable
<1>. QED
  BY <1>2, <1>3

(* transportJSON *)
LEMMA TransportLoads ==
    ASSUME NEW pr \in Protos \ {"wireguard"}, NEW e \in Endpoints(pr), Ordinary(e)
    PROVE  LET t == transportJSON(e)
           IN /\ t.type = "" \/ t.type = e.transport
              /\ t.type # "" => pr \in transportCapable /\ t.type \in Transports
              /\ t.type \in {"ws", "httpupgrade"} => ~t.query
<1>1. e.proto = pr /\ e.transport \in {""} \cup Transports
  BY DEF Endpoints, Ordinary
<1>2. CASE e.transport = "" \/ pr \notin transportCapable
  BY <1>1, <1>2 DEF transportJSON
<1>3. CASE e.transport # "" /\ pr \in transportCapable
  BY <1>1, <1>3 DEF transportJSON
<1>. QED
  BY <1>2, <1>3

(* An outbound as a whole. *)
LEMMA OutboundLoads ==
    ASSUME NEW pr \in Protos \ {"wireguard"}, NEW e \in Endpoints(pr), Valid(e), Ordinary(e)
    PROVE  /\ Loads(outboundFor(e))
           /\ (e.transport # "" => pr \in transportCapable) => Connects(outboundFor(e))
<1>1. e.proto = pr
  BY DEF Endpoints
<1>2. FieldsFit(e)
  BY FieldsLoad
<1>3. /\ transportJSON(e).type = "" \/ transportJSON(e).type = e.transport
      /\ transportJSON(e).type # "" => pr \in transportCapable /\ transportJSON(e).type \in Transports
      /\ transportJSON(e).type \in {"ws", "httpupgrade"} => ~transportJSON(e).query
  BY TransportLoads
<1>4. /\ Tls(e).on => e.tls.on /\ pr \in tlsCapable /\ Tls(e).alpn = Alpn(e)
      /\ LoadsTls(Tls(e))
      /\ Tls(e).on /\ Tls(e).reality => ~Tls(e).fragment
  BY TlsLoads
<1>5. Loads(outboundFor(e))
  BY <1>1, <1>2, <1>3, <1>4 DEF Loads, outboundFor, FieldsFit
<1>6. ASSUME e.transport # "" => pr \in transportCapable
      PROVE  Connects(outboundFor(e))
  <2>1. AlpnFits(outboundFor(e))
    <3>1. e.tls.on =>
            /\ pr = "tuic" => Alpn(e) # {} /\ Alpn(e) \subseteq H3
            /\ pr \in transportCapable => "h3" \notin Alpn(e)
            /\ e.transport \in {"ws", "httpupgrade"} => "h2" \notin Alpn(e)
            /\ e.transport \in {"grpc", "http"} => Alpn(e) \subseteq {"h2"}
      BY <1>6, AlpnOK
    <3>. QED
      BY <1>1, <1>3, <1>4, <3>1 DEF AlpnFits, outboundFor
  <2>2. "flow" \in Fields(e) => Tls(e).on /\ transportJSON(e).type = ""
    <3>1. "flow" \in Fields(e) => pr = "vless" /\ e.tls.on /\ e.transport = ""
      BY <1>1, <1>2 DEF FieldsFit
    <3>2. pr = "vless" /\ e.tls.on => Tls(e).on
      BY <1>1 DEF Tls, tlsJSON, tlsCapable, transportCapable
    <3>. QED
      BY <1>3, <3>1, <3>2
  <2>. QED
    BY <1>3, <1>4, <2>1, <2>2 DEF Connects, outboundFor
<1>. QED
  BY <1>5, <1>6

(* "Drop, don't brick", for every endpoint that a profile may hold, all its *)
(* parameters, TLS block, transport and list of peers taken together: what  *)
(* outboundFor and endpointFor emit for a valid endpoint loads, or the      *)
(* apply is refused, and it can connect.                                    *)
THEOREM OutboundsLoad ==
    ASSUME NEW pr \in Protos, end \in Endpoints(pr)
    PROVE  NeverBricks
<1>1. end.proto = pr
  BY DEF Endpoints
<1>2. CASE pr = "wireguard"
  BY <1>1, <1>2, PeersLoad DEF NeverBricks
<1>3. CASE pr # "wireguard"
  BY <1>1, <1>3, OutboundLoads DEF NeverBricks
<1>. QED
  BY <1>2, <1>3
-----------------------------------------------------------------------------
(* Profiles whose outbounds have a place in the alphabet, whose names are   *)
(* of one kind each, and whose kernel endpoints are enabled.                *)
Tags == Range(TagOrder)
WellFormed(p) ==
    /\ p.rules \in Seq(Range(p.rules)) /\ p.lists \in Seq(Range(p.lists))
    /\ \A e \in Range(p.rules) \cup Range(p.lists) : e.out \in Tags \cup {Direct} /\ e.id \in Nat
    /\ \A r, s \in Range(p.rules) : r.id = s.id => r = s
    /\ \A l, m \in Range(p.lists) : l.id = m.id => l = m
    /\ {Direct, Block} \cap (DOMAIN p.ep \cup DOMAIN p.gr) = {} /\ DOMAIN p.ep \cap DOMAIN p.gr = {}
    /\ Nobody \notin DOMAIN p.ep
    /\ \A t \in DOMAIN p.ep : p.ep[t].engine \in KernelEngines => p.ep[t].on
    /\ \A g \in DOMAIN p.gr : p.gr[g].members \in Seq(Range(p.gr[g].members))

(* A set of numbers has a least one. *)
LEMMA Least ==
    ASSUME NEW T, T \subseteq Nat, T # {}
    PROVE  \E x \in T : \A y \in T : x <= y
<1>. DEFINE R == OpToRel(<, Nat)
<1>1. IsWellFoundedOn(R, Nat)
  BY NatLessThanWellFounded
<1>2. \A x, y \in Nat : y < x => <<y, x>> \in R
  BY Zenon DEF OpToRel
<1>. HIDE DEF R
<1>3. PICK x \in T : \A y \in T : ~(<<y, x>> \in R)
  BY <1>1, WFMin
<1>4. \A y \in T : ~(y < x)
  BY <1>2, <1>3
<1>. QED
  BY <1>4

Used(p, c) == {z.out : z \in Zones(p, c)} \cup {Direct}

LEMMA PlaceOK ==
    ASSUME NEW t \in Tags
    PROVE  Place(t) \in DOMAIN TagOrder /\ TagOrder[Place(t)] = t /\ Place(t) \in Nat
<1>1. \E i \in DOMAIN TagOrder : TagOrder[i] = t
  BY DEF Tags, Range
<1>2. DOMAIN TagOrder \subseteq Nat
  BY PbrAssumption
<1>. QED
  BY <1>1, <1>2 DEF Place

LEMMA TagsFinite == IsFiniteSet(Tags)
<1>1. TagOrder \in Seq(Range(TagOrder))
  BY PbrAssumption
<1>2. DOMAIN TagOrder = 1 .. Len(TagOrder) /\ Len(TagOrder) \in Nat
  BY <1>1
<1>3. IsFiniteSet(DOMAIN TagOrder)
  BY <1>2, FS_Interval
<1>4. TagOrder \in Surjection(DOMAIN TagOrder, Tags)
  BY <1>1, <1>2 DEF Tags, Range, Surjection
<1>. QED
  BY <1>3, <1>4, FS_Surjection

(* Marks: 1 is the WAN's, every other tag in use has a larger one of its    *)
(* own.                                                                     *)
LEMMA MarkOfOK ==
    ASSUME NEW used, used \subseteq Tags \cup {Direct}
    PROVE  /\ \A t \in used : MarkOf(used, t) \in Nat /\ MarkOf(used, t) >= 1
           /\ \A t \in used : IF t = Direct THEN MarkOf(used, t) = 1 ELSE MarkOf(used, t) > 1
           /\ \A t, u \in used : MarkOf(used, t) = MarkOf(used, u) => t = u
<1>. DEFINE Upto(t) == {u \in used \ {Direct} : Place(u) <= Place(t)}
<1>1. \A t \in used \ {Direct} : t \in Tags
  OBVIOUS
<1>2. ASSUME NEW t \in used \ {Direct}
      PROVE  IsFiniteSet(Upto(t)) /\ t \in Upto(t) /\ Cardinality(Upto(t)) \in Nat /\ Cardinality(Upto(t)) > 0
  <2>1. Upto(t) \subseteq Tags
    BY <1>1
  <2>2. IsFiniteSet(Upto(t))
    BY <2>1, TagsFinite, FS_Subset
  <2>3. t \in Upto(t)
    BY <1>1, PlaceOK
  <2>4. Cardinality(Upto(t)) \in Nat /\ Cardinality(Upto(t)) # 0
    BY <2>2, <2>3, FS_CardinalityType, FS_EmptySet
  <2>. QED
    BY <2>2, <2>3, <2>4
<1>3. \A t \in used \ {Direct} : MarkOf(used, t) = 1 + Cardinality(Upto(t))
  BY DEF MarkOf
<1>4. MarkOf(used, Direct) = 1
  BY DEF MarkOf, WanMark
<1>. HIDE DEF Upto
<1>5. ASSUME NEW t \in used \ {Direct}, NEW u \in used \ {Direct}, Place(t) < Place(u)
      PROVE  MarkOf(used, t) # MarkOf(used, u)
  <2>1. Place(t) \in Nat /\ Place(u) \in Nat /\ \A x \in used \ {Direct} : Place(x) \in Nat
    BY <1>1, PlaceOK
  <2>2. Upto(t) \subseteq Upto(u)
    BY <1>5, <2>1 DEF Upto
  <2>3. u \notin Upto(t) /\ u \in Upto(u)
    BY <1>5, <2>1 DEF Upto
  <2>4. Cardinality(Upto(u)) # Cardinality(Upto(t))
    BY <1>2, <2>2, <2>3, FS_Subset
  <2>5. Cardinality(Upto(t)) \in Nat /\ Cardinality(Upto(u)) \in Nat
    BY <1>2
  <2>6. MarkOf(used, t) = 1 + Cardinality(Upto(t)) /\ MarkOf(used, u) = 1 + Cardinality(Upto(u))
    BY <1>3
  <2>. QED
    BY <2>4, <2>5, <2>6
<1>6. \A t \in used : MarkOf(used, t) \in Nat /\ MarkOf(used, t) >= 1
  BY <1>2, <1>3, <1>4
<1>7. \A t \in used \ {Direct} : MarkOf(used, t) > 1
  BY <1>2, <1>3
<1>8. ASSUME NEW t \in used, NEW u \in used, MarkOf(used, t) = MarkOf(used, u)
      PROVE  t = u
  <2>1. CASE t = Direct \/ u = Direct
    BY <1>4, <1>7, <1>8, <2>1
  <2>2. CASE t # Direct /\ u # Direct
    <3>1. Place(t) \in Nat /\ Place(u) \in Nat /\ TagOrder[Place(t)] = t /\ TagOrder[Place(u)] = u
      BY <1>1, <2>2, PlaceOK
    <3>2. Place(t) = Place(u)
      BY <1>5, <1>8, <2>2, <3>1
    <3>. QED
      BY <3>1, <3>2
  <2>. QED
    BY <2>1, <2>2
<1>. QED
  BY <1>4, <1>6, <1>7, <1>8

(* A zone goes out by a tag of the profile that resolves. *)
LEMMA ZoneOut ==
    ASSUME NEW p, WellFormed(p), NEW c, NEW z \in Zones(p, c)
    PROVE  z.out \in Tags \cup {Direct} /\ resolveEgress(p, z.out).kind # "none"
<1>1. ASSUME NEW r \in Range(p.rules), z \in RuleZones(p, r)
      PROVE  z.out = r.out /\ resolveEgress(p, r.out).kind # "none"
  BY <1>1 DEF RuleZones, addZone
<1>2. ASSUME NEW l \in Range(p.lists), z \in ListZones(p, l, c)
      PROVE  z.out = l.out /\ resolveEgress(p, l.out).kind # "none"
  BY <1>2 DEF ListZones, addZone
<1>3. \/ \E r \in Range(p.rules) : z \in RuleZones(p, r)
      \/ \E l \in Range(p.lists) : z \in ListZones(p, l, c)
  BY DEF Zones
<1>. QED
  BY <1>1, <1>2, <1>3 DEF WellFormed

(* The interface of an egress is that of an enabled kernel endpoint. *)
LEMMA EgressOK ==
    ASSUME NEW p, WellFormed(p), NEW t, t # Direct, resolveEgress(p, t).kind # "none"
    PROVE  LET e == resolveEgress(p, t)
           IN \/ e.kind = "blackhole"
              \/ e.kind = "interface" /\ e.iface \in Kernels(p)
<1>1. ASSUME NEW i, kernelIface(p, i) # Nobody
      PROVE  i \in Kernels(p)
  BY <1>1 DEF kernelIface, Kernels, WellFormed, IsEndpoint
<1>2. CASE t = Block
  BY <1>2, PbrAssumption DEF resolveEgress, WellFormed, IsEndpoint, IsGroup
<1>3. CASE t # Block /\ IsEndpoint(p, t) /\ kernelIface(p, t) # Nobody
  <2>1. ~IsGroup(p, t)
    BY <1>3 DEF IsEndpoint, IsGroup, WellFormed
  <2>2. resolveEgress(p, t) = [kind |-> "interface", iface |-> t]
    BY <1>3, <2>1 DEF resolveEgress
  <2>. QED
    BY <1>1, <1>3, <2>2
<1>4. CASE t # Block /\ ~(IsEndpoint(p, t) /\ kernelIface(p, t) # Nobody)
  <2>1. IsGroup(p, t) /\ KernelMembers(p, t) # {} /\ resolveEgress(p, t) = [kind |-> "interface", iface |-> FirstKernelMember(p, t)]
    BY <1>4 DEF resolveEgress
  <2>. DEFINE ks == KernelMembers(p, t)
  <2>2. ks \subseteq Nat
    BY <2>1 DEF KernelMembers, WellFormed, IsGroup
  <2>3. \E i \in ks : \A j \in ks : i <= j
    BY <2>1, <2>2, Least
  <2>4. \E i \in ks : FirstKernelMember(p, t) = p.gr[t].members[i]
    BY <2>3 DEF FirstKernelMember
  <2>5. FirstKernelMember(p, t) \in Kernels(p)
    BY <1>1, <2>4 DEF KernelMembers
  <2>. QED
    BY <2>1, <2>5
<1>. QED
  BY <1>2, <1>3, <1>4

(* What a packet relies on in a plan. *)
MarksApart(pl) ==
    /\ \A t \in DOMAIN pl.egs : pl.egs[t].mark \in Nat /\ pl.egs[t].mark >= 1
    /\ \A t \in DOMAIN pl.egs : IF t = Direct THEN pl.egs[t].mark = 1 ELSE pl.egs[t].mark > 1
    /\ \A t, u \in DOMAIN pl.egs : pl.egs[t].mark = pl.egs[u].mark => t = u
Leads(pl) ==
    \A t \in DOMAIN pl.egs : t # Direct =>
        \/ pl.egs[t].kind = "blackhole"
        \/ pl.egs[t].kind = "interface" /\ pl.egs[t].iface \in pl.masq
Zoned(pl) ==
    \A z \in pl.zones :
        /\ z.out \in DOMAIN pl.egs
        /\ ~z.scoped => z.s4 = {} /\ z.s6 = {} /\ z.tags = {}
PlanFacts(pl) == MarksApart(pl) /\ Leads(pl) /\ Zoned(pl)

(* A zone without source matchers has none to miss. *)
LEMMA AddZoneOK ==
    ASSUME NEW nm, NEW t, NEW cs, NEW doms, NEW src, NEW tags, NEW z \in addZone(nm, t, cs, doms, src, tags), ~z.scoped
    PROVE  z.s4 = {} /\ z.s6 = {} /\ z.tags = {}
<1>1. /\ z.s4 = collapsePrefixes(V4(src)) /\ z.s6 = collapsePrefixes(V6(src)) /\ z.tags = tags
      /\ z.scoped = (src # {} \/ tags # {})
  BY DEF addZone
<1>2. src = {} /\ tags = {}
  BY <1>1
<1>. QED
  BY <1>1, <1>2 DEF collapsePrefixes, V4, V6

LEMMA PlanOK ==
    ASSUME NEW p, WellFormed(p), NEW c
    PROVE  PlanFacts(Compile(p, c))
<1>. DEFINE used == Used(p, c)
            pl == Compile(p, c)
<1>1. /\ pl.zones = Zones(p, c) /\ pl.masq = Kernels(p) /\ DOMAIN pl.egs = used
      /\ \A t \in used : pl.egs[t] = Egress(p, used, t)
  BY DEF Compile, Used
<1>2. used \subseteq Tags \cup {Direct}
  BY ZoneOut DEF Used
<1>3. \A t \in used : t # Direct => resolveEgress(p, t).kind # "none"
  BY ZoneOut DEF Used
<1>4. \A z \in Zones(p, c) : z.out \in used
  BY DEF Used
<1>. HIDE DEF pl, used
<1>5. ASSUME NEW t \in used
      PROVE  /\ pl.egs[t].mark = MarkOf(used, t) /\ pl.egs[t].kind = resolveEgress(p, t).kind
             /\ pl.egs[t].iface = resolveEgress(p, t).iface
  <2>. DEFINE e == Egress(p, used, t)
  <2>1. e.mark = MarkOf(used, t) /\ e.kind = resolveEgress(p, t).kind /\ e.iface = resolveEgress(p, t).iface
    BY DEF Egress
  <2>2. pl.egs[t] = e
    BY <1>1
  <2>. QED
    BY <2>1, <2>2
<1>6. MarksApart(pl)
  <2>1. /\ \A t \in used : MarkOf(used, t) \in Nat /\ MarkOf(used, t) >= 1
        /\ \A t \in used : IF t = Direct THEN MarkOf(used, t) = 1 ELSE MarkOf(used, t) > 1
        /\ \A t, u \in used : MarkOf(used, t) = MarkOf(used, u) => t = u
    BY <1>2, MarkOfOK
  <2>. QED
    BY <1>1, <1>5, <2>1 DEF MarksApart
<1>7. Leads(pl)
  <2>1. ASSUME NEW t \in used, t # Direct
        PROVE  LET e == resolveEgress(p, t)
               IN e.kind = "blackhole" \/ (e.kind = "interface" /\ e.iface \in Kernels(p))
    BY <1>3, <2>1, EgressOK
  <2>. QED
    BY <1>1, <1>5, <2>1 DEF Leads
<1>8. Zoned(pl)
  <2>1. ASSUME NEW z \in Zones(p, c), ~z.scoped
        PROVE  z.s4 = {} /\ z.s6 = {} /\ z.tags = {}
    <3>1. \/ \E r \in Range(p.rules) : z \in RuleZones(p, r)
          \/ \E l \in Range(p.lists) : z \in ListZones(p, l, c)
      BY DEF Zones
    <3>2. \A r : z \in RuleZones(p, r) =>
             z \in addZone(<<2, r.id>>, r.out, Carried(p, r.out, r.ips), {}, Carried(p, r.out, r.src), r.tags)
      BY DEF RuleZones
    <3>3. \A l : z \in ListZones(p, l, c) =>
             z \in addZone(<<1, l.id>>, l.out, Carried(p, l.out, l.ips \cup l.cache),
                           IF c /\ ~Strips(p, l.out) THEN l.doms ELSE {}, {}, {})
      BY DEF ListZones
    <3>. QED
      BY <2>1, <3>1, <3>2, <3>3, AddZoneOK
  <2>. QED
    BY <1>1, <1>4, <2>1 DEF Zoned
<1>. QED
  BY <1>6, <1>7, <1>8 DEF PlanFacts, pl

LEMMA NoPlanOK == PlanFacts(NoPlan)
  BY DEF PlanFacts, MarksApart, Leads, Zoned, NoPlan

(* Where a mark leads. *)
LEMMA RouteOK ==
    ASSUME NEW pl, PlanFacts(pl), NEW k, NEW m, NEW links
    PROVE  /\ m \in {0, 1} => KernelRoute(pl, k, m, links) = "main"
           /\ m > 1 /\ m \in Marks(pl) /\ k.dst \notin Private /\ (Is6(k) => hasV6(pl)) =>
                LET e == pl.egs[TagOf(pl, m)] IN
                KernelRoute(pl, k, m, links) \in
                  {"drop"} \cup (IF e.iface \in links THEN {e.iface} ELSE IF e.closed THEN {} ELSE {"main"})
<1>. DEFINE es == {t \in DOMAIN pl.egs : pl.egs[t].mark = m /\ t # Direct}
<1>1. ASSUME m \in {0, 1}
      PROVE  KernelRoute(pl, k, m, links) = "main"
  <2>1. es = {}
    BY <1>1 DEF PlanFacts, MarksApart
  <2>. QED
    BY <2>1 DEF KernelRoute
<1>2. ASSUME m > 1, m \in Marks(pl), k.dst \notin Private, Is6(k) => hasV6(pl)
      PROVE  LET e == pl.egs[TagOf(pl, m)] IN
             KernelRoute(pl, k, m, links) \in
               {"drop"} \cup (IF e.iface \in links THEN {e.iface} ELSE IF e.closed THEN {} ELSE {"main"})
  <2>1. PICK t \in DOMAIN pl.egs : pl.egs[t].mark = m
    BY <1>2 DEF Marks
  <2>2. \A u \in DOMAIN pl.egs : pl.egs[u].mark = m => u = t
    BY <2>1 DEF PlanFacts, MarksApart
  <2>3. TagOf(pl, m) = t
    BY <2>1, <2>2 DEF TagOf
  <2>4. es = {t} /\ t # Direct
    BY <1>2, <2>1, <2>2 DEF PlanFacts, MarksApart
  <2>5. (CHOOSE u \in es : TRUE) = t
    BY <2>4
  <2>6. KernelRoute(pl, k, m, links) = Table(pl, pl.egs[t], k, links)
    BY <1>2, <2>4, <2>5 DEF KernelRoute
  <2>7. pl.egs[t].kind = "blackhole" \/ (pl.egs[t].kind = "interface" /\ pl.egs[t].iface \in pl.masq)
    BY <2>4 DEF PlanFacts, Leads
  <2>. QED
    BY <2>3, <2>6, <2>7 DEF Table
<1>. QED
  BY <1>1, <1>2

(* The matches of both planes. *)
LEMMA SameMatch ==
    ASSUME NEW pl, PlanFacts(pl), NEW k, NEW z \in pl.zones
    PROVE  IpsetMatch(z, k, {}) <=> NftMatch(z, k)
<1>1. CASE z.scoped
  BY <1>1 DEF IpsetMatch, NftMatch
<1>2. CASE ~z.scoped
  <2>1. SrcOk(z, k)
    BY <1>2 DEF PlanFacts, Zoned, SrcOk
  <2>. QED
    BY <1>2, <2>1 DEF IpsetMatch, NftMatch
<1>. QED
  BY <1>1, <1>2

(* A zone that matches an IPv6 packet makes the plan have IPv6 rules. *)
LEMMA MatchHasRule ==
    ASSUME NEW pl, NEW z \in pl.zones, NEW k, Is6(k), NEW ds, NftMatch(z, k) \/ IpsetMatch(z, k, ds)
    PROVE  hasV6(pl)
<1>1. DstOk(z, k) \/ (z.scoped /\ SrcOk(z, k) /\ NoDst(z))
  BY DEF NftMatch, IpsetMatch
<1>2. CASE DstOk(z, k)
  <2>1. z.v6 # {}
    BY <1>2 DEF DstOk, Covers
  <2>. QED
    BY <2>1 DEF hasV6
<1>3. CASE z.scoped /\ SrcOk(z, k) /\ NoDst(z)
  <2>1. z.s6 # {} \/ (z.s4 = {} /\ z.s6 = {})
    BY <1>3 DEF SrcOk
  <2>. QED
    BY <1>3, <2>1 DEF hasV6
<1>. QED
  BY <1>1, <1>2, <1>3

(* What either plane makes of a packet. *)
LEMMA MarkOK ==
    ASSUME NEW pl, PlanFacts(pl), NEW k, NEW saved, NEW ds, NEW m,
           m \in {NftMark(pl, k, saved), IpsetMark(pl, k, saved, ds)}, saved # 0 /\ Is6(k) => hasV6(pl)
    PROVE  /\ k.dst \in pl.bypass => m \in {0, 1}
           /\ m > 1 /\ Is6(k) => hasV6(pl)
<1>1. k.dst \in pl.bypass => m \in {0, 1}
  BY DEF NftMark, IpsetMark, WanMark
<1>2. ASSUME m > 1, Is6(k), saved = 0
      PROVE  hasV6(pl)
  <2>1. 0 \notin Marks(pl) /\ k.dst \notin pl.bypass
    BY <1>1, <1>2 DEF PlanFacts, MarksApart, Marks
  <2>2. CASE m = NftMark(pl, k, 0)
    <3>1. m = ZoneMark(pl, {z \in pl.zones : NftMatch(z, k)}, 0)
      BY <2>1, <2>2 DEF NftMark
    <3>2. \E z \in pl.zones : NftMatch(z, k)
      BY <1>2, <3>1 DEF ZoneMark
    <3>. QED
      BY <1>2, <3>2, MatchHasRule
  <2>3. CASE m = IpsetMark(pl, k, 0, ds)
    <3>1. m = ZoneMark(pl, {z \in pl.zones : IpsetMatch(z, k, ds)}, 0)
      BY <2>1, <2>3 DEF IpsetMark
    <3>2. \E z \in pl.zones : IpsetMatch(z, k, ds)
      BY <1>2, <3>1 DEF ZoneMark
    <3>. QED
      BY <1>2, <3>2, MatchHasRule
  <2>. QED
    BY <1>2, <2>2, <2>3
<1>. QED
  BY <1>1, <1>2

(* A fresh packet takes the same way on both planes. *)
LEMMA SameWay ==
    ASSUME NEW pl, PlanFacts(pl), NEW k, NEW links
    PROVE  KernelRoute(pl, k, NftMark(pl, k, 0), links) = KernelRoute(pl, k, IpsetMark(pl, k, 0, {}), links)
<1>1. CASE k.dst \in pl.bypass
  <2>1. NftMark(pl, k, 0) = 1 /\ IpsetMark(pl, k, 0, {}) = 0
    BY <1>1 DEF NftMark, IpsetMark, WanMark
  <2>2. KernelRoute(pl, k, 1, links) = "main" /\ KernelRoute(pl, k, 0, links) = "main"
    BY RouteOK
  <2>. QED
    BY <2>1, <2>2
<1>2. CASE k.dst \notin pl.bypass
  <2>1. 0 \notin Marks(pl)
    BY DEF PlanFacts, MarksApart, Marks
  <2>2. {z \in pl.zones : NftMatch(z, k)} = {z \in pl.zones : IpsetMatch(z, k, {})}
    BY SameMatch
  <2>3. NftMark(pl, k, 0) = ZoneMark(pl, {z \in pl.zones : NftMatch(z, k)}, 0)
    BY <1>2, <2>1 DEF NftMark
  <2>4. IpsetMark(pl, k, 0, {}) = ZoneMark(pl, {z \in pl.zones : IpsetMatch(z, k, {})}, 0)
    BY <1>2 DEF IpsetMark
  <2>. QED
    BY <2>2, <2>3, <2>4
<1>. QED
  BY <1>1, <1>2

LEMMA CarriedOK ==
    ASSUME PlanFacts(plan)
    PROVE  MarkedIsCarried
<1>. SUFFICES ASSUME NEW k \in Packets,
                     NEW saved \in {0} \cup {ct[f] : f \in {g \in Flows : g = k /\ (Is6(g) => hasV6(plan))}}
              PROVE  LET m == MarkNow(plan, k, saved) IN
                     /\ m > WanMark /\ m \in Marks(plan) /\ k.dst \notin Private =>
                          LET e == plan.egs[TagOf(plan, m)] IN
                          KernelRoute(plan, k, m, up) \in
                             {"drop"} \cup (IF e.iface \in up THEN {e.iface} ELSE IF e.closed THEN {} ELSE {"main"})
                     /\ k.dst \in plan.bypass => KernelRoute(plan, k, m, up) = "main"
                     /\ saved = 0 => KernelRoute(plan, k, NftMark(plan, k, 0), up)
                                      = KernelRoute(plan, k, IpsetMark(plan, k, 0, {}), up)
  BY DEF MarkedIsCarried
<1>. DEFINE m == MarkNow(plan, k, saved)
<1>1. saved # 0 /\ Is6(k) => hasV6(plan)
  OBVIOUS
<1>2. m \in {NftMark(plan, k, saved), IpsetMark(plan, k, saved, dns)}
  BY DEF MarkNow
<1>. HIDE DEF m
<1>3. /\ k.dst \in plan.bypass => m \in {0, 1}
      /\ m > 1 /\ Is6(k) => hasV6(plan)
  BY <1>1, <1>2, MarkOK
<1>4. /\ m \in {0, 1} => KernelRoute(plan, k, m, up) = "main"
      /\ m > 1 /\ m \in Marks(plan) /\ k.dst \notin Private /\ (Is6(k) => hasV6(plan)) =>
           LET e == plan.egs[TagOf(plan, m)] IN
           KernelRoute(plan, k, m, up) \in
             {"drop"} \cup (IF e.iface \in up THEN {e.iface} ELSE IF e.closed THEN {} ELSE {"main"})
  BY RouteOK
<1>5. KernelRoute(plan, k, NftMark(plan, k, 0), up) = KernelRoute(plan, k, IpsetMark(plan, k, 0, {}), up)
  BY SameWay
<1>. QED
  BY <1>3, <1>4, <1>5 DEF m, WanMark

(* The zones of a plan can be told apart, and one of them comes last. *)
Named(zs) == \A z \in zs : z.name[1] \in {1, 2} /\ z.name[2] \in Nat
Ordered(zs) ==
    /\ IsFiniteSet(zs) /\ Named(zs)
    /\ \A z, y \in zs : z.name[1] = y.name[1] /\ z.name[2] = y.name[2] => z = y

LEMMA LastZoneOK ==
    ASSUME NEW zs, Ordered(zs), zs # {}
    PROVE  LastZone(zs) \in zs
<1>. DEFINE Above(z) == {y \in zs : Before(z.name, y.name)}
            Cards == {Cardinality(Above(z)) : z \in zs}
<1>1. ASSUME NEW z \in zs
      PROVE  IsFiniteSet(Above(z)) /\ Cardinality(Above(z)) \in Nat
  BY FS_Subset, FS_CardinalityType DEF Ordered
<1>2. PICK z \in zs : \A y \in zs : Cardinality(Above(z)) <= Cardinality(Above(y))
  <2>1. Cards \subseteq Nat /\ Cards # {}
    BY <1>1
  <2>. HIDE DEF Above
  <2>2. PICK n \in Cards : \A m \in Cards : n <= m
    <3>. HIDE DEF Cards
    <3>. QED
      BY <2>1, Least
  <2>. QED
    BY <2>2
<1>3. ASSUME NEW y \in zs \ {z}, ~Before(y.name, z.name)
      PROVE  FALSE
  <2>1. Before(z.name, y.name)
    BY <1>3 DEF Before, Ordered, Named
  <2>2. Above(y) \subseteq Above(z)
    <3>1. ASSUME NEW x \in zs, Before(y.name, x.name)
          PROVE  Before(z.name, x.name)
      BY <2>1, <3>1 DEF Before, Ordered, Named
    <3>. QED
      BY <3>1
  <2>3. y \in Above(z) /\ y \notin Above(y)
    BY <2>1 DEF Before, Ordered, Named
  <2>. HIDE DEF Above
  <2>4. Cardinality(Above(y)) <= Cardinality(Above(z)) /\ Cardinality(Above(y)) # Cardinality(Above(z))
    BY <1>1, <2>2, <2>3, FS_Subset
  <2>. QED
    BY <1>1, <1>2, <2>4
<1>4. \A y \in zs \ {z} : Before(y.name, z.name)
  BY <1>3
<1>. QED
  BY <1>4 DEF LastZone

(* A sequence has finitely many entries, and so has what is made of them. *)
LEMMA RangeFinite ==
    ASSUME NEW q, q \in Seq(Range(q))
    PROVE  IsFiniteSet(Range(q))
<1>1. DOMAIN q = 1 .. Len(q) /\ Len(q) \in Nat
  OBVIOUS
<1>2. IsFiniteSet(DOMAIN q)
  BY <1>1, FS_Interval
<1>3. q \in Surjection(DOMAIN q, Range(q))
  BY <1>1 DEF Range, Surjection
<1>. QED
  BY <1>2, <1>3, FS_Surjection

LEMMA AddZoneFinite ==
    ASSUME NEW nm, NEW t, NEW cs, NEW doms, NEW src, NEW tags
    PROVE  /\ IsFiniteSet(addZone(nm, t, cs, doms, src, tags))
           /\ \A z, y \in addZone(nm, t, cs, doms, src, tags) : z = y /\ z.name = nm
<1>. DEFINE v == [name |-> nm, out |-> t,
                  v4 |-> collapsePrefixes(V4(cs)),  v6 |-> collapsePrefixes(V6(cs)),
                  s4 |-> collapsePrefixes(V4(src)), s6 |-> collapsePrefixes(V6(src)),
                  doms |-> doms, tags |-> tags, scoped |-> src # {} \/ tags # {}]
<1>1. addZone(nm, t, cs, doms, src, tags) \in {{}, {v}}
  BY Zenon DEF addZone
<1>2. v.name = nm
  OBVIOUS
<1>. HIDE DEF v
<1>3. IsFiniteSet({v}) /\ IsFiniteSet({})
  BY FS_EmptySet, FS_Singleton
<1>. QED
  BY <1>1, <1>2, <1>3

LEMMA ZonesOrdered ==
    ASSUME NEW p, WellFormed(p), NEW c
    PROVE  Ordered(Zones(p, c))
<1>1. \A r \in Range(p.rules) :
         /\ IsFiniteSet(RuleZones(p, r))
         /\ \A z, y \in RuleZones(p, r) : z = y /\ z.name = <<2, r.id>>
  BY AddZoneFinite, FS_EmptySet DEF RuleZones
<1>2. \A l \in Range(p.lists) :
         /\ IsFiniteSet(ListZones(p, l, c))
         /\ \A z, y \in ListZones(p, l, c) : z = y /\ z.name = <<1, l.id>>
  <2>. SUFFICES ASSUME NEW l \in Range(p.lists)
                PROVE  /\ IsFiniteSet(ListZones(p, l, c))
                       /\ \A z, y \in ListZones(p, l, c) : z = y /\ z.name = <<1, l.id>>
    OBVIOUS
  <2>. DEFINE ds == IF c /\ ~Strips(p, l.out) THEN l.doms ELSE {}
              zs == addZone(<<1, l.id>>, l.out, Carried(p, l.out, l.ips \cup l.cache), ds, {}, {})
  <2>1. ListZones(p, l, c) \in {{}, zs}
    BY DEF ListZones
  <2>. HIDE DEF ds
  <2>2. IsFiniteSet(zs) /\ \A z, y \in zs : z = y /\ z.name = <<1, l.id>>
    <3>1. IsFiniteSet(zs)
      BY AddZoneFinite
    <3>2. ASSUME NEW z \in zs, NEW y \in zs
          PROVE  z = y /\ z.name = <<1, l.id>>
      BY AddZoneFinite
    <3>. QED
      BY <3>1, <3>2
  <2>. QED
    BY <2>1, <2>2, FS_EmptySet
<1>3. IsFiniteSet(Range(p.rules)) /\ IsFiniteSet(Range(p.lists))
  BY RangeFinite DEF WellFormed
<1>. DEFINE RZ == {RuleZones(p, r) : r \in Range(p.rules)}
            LZ == {ListZones(p, l, c) : l \in Range(p.lists)}
<1>4. IsFiniteSet(RZ)
  <2>. DEFINE f == [r \in Range(p.rules) |-> RuleZones(p, r)]
  <2>1. f \in Surjection(Range(p.rules), RZ)
    BY DEF Surjection
  <2>. QED
    BY <1>3, <2>1, FS_Surjection
<1>5. IsFiniteSet(LZ)
  <2>. DEFINE f == [l \in Range(p.lists) |-> ListZones(p, l, c)]
  <2>1. f \in Surjection(Range(p.lists), LZ)
    BY DEF Surjection
  <2>. QED
    BY <1>3, <2>1, FS_Surjection
<1>6. IsFiniteSet(UNION RZ) /\ IsFiniteSet(UNION LZ)
  <2>1. \A T \in RZ : IsFiniteSet(T)
    BY <1>1
  <2>2. \A T \in LZ : IsFiniteSet(T)
    BY <1>2
  <2>. HIDE DEF RZ, LZ
  <2>. QED
    BY <1>4, <1>5, <2>1, <2>2, FS_UNION
<1>7. IsFiniteSet(Zones(p, c))
  <2>1. Zones(p, c) = (UNION RZ) \cup (UNION LZ)
    BY DEF Zones
  <2>. HIDE DEF RZ, LZ
  <2>. QED
    BY <1>6, <2>1, FS_Union
<1>8. ASSUME NEW z \in Zones(p, c)
      PROVE  \/ \E r \in Range(p.rules) : z \in RuleZones(p, r) /\ z.name = <<2, r.id>> /\ r.id \in Nat
             \/ \E l \in Range(p.lists) : z \in ListZones(p, l, c) /\ z.name = <<1, l.id>> /\ l.id \in Nat
  <2>1. \/ \E r \in Range(p.rules) : z \in RuleZones(p, r)
        \/ \E l \in Range(p.lists) : z \in ListZones(p, l, c)
    BY DEF Zones
  <2>. QED
    BY <1>1, <1>2, <2>1 DEF WellFormed
<1>9. Named(Zones(p, c))
  BY <1>8 DEF Named
<1>10. ASSUME NEW z \in Zones(p, c), NEW y \in Zones(p, c), z.name[1] = y.name[1], z.name[2] = y.name[2]
       PROVE  z = y
  <2>1. CASE z.name[1] = 2
    <3>1. PICK r \in Range(p.rules) : z \in RuleZones(p, r) /\ z.name[2] = r.id
      BY <1>8, <2>1
    <3>2. PICK s \in Range(p.rules) : y \in RuleZones(p, s) /\ y.name[2] = s.id
      <4>1. y.name[1] = 2
        BY <1>10, <2>1
      <4>. QED
        BY <1>8, <4>1
    <3>3. r = s
      BY <1>10, <3>1, <3>2 DEF WellFormed
    <3>. QED
      BY <1>1, <3>1, <3>2, <3>3
  <2>2. CASE z.name[1] = 1
    <3>1. PICK l \in Range(p.lists) : z \in ListZones(p, l, c) /\ z.name[2] = l.id
      BY <1>8, <2>2
    <3>2. PICK m \in Range(p.lists) : y \in ListZones(p, m, c) /\ y.name[2] = m.id
      <4>1. y.name[1] = 1
        BY <1>10, <2>2
      <4>. QED
        BY <1>8, <4>1
    <3>3. l = m
      BY <1>10, <3>1, <3>2 DEF WellFormed
    <3>. QED
      BY <1>2, <3>1, <3>2, <3>3
  <2>. QED
    BY <1>9, <2>1, <2>2 DEF Named
<1>. QED
  BY <1>7, <1>9, <1>10 DEF Ordered

-----------------------------------------------------------------------------
(* Whatever plan is in force has these properties, and a connection that the*)
(* flowtable carries has no mark.                                           *)
PlanesInv ==
    /\ PlanFacts(plan) /\ Ordered(plan.zones)
    /\ ct = [f \in Flows |-> ct[f]] /\ off \subseteq Flows
    /\ \A f \in off : ct[f] = 0

LEMMA PlanForOK ==
    ASSUME NEW p, WellFormed(p), NEW m, NEW pl
    PROVE  PlanFacts(PlanFor(p, m, pl)) /\ Ordered(PlanFor(p, m, pl).zones)
<1>1. PlanFor(p, m, pl) = NoPlan \/ \E c : PlanFor(p, m, pl) = Compile(p, c)
  BY DEF PlanFor
<1>2. PlanFacts(NoPlan) /\ Ordered(NoPlan.zones)
  BY NoPlanOK, FS_EmptySet DEF NoPlan, Ordered, Named
<1>3. \A c : PlanFacts(Compile(p, c)) /\ Ordered(Compile(p, c).zones)
  <2>1. \A c : Compile(p, c).zones = Zones(p, c)
    BY DEF Compile
  <2>. QED
    BY <2>1, PlanOK, ZonesOrdered
<1>. QED
  BY <1>1, <1>2, <1>3

LEMMA PlanesInitOK ==
    ASSUME NEW p, WellFormed(p), PlanesInit(p)
    PROVE  PlanesInv
<1>1. plan = PlanFor(p, mode, plane) /\ ct = [f \in Flows |-> 0] /\ off = {}
  BY DEF PlanesInit
<1>2. PlanFacts(plan) /\ Ordered(plan.zones)
  BY <1>1, PlanForOK
<1>. QED
  BY <1>1, <1>2 DEF PlanesInv

(* An offloaded connection has just been found unmarked. *)
LEMMA OffloadOK ==
    ASSUME PlanesInv, NEW f \in Flows, Offloads(f)
    PROVE  Saved(f) = 0 /\ ~(ct[f] \in Marks(plan))
<1>1. plane = "nft" /\ MarkNow(plan, f, ct[f]) = 0
  BY DEF Offloads
<1>2. NftMark(plan, f, ct[f]) = 0
  BY <1>1 DEF MarkNow
<1>3. f.dst \notin plan.bypass
  BY <1>2 DEF NftMark, WanMark
<1>4. 0 \notin Marks(plan)
  BY DEF PlanesInv, PlanFacts, MarksApart, Marks
<1>5. ct[f] \notin Marks(plan)
  BY <1>2, <1>3, <1>4 DEF NftMark
<1>. QED
  BY <1>1, <1>3, <1>5 DEF Saved

LEMMA PlanesStep ==
    ASSUME \A p \in NextProfiles : WellFormed(p), PlanesInv, [PlanesNext]_planesVars
    PROVE  PlanesInv'
<1>1. ASSUME NEW f \in Flows, Packet(f)
      PROVE  PlanesInv'
  <2>1. plan' = plan /\ ct' = [ct EXCEPT ![f] = Saved(f)] /\ f \notin off
        /\ off' = (IF Offloads(f) THEN off \cup {f} ELSE off)
    BY <1>1 DEF Packet
  <2>2. ct' = [g \in Flows |-> IF g = f THEN Saved(f) ELSE ct[g]]
    BY <2>1 DEF PlanesInv
  <2>3. ct' = [g \in Flows |-> ct'[g]] /\ off' \subseteq Flows
    BY <2>1, <2>2 DEF PlanesInv
  <2>4. \A g \in off' : ct'[g] = 0
    BY <2>1, <2>2, OffloadOK DEF PlanesInv
  <2>. QED
    BY <2>1, <2>3, <2>4 DEF PlanesInv
<1>2. ASSUME NEW q \in NextProfiles, Reapply(q)
      PROVE  PlanesInv'
  <2>1. plan' = PlanFor(q, mode, plane) /\ ct' = ct /\ off' = {}
    BY <1>2 DEF Reapply
  <2>2. PlanFacts(plan') /\ Ordered(plan'.zones)
    BY <2>1, PlanForOK
  <2>. QED
    BY <2>1, <2>2 DEF PlanesInv
<1>3. ASSUME UNCHANGED <<plan, ct, off>>
      PROVE  PlanesInv'
  BY <1>3 DEF PlanesInv
<1>. QED
  BY <1>1, <1>2, <1>3 DEF PlanesNext, planesVars, Link, Lookup, Expire

(* A connection's next packet, sent where it was sent before. *)
NoDirectZone == \A z \in plan.zones : z.out # Direct

LEMMA PinnedOK ==
    ASSUME PlanesInv, plane = "ipset" => NoDirectZone, plane \in {"nft", "ipset"},
           NEW f \in Flows, ct[f] \in Marks(plan) \ {WanMark}, f.dst \notin plan.bypass
    PROVE  Saved(f) > WanMark
<1>1. ct[f] > 1
  BY DEF PlanesInv, PlanFacts, MarksApart, Marks, WanMark
<1>2. CASE plane = "nft"
  BY <1>1, <1>2 DEF Saved, MarkNow, NftMark, WanMark
<1>3. CASE plane = "ipset"
  <2>. DEFINE zs == {z \in plan.zones : IpsetMatch(z, f, dns)}
  <2>1. Saved(f) = ZoneMark(plan, zs, ct[f])
    BY <1>3 DEF Saved, MarkNow, IpsetMark
  <2>2. CASE zs = {}
    BY <1>1, <2>1, <2>2 DEF ZoneMark, WanMark
  <2>3. CASE zs # {}
    <3>1. Ordered(zs)
      <4>1. IsFiniteSet(zs)
        BY FS_Subset DEF PlanesInv, Ordered
      <4>. QED
        BY <4>1 DEF PlanesInv, Ordered, Named
    <3>2. LastZone(zs) \in plan.zones
      BY <2>3, <3>1, LastZoneOK
    <3>. DEFINE t == LastZone(zs).out
    <3>3. t \in DOMAIN plan.egs /\ t # Direct
      BY <1>3, <3>2 DEF PlanesInv, PlanFacts, Zoned, NoDirectZone
    <3>4. Saved(f) = plan.egs[t].mark
      BY <2>1, <2>3 DEF ZoneMark
    <3>. HIDE DEF t
    <3>. QED
      BY <3>3, <3>4 DEF PlanesInv, PlanFacts, MarksApart, WanMark
  <2>. QED
    BY <2>2, <2>3
<1>. QED
  BY <1>2, <1>3

LEMMA StickyStep ==
    ASSUME PlanesInv, plane = "ipset" => NoDirectZone, plane \in {"nft", "ipset"}, [PlanesNext]_planesVars
    PROVE  \A f \in Flows : plan' = plan /\ ct[f] \in Marks(plan) \ {WanMark} /\ f.dst \notin plan.bypass =>
               ct'[f] > WanMark /\ f \notin off'
<1>. SUFFICES ASSUME NEW f \in Flows, plan' = plan, ct[f] \in Marks(plan) \ {WanMark}, f.dst \notin plan.bypass
              PROVE  ct'[f] > WanMark /\ f \notin off'
  OBVIOUS
<1>1. ct[f] > WanMark /\ f \notin off /\ ~Offloads(f)
  <2>1. ct[f] > WanMark
    BY DEF PlanesInv, PlanFacts, MarksApart, Marks, WanMark
  <2>. QED
    BY <2>1, OffloadOK DEF PlanesInv, WanMark
<1>2. ASSUME NEW g \in Flows, Packet(g)
      PROVE  ct'[f] > WanMark /\ f \notin off'
  <2>1. ct' = [ct EXCEPT ![g] = Saved(g)] /\ off' = (IF Offloads(g) THEN off \cup {g} ELSE off)
    BY <1>2 DEF Packet
  <2>2. ct'[f] = (IF f = g THEN Saved(g) ELSE ct[f])
    BY <2>1 DEF PlanesInv
  <2>3. f = g => Saved(g) > WanMark
    BY PinnedOK
  <2>. QED
    BY <1>1, <2>1, <2>2, <2>3
<1>3. ASSUME NEW q \in NextProfiles, Reapply(q)
      PROVE  ct'[f] > WanMark /\ f \notin off'
  BY <1>1, <1>3 DEF Reapply
<1>4. ASSUME UNCHANGED <<ct, off>>
      PROVE  ct'[f] > WanMark /\ f \notin off'
  BY <1>1, <1>4
<1>. QED
  BY <1>2, <1>3, <1>4 DEF PlanesNext, planesVars, Link, Lookup, Expire

(* MarkedIsCarried, for any packets, flows and profiles with a place in the *)
(* alphabet for each outbound and every kernel endpoint enabled.            *)
THEOREM TunnelsCarry ==
    ASSUME \A p \in NextProfiles : WellFormed(p)
    PROVE  PlanesSpec => []MarkedIsCarried
<1>1. (\E p \in NextProfiles : PlanesInit(p)) => PlanesInv
  BY PlanesInitOK
<1>2. PlanesInv /\ [PlanesNext]_planesVars => PlanesInv'
  BY PlanesStep
<1>3. PlanesInv => MarkedIsCarried
  BY CarriedOK DEF PlanesInv
<1>. QED
  BY <1>1, <1>2, <1>3, PTL DEF PlanesSpec

(* Sticky, in addition: on the ipset plane as long as no zone goes out      *)
(* directly, for such a zone may take a connection over.                    *)
THEOREM ConnectionsStick ==
    ASSUME \A p \in NextProfiles : WellFormed(p)
    PROVE  PlanesSpec /\ [](plane = "ipset" => NoDirectZone) => Sticky
<1>. DEFINE A == \A f \in Flows : plan' = plan /\ ct[f] \in Marks(plan) \ {WanMark} /\ f.dst \notin plan.bypass =>
                     ct'[f] > WanMark /\ f \notin off'
            H == plane = "ipset" => NoDirectZone
            K == plane \in {"nft", "ipset"}
<1>1. (\E p \in NextProfiles : PlanesInit(p)) => PlanesInv /\ K
  BY PlanesInitOK DEF PlanesInit
<1>2. PlanesInv /\ K /\ [PlanesNext]_planesVars => (PlanesInv /\ K)'
  <2>1. K /\ [PlanesNext]_planesVars => K'
    BY DEF PlanesNext, planesVars, Packet, Reapply, Link, Lookup, Expire
  <2>. QED
    BY <2>1, PlanesStep
<1>3. PlanesInv /\ K /\ H /\ [PlanesNext]_planesVars => [A]_planesVars
  BY StickyStep
<1>4. Sticky <=> [][A]_planesVars
  BY DEF Sticky
<1>. HIDE DEF A, H, K
<1>5. PlanesSpec /\ []H => [][A]_planesVars
  BY <1>1, <1>2, <1>3, PTL DEF PlanesSpec
<1>. QED
  BY <1>4, <1>5 DEF H
-----------------------------------------------------------------------------
(* Validate: what enabled entries and groups name exists and is enabled. *)
Enabled(p) == {t \in DOMAIN p.ep : p.ep[t].on}
Resolves(p) ==
    /\ \A e \in LiveRules(p) \cup LiveLists(p) : e.out \in {Direct, Block} \cup Enabled(p) \cup DOMAIN p.gr
    /\ \A g \in DOMAIN p.gr : Range(p.gr[g].members) \subseteq {Direct} \cup Enabled(p) \cup DOMAIN p.gr

(* hybridReachable holds the roots and is closed under membership. *)
LEMMA ReachOK ==
    ASSUME NEW p
    PROVE  /\ Roots(p) \subseteq hybridReachable(p)
           /\ \A t \in hybridReachable(p) : Members(p, t) \subseteq hybridReachable(p)
<1>. DEFINE roots == Roots(p)
            tags == roots \cup UNION {Members(p, g) : g \in DOMAIN p.gr}
            closed == {S \in SUBSET tags : roots \subseteq S /\ \A t \in S : Members(p, t) \subseteq S}
<1>1. hybridReachable(p) = {t \in tags : \A S \in closed : t \in S}
  BY DEF hybridReachable
<1>2. \A t : Members(p, t) \subseteq tags
  BY DEF Members, IsGroup
<1>. HIDE DEF roots, tags
<1>3. roots \subseteq tags
  BY DEF tags
<1>4. \A t \in hybridReachable(p) : Members(p, t) \subseteq hybridReachable(p)
  BY <1>1, <1>2
<1>5. roots \subseteq hybridReachable(p)
  BY <1>1, <1>3
<1>. QED
  BY <1>4, <1>5 DEF roots

(* So whatever the emitted entries, the final and the kept groups name is  *)
(* emitted as well.                                                        *)
LEMMA ResolvesOK ==
    ASSUME NEW p, Resolves(p), NEW hy \in BOOLEAN
    PROVE  /\ Targets(p, hy) \subseteq Outbounds(p, hy)
           /\ hy => (UNION {Members(p, g) : g \in hybridReachable(p)}) \subseteq Outbounds(p, hy)
<1>. DEFINE kept == IF hy THEN hybridReachable(p) ELSE DOMAIN p.ep \cup DOMAIN p.gr
<1>1. \A t \in {Direct} \cup Enabled(p) \cup DOMAIN p.gr : t = Direct \/ t \in kept \/ ~hy => t \in Outbounds(p, hy)
  BY DEF Outbounds, Enabled
<1>2. \A e \in LiveRules(p) : ~(hy /\ KernelRule(p, e)) /\ e.out # Block /\ hy => e.out = Direct \/ e.out \in kept
  BY ReachOK DEF Roots
<1>3. \A e \in LiveLists(p) : ~(hy /\ KernelList(p, e)) /\ e.out # Block /\ hy => e.out = Direct \/ e.out \in kept
  BY ReachOK DEF Roots
<1>4. ASSUME NEW i \in routeFrom(p, hy), p.rules[i].out # Block
      PROVE  p.rules[i].out \in Outbounds(p, hy)
  <2>1. p.rules[i] \in LiveRules(p) /\ ~(hy /\ KernelRule(p, p.rules[i]))
    BY <1>4 DEF routeFrom, LiveRules, Range
  <2>. QED
    BY <1>1, <1>2, <1>4, <2>1 DEF Resolves
<1>5. ASSUME NEW i \in routingFrom(p, hy), p.lists[i].out # Block
      PROVE  p.lists[i].out \in Outbounds(p, hy)
  <2>1. p.lists[i] \in LiveLists(p) /\ ~(hy /\ KernelList(p, p.lists[i]))
    BY <1>5 DEF routingFrom, LiveLists, Range
  <2>. QED
    BY <1>1, <1>3, <1>5, <2>1 DEF Resolves
<1>6. Final(p) # Block => Final(p) \in Outbounds(p, hy)
  <2>1. CASE Defaults(p) = {}
    BY <1>1, <2>1 DEF Final
  <2>2. CASE Defaults(p) # {}
    <3>1. Final(p) \in Defaults(p)
      BY <2>2 DEF Final
    <3>2. PICK r \in LiveRules(p) : r.default /\ r.out = Final(p)
      BY <3>1 DEF Defaults
    <3>3. ~KernelRule(p, r)
      BY <3>2 DEF KernelRule
    <3>. QED
      BY <1>1, <1>2, <3>2, <3>3 DEF Resolves
  <2>. QED
    BY <2>1, <2>2
<1>7. ASSUME hy, NEW g \in hybridReachable(p), NEW m \in Members(p, g)
      PROVE  m \in Outbounds(p, hy)
  <2>1. m \in hybridReachable(p)
    BY ReachOK
  <2>2. m \in {Direct} \cup Enabled(p) \cup DOMAIN p.gr
    BY DEF Members, IsGroup, Resolves
  <2>. QED
    BY <1>1, <1>7, <2>1, <2>2
<1>. QED
  BY <1>4, <1>5, <1>6, <1>7 DEF Targets

(* A route of the generated config names only outbounds that the config    *)
(* has, whatever hybrid mode leaves to the kernel (singbox.go              *)
(* hybridReachable, routeFrom, routingFrom), for profiles that Validate    *)
(* accepts.                                                                *)
THEOREM RoutesName ==
    ASSUME \A p \in NextProfiles : Resolves(p)
    PROVE  PlanesSpec => []RouteResolves
<1>. DEFINE I == Resolves(prof)
<1>1. (\E p \in NextProfiles : PlanesInit(p)) => I
  BY DEF PlanesInit
<1>2. I /\ [PlanesNext]_planesVars => I'
  BY DEF PlanesNext, planesVars, Packet, Reapply, Link, Lookup, Expire
<1>3. I => RouteResolves
  <2>1. (mode \in {"hybrid", "fast"}) \in BOOLEAN
    OBVIOUS
  <2>. QED
    BY <2>1, ResolvesOK DEF RouteResolves
<1>. QED
  BY <1>1, <1>2, <1>3, PTL DEF PlanesSpec

(* What else Validate guarantees: a CIDR is a non-empty set of addresses of *)
(* one family, and a rule that is not the default has some matcher.  And no *)
(* interface has the name that stands for the main table here.              *)
IsCidrs(cs) == \A c \in cs : c # {} /\ (c \subseteq Addr4 \/ c \subseteq Addr6)
Matchable(p) ==
    /\ \A r \in LiveRules(p) : IsCidrs(r.ips) /\ IsCidrs(r.src) /\ (r.default \/ HasMatch(r) \/ r.tags # {})
    /\ \A l \in LiveLists(p) : IsCidrs(l.ips \cup l.cache)
    /\ "main" \notin DOMAIN p.ep

(* collapsePrefixes drops only what something larger covers. *)
LEMMA CollapseOK ==
    ASSUME NEW U, IsFiniteSet(U), NEW cs, \A c \in cs : c \subseteq U
    PROVE  \A c \in cs : \E d \in collapsePrefixes(cs) : c \subseteq d
<1>. TAKE c \in cs
<1>. DEFINE n(d) == Cardinality(U) - Cardinality(d)
            T == {n(d) : d \in {e \in cs : c \subseteq e}}
<1>1. \A d \in cs : IsFiniteSet(d) /\ Cardinality(d) \in Nat /\ Cardinality(d) <= Cardinality(U)
  BY FS_Subset, FS_CardinalityType
<1>2. Cardinality(U) \in Nat
  BY FS_CardinalityType
<1>3. \A d \in cs : n(d) \in Nat
  BY <1>1, <1>2
<1>4. T \subseteq Nat /\ T # {}
  BY <1>3
<1>5. PICK x \in T : \A y \in T : x <= y
  BY <1>4, Least
<1>6. PICK d \in cs : c \subseteq d /\ x = n(d)
  BY <1>5
<1>7. ASSUME NEW e \in cs, d \subseteq e
      PROVE  d = e
  <2>1. n(d) <= n(e)
    BY <1>5, <1>6, <1>7
  <2>2. Cardinality(d) <= Cardinality(e) /\ (Cardinality(e) = Cardinality(d) => e = d)
    BY <1>1, <1>7, FS_Subset
  <2>3. Cardinality(e) \in Nat /\ Cardinality(d) \in Nat
    BY <1>1
  <2>. QED
    BY <1>2, <2>1, <2>2, <2>3
<1>. QED
  BY <1>6, <1>7 DEF collapsePrefixes

(* Hence it covers the same addresses. *)
LEMMA CollapseCovers ==
    ASSUME NEW U, IsFiniteSet(U), NEW cs, \A c \in cs : c \subseteq U
    PROVE  /\ \A x : Covers(collapsePrefixes(cs), x) <=> Covers(cs, x)
           /\ collapsePrefixes(cs) = {} <=> cs = {}
<1>1. \A c \in cs : \E d \in collapsePrefixes(cs) : c \subseteq d
  BY CollapseOK
<1>2. collapsePrefixes(cs) \subseteq cs
  BY DEF collapsePrefixes
<1>. QED
  BY <1>1, <1>2 DEF Covers

(* The two families of a set of CIDRs, collapsed, cover what it covers. *)
LEMMA FamiliesCover ==
    ASSUME NEW cs, IsCidrs(cs)
    PROVE  LET v4 == collapsePrefixes(V4(cs))
               v6 == collapsePrefixes(V6(cs)) IN
           /\ v4 = {} /\ v6 = {} <=> cs = {}
           /\ \A x \in Addr4 : Covers(v4, x) <=> Covers(cs, x)
           /\ \A x \in Addr6 : Covers(v6, x) <=> Covers(cs, x)
           /\ \A x : Covers(v4, x) => x \in Addr4
           /\ \A x : Covers(v6, x) => x \in Addr6
<1>1. (\A c \in V4(cs) : c \subseteq Addr4) /\ (\A c \in V6(cs) : c \subseteq Addr6)
  BY DEF V4, V6
<1>2. /\ \A x : Covers(collapsePrefixes(V4(cs)), x) <=> Covers(V4(cs), x)
      /\ collapsePrefixes(V4(cs)) = {} <=> V4(cs) = {}
  BY <1>1, CollapseCovers, PbrAssumption
<1>3. /\ \A x : Covers(collapsePrefixes(V6(cs)), x) <=> Covers(V6(cs), x)
      /\ collapsePrefixes(V6(cs)) = {} <=> V6(cs) = {}
  BY <1>1, CollapseCovers, PbrAssumption
<1>4. cs = V4(cs) \cup V6(cs)
  BY DEF V4, V6, IsCidrs
<1>5. \A x \in Addr4 : Covers(V4(cs), x) <=> Covers(cs, x)
  BY PbrAssumption DEF V4, IsCidrs, Covers
<1>6. \A x \in Addr6 : Covers(V6(cs), x) <=> Covers(cs, x)
  BY PbrAssumption DEF V6, IsCidrs, Covers
<1>7. (\A x : Covers(V4(cs), x) => x \in Addr4) /\ (\A x : Covers(V6(cs), x) => x \in Addr6)
  BY DEF V4, V6, Covers
<1>. QED
  BY <1>2, <1>3, <1>4, <1>5, <1>6, <1>7

(* A packet against the zone that addZone makes. *)
ZoneOf(z, t, cs, src, tags, k) ==
    /\ z.out = t /\ (z.scoped <=> src # {} \/ tags # {})
    /\ NftMatch(z, k) <=> /\ cs # {} => Covers(cs, k.dst)
                          /\ src # {} => Covers(src, k.src)
                          /\ tags # {} => k.tag \in tags
    /\ k.dst \in UNION (z.v4 \cup z.v6) <=> Covers(cs, k.dst)
LEMMA AddZoneMatch ==
    ASSUME NEW nm, NEW t, NEW cs, IsCidrs(cs), NEW src, IsCidrs(src), NEW tags,
           NEW z \in addZone(nm, t, cs, {}, src, tags), NEW k \in Packets
    PROVE  ZoneOf(z, t, cs, src, tags, k)
<1>1. /\ z.out = t /\ z.tags = tags /\ (z.scoped <=> src # {} \/ tags # {})
      /\ z.v4 = collapsePrefixes(V4(cs)) /\ z.v6 = collapsePrefixes(V6(cs))
      /\ z.s4 = collapsePrefixes(V4(src)) /\ z.s6 = collapsePrefixes(V6(src))
      /\ cs # {} \/ src # {} \/ tags # {}
  <2>. DEFINE sc == src # {} \/ tags # {}
              rec == [name |-> nm, out |-> t,
                      v4 |-> collapsePrefixes(V4(cs)),  v6 |-> collapsePrefixes(V6(cs)),
                      s4 |-> collapsePrefixes(V4(src)), s6 |-> collapsePrefixes(V6(src)),
                      doms |-> {}, tags |-> tags, scoped |-> sc]
  <2>1. z \in (IF cs = {} /\ src = {} /\ tags = {} THEN {} ELSE {rec})
    BY Zenon DEF addZone
  <2>2. z = rec /\ (cs # {} \/ src # {} \/ tags # {})
    BY <2>1
  <2>. HIDE DEF sc
  <2>3. z.out = t /\ z.tags = tags /\ z.scoped = sc
    BY <2>2
  <2>4. /\ z.v4 = collapsePrefixes(V4(cs)) /\ z.v6 = collapsePrefixes(V6(cs))
        /\ z.s4 = collapsePrefixes(V4(src)) /\ z.s6 = collapsePrefixes(V6(src))
    BY <2>2
  <2>. QED
    BY <2>2, <2>3, <2>4 DEF sc
<1>2. \/ k.src \in Addr4 /\ k.dst \in Addr4 /\ ~Is6(k)
      \/ k.src \in Addr6 /\ k.dst \in Addr6 /\ Is6(k)
  BY PacketsAssumption, PbrAssumption DEF Is6
<1>3. /\ z.v4 = {} /\ z.v6 = {} <=> cs = {}
      /\ \A x \in Addr4 : Covers(z.v4, x) <=> Covers(cs, x)
      /\ \A x \in Addr6 : Covers(z.v6, x) <=> Covers(cs, x)
      /\ \A x : Covers(z.v4, x) => x \in Addr4
      /\ \A x : Covers(z.v6, x) => x \in Addr6
  BY <1>1, FamiliesCover
<1>4. /\ z.s4 = {} /\ z.s6 = {} <=> src = {}
      /\ \A x \in Addr4 : Covers(z.s4, x) <=> Covers(src, x)
      /\ \A x \in Addr6 : Covers(z.s6, x) <=> Covers(src, x)
  BY <1>1, FamiliesCover
<1>5. DstOk(z, k) <=> Covers(cs, k.dst)
  BY <1>2, <1>3 DEF DstOk
<1>6. SrcOk(z, k) <=> (src # {} => Covers(src, k.src)) /\ (tags # {} => k.tag \in tags)
  <2>1. Covers(IF Is6(k) THEN z.s6 ELSE z.s4, k.src) <=> Covers(src, k.src)
    BY <1>2, <1>4
  <2>2. Covers(IF Is6(k) THEN z.s6 ELSE z.s4, k.src) => (IF Is6(k) THEN z.s6 ELSE z.s4) # {}
    BY DEF Covers
  <2>. QED
    BY <1>1, <1>4, <2>1, <2>2 DEF SrcOk
<1>7. NoDst(z) <=> cs = {}
  BY <1>3 DEF NoDst
<1>8. cs = {} => ~Covers(cs, k.dst)
  BY DEF Covers
<1>9. k.dst \in UNION (z.v4 \cup z.v6) <=> Covers(z.v4, k.dst) \/ Covers(z.v6, k.dst)
  BY DEF Covers
<1>10. k.dst \in UNION (z.v4 \cup z.v6) <=> Covers(cs, k.dst)
  BY <1>2, <1>3, <1>9, PbrAssumption
<1>. QED
  BY <1>1, <1>5, <1>6, <1>7, <1>8, <1>10 DEF NftMatch, ZoneOf

(* The zone of a rule of a plain profile matches what the rule means. *)
LEMMA RuleZone ==
    ASSUME NEW p, Matchable(p), Plain(p), NEW r \in LiveRules(p), ~r.default, NEW k \in Packets
    PROVE  /\ \A z \in RuleZones(p, r) :
                 /\ z.out = r.out /\ (NftMatch(z, k) <=> RuleMeans(r, k)) /\ (z.scoped <=> HasSourceMatcher(r))
                 /\ k.dst \in UNION (z.v4 \cup z.v6) <=> Covers(r.ips, k.dst)
           /\ RuleZones(p, r) # {} <=> (r.ips # {} \/ HasSourceMatcher(r)) /\ resolveEgress(p, r.out).kind # "none"
<1>1. ~r.disabled /\ IsCidrs(r.ips) /\ IsCidrs(r.src)
  BY DEF LiveRules, Matchable
<1>2. /\ r.ports \cup r.dom # {} => r.ips = {} /\ ~HasSourceMatcher(r)
      /\ Carried(p, r.out, r.ips) = r.ips /\ Carried(p, r.out, r.src) = r.src
  BY DEF Plain
<1>. DEFINE none == (r.ips = {} /\ ~HasSourceMatcher(r)) \/ resolveEgress(p, r.out).kind = "none"
<1>3. RuleZones(p, r) = IF none THEN {} ELSE addZone(<<2, r.id>>, r.out, r.ips, {}, r.src, r.tags)
  BY <1>1, <1>2 DEF RuleZones
<1>4. ~none => addZone(<<2, r.id>>, r.out, r.ips, {}, r.src, r.tags) # {}
  BY DEF addZone, HasSourceMatcher
<1>5. ASSUME NEW z \in RuleZones(p, r)
      PROVE  /\ z.out = r.out /\ (NftMatch(z, k) <=> RuleMeans(r, k)) /\ (z.scoped <=> HasSourceMatcher(r))
             /\ k.dst \in UNION (z.v4 \cup z.v6) <=> Covers(r.ips, k.dst)
  <2>1. ~none /\ z \in addZone(<<2, r.id>>, r.out, r.ips, {}, r.src, r.tags)
    BY <1>3, <1>5
  <2>2. /\ z.out = r.out /\ (z.scoped <=> r.src # {} \/ r.tags # {})
        /\ NftMatch(z, k) <=> /\ r.ips # {} => Covers(r.ips, k.dst)
                              /\ r.src # {} => Covers(r.src, k.src)
                              /\ r.tags # {} => k.tag \in r.tags
        /\ k.dst \in UNION (z.v4 \cup z.v6) <=> Covers(r.ips, k.dst)
    <3>1. ZoneOf(z, r.out, r.ips, r.src, r.tags, k)
      BY <1>1, <2>1, AddZoneMatch, Zenon
    <3>. QED
      BY <3>1 DEF ZoneOf
  <2>3. r.ports = {} /\ r.dom = {}
    BY <1>2, <2>1
  <2>. QED
    BY <2>2, <2>3 DEF RuleMeans, RuleTakes, HasSourceMatcher
<1>. QED
  BY <1>3, <1>4, <1>5

(* So does the zone of a list. *)
LEMMA ListZone ==
    ASSUME NEW p, Matchable(p), Plain(p), NEW l \in LiveLists(p), NEW k \in Packets
    PROVE  /\ \A z \in ListZones(p, l, FALSE) :
                 /\ z.out = l.out /\ (NftMatch(z, k) <=> Covers(l.ips \cup l.cache, k.dst)) /\ ~z.scoped
                 /\ k.dst \in UNION (z.v4 \cup z.v6) <=> Covers(l.ips \cup l.cache, k.dst)
           /\ ListZones(p, l, FALSE) # {} <=> l.ips \cup l.cache # {} /\ resolveEgress(p, l.out).kind # "none"
<1>. DEFINE cs == l.ips \cup l.cache
<1>1. l.enabled /\ IsCidrs(cs) /\ IsCidrs({})
  BY DEF LiveLists, Matchable, IsCidrs
<1>2. Carried(p, l.out, cs) = cs
  BY DEF Plain
<1>. HIDE DEF cs
<1>3. ListZones(p, l, FALSE) = IF resolveEgress(p, l.out).kind = "none" THEN {}
                               ELSE addZone(<<1, l.id>>, l.out, cs, {}, {}, {})
  BY <1>1, <1>2 DEF ListZones, cs
<1>4. addZone(<<1, l.id>>, l.out, cs, {}, {}, {}) # {} <=> cs # {}
  BY DEF addZone
<1>5. ASSUME NEW z \in ListZones(p, l, FALSE)
      PROVE  /\ z.out = l.out /\ (NftMatch(z, k) <=> Covers(cs, k.dst)) /\ ~z.scoped
             /\ k.dst \in UNION (z.v4 \cup z.v6) <=> Covers(cs, k.dst)
  <2>1. z \in addZone(<<1, l.id>>, l.out, cs, {}, {}, {}) /\ cs # {}
    BY <1>3, <1>4, <1>5
  <2>2. /\ z.out = l.out /\ ~z.scoped
        /\ NftMatch(z, k) <=> (cs # {} => Covers(cs, k.dst))
        /\ k.dst \in UNION (z.v4 \cup z.v6) <=> Covers(cs, k.dst)
    <3>1. ZoneOf(z, l.out, cs, {}, {}, k)
      BY <1>1, <2>1, AddZoneMatch, Zenon
    <3>. QED
      BY <3>1 DEF ZoneOf
  <2>. QED
    BY <2>1, <2>2
<1>. QED
  BY <1>3, <1>4, <1>5 DEF cs

(* A mark that is not the WAN's takes a packet out of the main table, all  *)
(* links being up.                                                         *)
LEMMA MarkLeaves ==
    ASSUME NEW p, WellFormed(p), Matchable(p), NEW pl, pl = Compile(p, FALSE), NEW k, NEW t \in DOMAIN pl.egs, t # Direct,
           k.dst \notin Private, Is6(k) => hasV6(pl)
    PROVE  /\ KernelRoute(pl, k, pl.egs[t].mark, DOMAIN p.ep) # "main"
           /\ TagOf(pl, pl.egs[t].mark) = t /\ pl.egs[t].mark > WanMark
<1>1. PlanFacts(pl)
  BY PlanOK
<1>2. {u \in DOMAIN pl.egs : pl.egs[u].mark = pl.egs[t].mark /\ u # Direct} = {t}
  BY <1>1 DEF PlanFacts, MarksApart
<1>3. TagOf(pl, pl.egs[t].mark) = t /\ pl.egs[t].mark > WanMark
  BY <1>1 DEF TagOf, PlanFacts, MarksApart, WanMark
<1>4. pl.masq = Kernels(p)
  BY DEF Compile
<1>5. Kernels(p) \subseteq DOMAIN p.ep
  BY DEF Kernels
<1>6. KernelRoute(pl, k, pl.egs[t].mark, DOMAIN p.ep) = Table(pl, pl.egs[t], k, DOMAIN p.ep)
  BY <1>2 DEF KernelRoute
<1>7. \/ pl.egs[t].kind = "blackhole"
      \/ pl.egs[t].kind = "interface" /\ pl.egs[t].iface \in pl.masq
  BY <1>1 DEF PlanFacts, Leads
<1>8. "main" \notin DOMAIN p.ep
  BY DEF Matchable
<1>9. Table(pl, pl.egs[t], k, DOMAIN p.ep) # "main"
  BY <1>4, <1>5, <1>7, <1>8 DEF Table
<1>. QED
  BY <1>3, <1>6, <1>9

(* Where the kernel plane sends a fresh packet. *)
Matching(p, k) == {z \in Zones(p, FALSE) : NftMatch(z, k)}
LEMMA KernelOutIs ==
    ASSUME NEW p, WellFormed(p), Matchable(p), NEW k \in Routed
    PROVE  /\ k.dst \in Bypass(p) \/ Matching(p, k) = {} => KernelOut(p, k) = Direct
           /\ k.dst \notin Bypass(p) /\ Matching(p, k) # {} => \E z \in Matching(p, k) : KernelOut(p, k) = z.out
<1>. DEFINE pl == Compile(p, FALSE)
            m == NftMark(pl, k, 0)
            zs == Matching(p, k)
<1>1. pl.zones = Zones(p, FALSE) /\ pl.bypass = Bypass(p)
  BY DEF Compile
<1>2. PlanFacts(pl)
  BY PlanOK
<1>3. KernelOut(p, k) = IF m > WanMark /\ KernelRoute(pl, k, m, DOMAIN p.ep) # "main" THEN TagOf(pl, m) ELSE Direct
  BY DEF KernelOut
<1>. HIDE DEF pl
<1>4. 0 \notin Marks(pl)
  BY <1>2 DEF PlanFacts, MarksApart, Marks
<1>5. CASE k.dst \in Bypass(p)
  <2>1. m = WanMark
    BY <1>1, <1>5 DEF NftMark
  <2>. QED
    BY <1>3, <1>5, <2>1 DEF WanMark
<1>6. CASE k.dst \notin Bypass(p)
  <2>1. m = ZoneMark(pl, zs, 0)
    BY <1>1, <1>4, <1>6 DEF NftMark, Matching
  <2>2. CASE zs = {}
    <3>1. m = 0
      BY <2>1, <2>2 DEF ZoneMark
    <3>. QED
      BY <1>3, <1>6, <2>2, <3>1 DEF WanMark
  <2>3. CASE zs # {}
    <3>1. Ordered(zs)
      <4>1. Ordered(Zones(p, FALSE)) /\ zs \subseteq Zones(p, FALSE)
        BY ZonesOrdered DEF Matching
      <4>. HIDE DEF zs
      <4>2. IsFiniteSet(zs)
        BY <4>1, FS_Subset DEF Ordered
      <4>. QED
        BY <4>1, <4>2 DEF Ordered, Named
    <3>2. LastZone(zs) \in zs
      BY <2>3, <3>1, LastZoneOK
    <3>. DEFINE z == LastZone(zs)
    <3>3. z \in pl.zones /\ NftMatch(z, k) /\ z.out \in DOMAIN pl.egs
      BY <1>1, <1>2, <3>2 DEF Matching, PlanFacts, Zoned
    <3>4. m = pl.egs[z.out].mark
      BY <2>1, <2>3 DEF ZoneMark
    <3>. HIDE DEF z, m
    <3>5. CASE z.out = Direct
      <4>1. m = 1
        BY <1>2, <3>3, <3>4, <3>5 DEF PlanFacts, MarksApart
      <4>. QED
        BY <1>3, <1>6, <2>3, <3>2, <3>5, <4>1 DEF WanMark, z
    <3>6. CASE z.out # Direct
      <4>1. Is6(k) => hasV6(pl)
        BY <3>3, MatchHasRule
      <4>2. k.dst \notin Private
        BY DEF Routed
      <4>3. /\ KernelRoute(pl, k, pl.egs[z.out].mark, DOMAIN p.ep) # "main"
            /\ TagOf(pl, pl.egs[z.out].mark) = z.out /\ pl.egs[z.out].mark > WanMark
        BY <3>3, <3>6, <4>1, <4>2, MarkLeaves DEF pl
      <4>. QED
        BY <1>3, <1>6, <2>3, <3>2, <3>4, <4>3 DEF z
    <3>. QED
      BY <3>5, <3>6
  <2>. QED
    BY <2>2, <2>3
<1>. QED
  BY <1>5, <1>6

(* Where resolveEgress and the generator agree on what the kernel routes. *)
LEMMA KindsOK ==
    ASSUME NEW p, WellFormed(p)
    PROVE  /\ resolveEgress(p, Direct).kind = "wan" /\ resolveEgress(p, Block).kind = "blackhole"
           /\ ~kernelEgress(p, Direct)
           /\ \A t : kernelEgress(p, t) => resolveEgress(p, t).kind # "none"
<1>1. {Direct, Block} \cap (DOMAIN p.ep \cup DOMAIN p.gr) = {} /\ DOMAIN p.ep \cap DOMAIN p.gr = {}
  BY DEF WellFormed
<1>2. resolveEgress(p, Direct).kind = "wan"
  BY <1>1, PbrAssumption DEF resolveEgress, IsEndpoint, IsGroup
<1>3. resolveEgress(p, Block).kind = "blackhole"
  BY <1>1, PbrAssumption DEF resolveEgress, IsEndpoint, IsGroup
<1>4. ~kernelEgress(p, Direct)
  BY <1>1 DEF kernelEgress, IsEndpoint, IsGroup
<1>5. ASSUME NEW t, kernelEgress(p, t)
      PROVE  resolveEgress(p, t).kind # "none"
  <2>1. t # Direct /\ t # Block
    BY <1>1, <1>5 DEF kernelEgress, IsEndpoint, IsGroup
  <2>2. CASE IsEndpoint(p, t) /\ kernelIface(p, t) # Nobody
    <3>1. ~IsGroup(p, t)
      BY <1>1, <2>2 DEF IsEndpoint, IsGroup
    <3>. QED
      BY <2>1, <2>2, <3>1 DEF resolveEgress
  <2>3. CASE ~(IsEndpoint(p, t) /\ kernelIface(p, t) # Nobody)
    BY <1>5, <2>1, <2>3 DEF resolveEgress, kernelEgress
  <2>. QED
    BY <2>2, <2>3
<1>. QED
  BY <1>2, <1>3, <1>4, <1>5

(* What a zone that matches a packet comes from. *)
Taken(p, z, k) ==
    /\ \E e \in Takers(p, k) : e.out = z.out
    /\ z.scoped => \E r \in LiveRules(p) : RuleMeans(r, k) /\ HasSourceMatcher(r) /\ r.out = z.out

(* The zones that match a packet are those of the entries that take it. *)
LEMMA ZonesMean ==
    ASSUME NEW p, Matchable(p), Plain(p), NEW k \in Packets
    PROVE  /\ \A z \in Matching(p, k) : Taken(p, z, k)
           /\ \A r \in LiveRules(p) :
                 RuleMeans(r, k) /\ (r.ips # {} \/ HasSourceMatcher(r)) /\ resolveEgress(p, r.out).kind # "none"
                 => Matching(p, k) # {}
           /\ \A l \in LiveLists(p) :
                 Covers(l.ips \cup l.cache, k.dst) /\ resolveEgress(p, l.out).kind # "none" => Matching(p, k) # {}
           /\ \A z \in Zones(p, FALSE) : ~z.scoped => (k.dst \in UNION (z.v4 \cup z.v6) <=> NftMatch(z, k))
<1>1. ASSUME NEW r \in LiveRules(p), RuleMeans(r, k), r.ips # {} \/ HasSourceMatcher(r), resolveEgress(p, r.out).kind # "none"
      PROVE  Matching(p, k) # {}
  <2>1. ~r.default /\ r \in Range(p.rules)
    BY <1>1 DEF RuleMeans, LiveRules
  <2>2. RuleZones(p, r) # {} /\ \A z \in RuleZones(p, r) : NftMatch(z, k)
    BY <1>1, <2>1, RuleZone
  <2>3. RuleZones(p, r) \subseteq Zones(p, FALSE)
    BY <2>1 DEF Zones
  <2>. QED
    BY <2>2, <2>3 DEF Matching
<1>2. ASSUME NEW l \in LiveLists(p), Covers(l.ips \cup l.cache, k.dst), resolveEgress(p, l.out).kind # "none"
      PROVE  Matching(p, k) # {}
  <2>1. l \in Range(p.lists) /\ l.ips \cup l.cache # {}
    BY <1>2 DEF LiveLists, Covers
  <2>2. ListZones(p, l, FALSE) # {} /\ \A z \in ListZones(p, l, FALSE) : NftMatch(z, k)
    BY <1>2, <2>1, ListZone
  <2>3. ListZones(p, l, FALSE) \subseteq Zones(p, FALSE)
    BY <2>1 DEF Zones
  <2>. QED
    BY <2>2, <2>3 DEF Matching
<1>3. ASSUME NEW z \in Zones(p, FALSE)
      PROVE  \/ \E r \in LiveRules(p) : /\ ~r.default /\ z.out = r.out /\ (NftMatch(z, k) <=> RuleMeans(r, k))
                                        /\ (z.scoped <=> HasSourceMatcher(r)) /\ (~HasSourceMatcher(r) => r.ips # {})
                                        /\ k.dst \in UNION (z.v4 \cup z.v6) <=> Covers(r.ips, k.dst)
             \/ \E l \in LiveLists(p) : /\ z.out = l.out /\ (NftMatch(z, k) <=> Covers(l.ips \cup l.cache, k.dst)) /\ ~z.scoped
                                        /\ k.dst \in UNION (z.v4 \cup z.v6) <=> Covers(l.ips \cup l.cache, k.dst)
  <2>1. CASE \E r \in Range(p.rules) : z \in RuleZones(p, r)
    <3>1. PICK r \in Range(p.rules) : z \in RuleZones(p, r)
      BY <2>1
    <3>2. r \in LiveRules(p) /\ ~r.default
      BY <3>1 DEF RuleZones, LiveRules
    <3>3. RuleZones(p, r) # {}
      BY <3>1
    <3>. QED
      BY <3>1, <3>2, <3>3, RuleZone
  <2>2. CASE \E l \in Range(p.lists) : z \in ListZones(p, l, FALSE)
    <3>1. PICK l \in Range(p.lists) : z \in ListZones(p, l, FALSE)
      BY <2>2
    <3>2. l \in LiveLists(p)
      BY <3>1 DEF ListZones, LiveLists
    <3>3. /\ z.out = l.out /\ (NftMatch(z, k) <=> Covers(l.ips \cup l.cache, k.dst)) /\ ~z.scoped
          /\ k.dst \in UNION (z.v4 \cup z.v6) <=> Covers(l.ips \cup l.cache, k.dst)
      BY <3>1, <3>2, ListZone, Zenon
    <3>. QED
      BY <3>2, <3>3, Zenon
  <2>. QED
    BY <1>3, <2>1, <2>2 DEF Zones
<1>4. ASSUME NEW z \in Matching(p, k)
      PROVE  Taken(p, z, k)
  <2>1. z \in Zones(p, FALSE) /\ NftMatch(z, k)
    BY DEF Matching
  <2>2. \A l \in LiveLists(p) : Covers(l.ips \cup l.cache, k.dst) => ListMeans(l, k)
    BY DEF ListMeans, ListTakes, Covers
  <2>3. \/ \E r \in LiveRules(p) : RuleMeans(r, k) /\ (z.scoped <=> HasSourceMatcher(r)) /\ r.out = z.out
        \/ \E l \in LiveLists(p) : ListMeans(l, k) /\ ~z.scoped /\ l.out = z.out
    BY <1>3, <2>1, <2>2
  <2>. QED
    BY <2>3 DEF Takers, Taken
<1>5. ASSUME NEW z \in Zones(p, FALSE), ~z.scoped
      PROVE  k.dst \in UNION (z.v4 \cup z.v6) <=> NftMatch(z, k)
  <2>1. ASSUME NEW r \in LiveRules(p), ~r.default, ~HasSourceMatcher(r), r.ips # {}
        PROVE  RuleMeans(r, k) <=> Covers(r.ips, k.dst)
    <3>1. r.ports = {} /\ r.dom = {}
      BY <2>1 DEF Plain
    <3>. QED
      BY <2>1, <3>1 DEF RuleMeans, RuleTakes, HasSourceMatcher
  <2>. QED
    BY <1>3, <1>5, <2>1
<1>. QED
  BY <1>1, <1>2, <1>4, <1>5

(* What hybrid mode keeps out of the TUN, for one packet. *)
LEMMA ExcludedIs ==
    ASSUME NEW p, Matchable(p), Plain(p), NEW k \in Packets
    PROVE  k.dst \in Excluded(p) <=>
             \/ k.dst \in Bypass(p)
             \/ \E z \in Matching(p, k) : ~z.scoped /\ resolveEgress(p, z.out).kind # "blackhole"
<1>. DEFINE zs == Zones(p, FALSE)
            pl == Compile(p, FALSE)
<1>1. pl.zones = zs /\ pl.bypass = Bypass(p)
  BY DEF Compile
<1>2. ASSUME NEW z \in zs
      PROVE  pl.egs[z.out].kind = resolveEgress(p, z.out).kind
  BY DEF Compile, Egress
<1>. HIDE DEF pl, zs
<1>3. k.dst \in Excluded(p) <=>
             \/ k.dst \in Bypass(p)
             \/ \E z \in zs : ~z.scoped /\ resolveEgress(p, z.out).kind # "blackhole" /\ k.dst \in UNION (z.v4 \cup z.v6)
  <2>1. Excluded(p) = pl.bypass \cup UNION {UNION (z.v4 \cup z.v6) :
                            z \in {y \in pl.zones : pl.egs[y.out].kind # "blackhole" /\ ~y.scoped}}
    BY DEF Excluded, pl
  <2>. QED
    BY <1>1, <1>2, <2>1
<1>4. \A z \in zs : ~z.scoped => (k.dst \in UNION (z.v4 \cup z.v6) <=> NftMatch(z, k))
  BY ZonesMean DEF zs
<1>5. Matching(p, k) = {z \in zs : NftMatch(z, k)}
  BY DEF Matching, zs
<1>. QED
  BY <1>3, <1>4, <1>5

(* An entry that takes a packet no zone matches is one that sing-box has. *)
LEMMA LeftToSingBox ==
    ASSUME NEW p, WellFormed(p), Matchable(p), Plain(p), NEW k \in Packets, Matching(p, k) = {}
    PROVE  /\ \A r \in LiveRules(p) : RuleMeans(r, k) =>
                 /\ ~KernelRule(p, r) /\ HasMatch(r)
                 /\ (r.ips = {} /\ ~HasSourceMatcher(r)) \/ resolveEgress(p, r.out).kind = "none"
           /\ \A l \in LiveLists(p) : ListMeans(l, k) =>
                 /\ ~KernelList(p, l) /\ ListTakes(l, k)
                 /\ ~Covers(l.ips, k.dst) \/ resolveEgress(p, l.out).kind = "none"
<1>1. ASSUME NEW r \in LiveRules(p), RuleMeans(r, k)
      PROVE  /\ ~KernelRule(p, r) /\ HasMatch(r)
             /\ (r.ips = {} /\ ~HasSourceMatcher(r)) \/ resolveEgress(p, r.out).kind = "none"
  <2>1. (r.ips = {} /\ ~HasSourceMatcher(r)) \/ resolveEgress(p, r.out).kind = "none"
    BY <1>1, ZonesMean
  <2>2. ~KernelRule(p, r)
    BY <2>1, KindsOK DEF KernelRule, ipOnlyKernelRule
  <2>3. ~r.default /\ (HasMatch(r) \/ r.tags # {})
    BY <1>1 DEF Matchable, RuleMeans
  <2>4. r.tags # {} => kernelEgress(p, r.out) \/ r.out = Block
    BY <2>3 DEF Plain
  <2>5. r.tags = {}
    <3>1. r.tags # {} => resolveEgress(p, r.out).kind # "none"
      BY <2>4, KindsOK
    <3>. QED
      BY <2>1, <3>1 DEF HasSourceMatcher
  <2>. QED
    BY <2>1, <2>2, <2>3, <2>5
<1>2. ASSUME NEW l \in LiveLists(p), ListMeans(l, k)
      PROVE  /\ ~KernelList(p, l) /\ ListTakes(l, k)
             /\ ~Covers(l.ips, k.dst) \/ resolveEgress(p, l.out).kind = "none"
  <2>1. ~Covers(l.ips \cup l.cache, k.dst) \/ resolveEgress(p, l.out).kind = "none"
    BY ZonesMean
  <2>2. Covers(l.cache, k.dst) => resolveEgress(p, l.out).kind # "none"
    BY DEF Plain, Covers
  <2>3. (Covers(l.ips, k.dst) \/ Covers(l.cache, k.dst)) <=> Covers(l.ips \cup l.cache, k.dst)
    BY DEF Covers
  <2>4. ~Covers(l.cache, k.dst)
    BY <2>1, <2>2, <2>3
  <2>5. ListTakes(l, k)
    BY <1>2, <2>4 DEF ListMeans
  <2>6. KernelList(p, l) => Covers(l.ips, k.dst) /\ resolveEgress(p, l.out).kind # "none"
    BY <2>5, KindsOK DEF KernelList, ListTakes
  <2>. QED
    BY <2>1, <2>3, <2>5, <2>6
<1>. QED
  BY <1>1, <1>2

(* Of a plain profile's entries, sing-box takes the ones that mean the     *)
(* packet, and goes where they agree.                                      *)
LEMMA SingBoxIs ==
    ASSUME NEW p, WellFormed(p), Plain(p), NEW k \in Packets, k.dst \notin endpointBypass(p), NEW o,
           \A e \in Takers(p, k) : e.out = o
    PROVE  LET es == {r \in LiveRules(p) : RuleMeans(r, k) /\ ~KernelRule(p, r) /\ HasMatch(r)}
                      \cup {l \in LiveLists(p) : ~KernelList(p, l) /\ ListTakes(l, k)} IN
           SingBoxRoute(p, TRUE, k) = IF es = {} THEN Final(p) ELSE o
<1>. DEFINE rs == {i \in routeFrom(p, TRUE) : RuleTakes(p.rules[i], k)}
            ls == {i \in routingFrom(p, TRUE) : ListTakes(p.lists[i], k)}
            er == {r \in LiveRules(p) : RuleMeans(r, k) /\ ~KernelRule(p, r) /\ HasMatch(r)}
            el == {l \in LiveLists(p) : ~KernelList(p, l) /\ ListTakes(l, k)}
<1>1. rs \subseteq Nat /\ ls \subseteq Nat
  BY DEF routeFrom, routingFrom, WellFormed
<1>2. ASSUME NEW i \in rs
      PROVE  p.rules[i] \in er
  <2>. DEFINE r == p.rules[i]
  <2>1. r \in LiveRules(p) /\ ~r.default /\ ~KernelRule(p, r) /\ HasMatch(r) /\ RuleTakes(r, k)
    BY DEF routeFrom, LiveRules, Range
  <2>. HIDE DEF r
  <2>2. r.tags = {}
    BY <2>1 DEF Plain, HasMatch, HasSourceMatcher
  <2>. QED
    BY <2>1, <2>2 DEF RuleMeans, r
<1>3. ASSUME NEW r \in er
      PROVE  rs # {}
  <2>1. r \in Range(p.rules) /\ ~r.disabled /\ ~r.default /\ ~KernelRule(p, r) /\ HasMatch(r) /\ RuleTakes(r, k)
    BY DEF LiveRules, RuleMeans
  <2>2. PICK i \in DOMAIN p.rules : p.rules[i] = r
    BY <2>1 DEF Range
  <2>3. i \in rs
    BY <2>1, <2>2 DEF routeFrom
  <2>. QED
    BY <2>3
<1>4. ASSUME NEW i \in ls
      PROVE  p.lists[i] \in el
  BY DEF routingFrom, LiveLists, Range
<1>5. ASSUME NEW l \in el
      PROVE  ls # {}
  <2>1. l \in Range(p.lists) /\ l.enabled /\ ~KernelList(p, l) /\ ListTakes(l, k)
    BY DEF LiveLists
  <2>2. l.ips \cup l.doms \cup l.remote # {}
    BY <2>1 DEF ListTakes, Covers
  <2>3. PICK i \in DOMAIN p.lists : p.lists[i] = l
    BY <2>1 DEF Range
  <2>4. i \in ls
    BY <2>1, <2>2, <2>3 DEF routingFrom
  <2>. QED
    BY <2>4
<1>6. er \cup el \subseteq Takers(p, k)
  BY DEF Takers, ListMeans
<1>7. SingBoxRoute(p, TRUE, k) =
        IF rs # {} THEN p.rules[Min(rs)].out
        ELSE IF ls # {} THEN IF \E i \in ls : p.lists[i].out = Block THEN Block ELSE p.lists[Min(ls)].out
        ELSE Final(p)
  BY DEF SingBoxRoute
<1>. HIDE DEF rs, ls, er, el
<1>8. rs # {} => Min(rs) \in rs
  <2>1. rs # {} => \E x \in rs : \A y \in rs : x <= y
    BY <1>1, Least
  <2>. QED
    BY <2>1 DEF Min
<1>9. ls # {} => Min(ls) \in ls
  <2>1. ls # {} => \E x \in ls : \A y \in ls : x <= y
    BY <1>1, Least
  <2>. QED
    BY <2>1 DEF Min
<1>10. \A i \in rs : p.rules[i].out = o
  BY <1>2, <1>6
<1>11. \A i \in ls : p.lists[i].out = o
  BY <1>4, <1>6
<1>12. SingBoxRoute(p, TRUE, k) = IF er \cup el = {} THEN Final(p) ELSE o
  <2>1. CASE rs # {}
    BY <1>2, <1>7, <1>8, <1>10, <2>1
  <2>2. CASE rs = {} /\ ls # {}
    BY <1>4, <1>7, <1>9, <1>11, <2>2
  <2>3. CASE rs = {} /\ ls = {}
    BY <1>3, <1>5, <1>7, <2>3
  <2>. QED
    BY <2>1, <2>2, <2>3
<1>. QED
  BY <1>12 DEF er, el

(* Every packet of a plain profile goes where the profile says. *)
LEMMA HonouredOK ==
    ASSUME NEW p, WellFormed(p), Matchable(p), Plain(p), NEW k \in Routed
    PROVE  /\ HybridOut(p, k) = Meant(p, k)
           /\ \A m : DatapathNativeOnly(p, m) /\ NoPorts(p) => KernelOut(p, k) = Meant(p, k)
<1>. DEFINE ko == KernelOut(p, k)
<1>1. k \in Packets
  BY DEF Routed
<1>2. HybridOut(p, k) = IF ko = Direct /\ k.dst \notin Excluded(p) THEN SingBoxRoute(p, TRUE, k) ELSE ko
  BY DEF HybridOut
<1>3. /\ k.dst \in Bypass(p) \/ Matching(p, k) = {} => ko = Direct
      /\ k.dst \notin Bypass(p) /\ Matching(p, k) # {} => \E z \in Matching(p, k) : ko = z.out
  BY KernelOutIs
<1>4. k.dst \in Excluded(p) <=>
             \/ k.dst \in Bypass(p)
             \/ \E z \in Matching(p, k) : ~z.scoped /\ resolveEgress(p, z.out).kind # "blackhole"
  BY <1>1, ExcludedIs
<1>5. Bypass(p) \subseteq endpointBypass(p)
  BY DEF Bypass, endpointBypass, Kernels
<1>6. \A z \in Matching(p, k) : Taken(p, z, k)
  BY <1>1, ZonesMean
<1>7. /\ \A e, f \in Takers(p, k) : e.out = f.out
      /\ k.dst \in endpointBypass(p) \ Bypass(p) => Takers(p, k) = {}
  BY <1>1 DEF Plain
<1>8. Meant(p, k) = IF k.dst \in endpointBypass(p) THEN Direct
                    ELSE IF Takers(p, k) = {} THEN Final(p) ELSE (CHOOSE e \in Takers(p, k) : TRUE).out
  BY DEF Meant
<1>. HIDE DEF ko
<1>9. CASE k.dst \in Bypass(p)
  BY <1>2, <1>3, <1>4, <1>5, <1>8, <1>9 DEF ko
<1>10. CASE k.dst \in endpointBypass(p) \ Bypass(p)
  <2>1. Matching(p, k) = {}
    BY <1>6, <1>7, <1>10 DEF Taken
  <2>2. SingBoxRoute(p, TRUE, k) = Direct
    BY <1>10 DEF SingBoxRoute
  <2>. QED
    BY <1>2, <1>3, <1>4, <1>8, <1>10, <2>1, <2>2 DEF ko
<1>11. CASE k.dst \notin endpointBypass(p) /\ Matching(p, k) # {}
  <2>1. PICK z \in Matching(p, k) : ko = z.out
    BY <1>3, <1>5, <1>11
  <2>2. PICK e \in Takers(p, k) : e.out = ko
    BY <1>6, <2>1 DEF Taken
  <2>3. Meant(p, k) = ko /\ \A f \in Takers(p, k) : f.out = ko
    BY <1>7, <1>8, <1>11, <2>2
  <2>4. ASSUME ko = Direct, k.dst \notin Excluded(p)
        PROVE  SingBoxRoute(p, TRUE, k) = ko
    <3>1. z.scoped
      <4>1. resolveEgress(p, z.out).kind # "blackhole"
        BY <2>1, <2>4, KindsOK
      <4>. QED
        BY <1>4, <2>4, <4>1
    <3>2. PICK r \in LiveRules(p) : RuleMeans(r, k) /\ HasSourceMatcher(r) /\ r.out = Direct
      BY <1>6, <2>1, <2>4, <3>1 DEF Taken
    <3>3. ~r.default /\ ~KernelRule(p, r)
      BY <3>2, KindsOK DEF RuleMeans, KernelRule
    <3>4. r.tags = {}
      BY <3>2, <3>3, KindsOK, PbrAssumption DEF Plain
    <3>5. HasMatch(r)
      BY <3>2, <3>4 DEF HasSourceMatcher, HasMatch
    <3>. QED
      BY <1>1, <1>11, <2>3, <3>2, <3>3, <3>5, SingBoxIs
  <2>. QED
    BY <1>2, <2>3, <2>4 DEF ko
<1>12. CASE k.dst \notin endpointBypass(p) /\ Matching(p, k) = {}
  <2>1. /\ \A r \in LiveRules(p) : RuleMeans(r, k) =>
                 /\ ~KernelRule(p, r) /\ HasMatch(r)
                 /\ (r.ips = {} /\ ~HasSourceMatcher(r)) \/ resolveEgress(p, r.out).kind = "none"
        /\ \A l \in LiveLists(p) : ListMeans(l, k) =>
                 /\ ~KernelList(p, l) /\ ListTakes(l, k)
                 /\ ~Covers(l.ips, k.dst) \/ resolveEgress(p, l.out).kind = "none"
    BY <1>1, <1>12, LeftToSingBox
  <2>2. ko = Direct /\ k.dst \notin Excluded(p)
    BY <1>3, <1>4, <1>5, <1>12
  <2>3. SingBoxRoute(p, TRUE, k) = Meant(p, k)
    <3>. DEFINE o == IF Takers(p, k) = {} THEN Direct ELSE (CHOOSE e \in Takers(p, k) : TRUE).out
                es == {r \in LiveRules(p) : RuleMeans(r, k) /\ ~KernelRule(p, r) /\ HasMatch(r)}
                      \cup {l \in LiveLists(p) : ~KernelList(p, l) /\ ListTakes(l, k)}
    <3>1. \A e \in Takers(p, k) : e.out = o
      BY <1>7
    <3>2. es = Takers(p, k)
      BY <2>1 DEF Takers, ListMeans
    <3>3. SingBoxRoute(p, TRUE, k) = IF es = {} THEN Final(p) ELSE o
      <4>. HIDE DEF o
      <4>. QED
        BY <1>1, <1>12, <3>1, SingBoxIs
    <3>. HIDE DEF es
    <3>. QED
      BY <1>8, <1>12, <3>2, <3>3
  <2>4. ASSUME NEW m, DatapathNativeOnly(p, m), NoPorts(p)
        PROVE  Meant(p, k) = Direct
    <3>1. Roots(p) = {}
      BY <2>4, ReachOK DEF DatapathNativeOnly
    <3>2. \A r \in LiveRules(p) : r.dom = {} /\ r.ports = {} /\ (r.default => r.out = Direct)
      BY <2>4 DEF DatapathNativeOnly, NoPorts, LiveRules
    <3>3. \A l \in LiveLists(p) : l.doms = {} /\ l.remote = {}
      BY <2>4 DEF DatapathNativeOnly
    <3>4. \A t \in {Direct, Block} : resolveEgress(p, t).kind # "none"
      BY KindsOK
    <3>5. ASSUME NEW r \in LiveRules(p), RuleMeans(r, k)
          PROVE  FALSE
      <4>1. r.out \in {Direct, Block}
        BY <2>1, <3>1, <3>5 DEF Roots
      <4>. QED
        BY <2>1, <3>2, <3>4, <3>5, <4>1 DEF HasMatch, HasSourceMatcher
    <3>6. ASSUME NEW l \in LiveLists(p), ListMeans(l, k)
          PROVE  FALSE
      <4>1. l.out \in {Direct, Block}
        BY <2>1, <3>1, <3>6 DEF Roots
      <4>. QED
        BY <2>1, <3>3, <3>4, <3>6, <4>1 DEF ListTakes
    <3>7. Takers(p, k) = {}
      BY <3>5, <3>6 DEF Takers
    <3>8. Final(p) = Direct
      BY <3>2 DEF Final, Defaults
    <3>. QED
      BY <1>8, <1>12, <3>7, <3>8
  <2>. QED
    BY <1>2, <2>2, <2>3, <2>4 DEF ko
<1>. QED
  BY <1>9, <1>10, <1>11, <1>12

(* ProfileHonoured, for profiles that Validate accepts: in hybrid mode a    *)
(* plain profile sends every packet where it says, whichever plane takes    *)
(* it, and DatapathNativeOnly is true only where the kernel plane does so   *)
(* alone (singbox.go, native_only.go, compile.go).                          *)
THEOREM PlanesHonour ==
    ASSUME \A p \in NextProfiles : WellFormed(p) /\ Matchable(p)
    PROVE  PlanesSpec => []ProfileHonoured
<1>. DEFINE I == WellFormed(prof) /\ Matchable(prof)
<1>1. (\E p \in NextProfiles : PlanesInit(p)) => I
  BY DEF PlanesInit
<1>2. I /\ [PlanesNext]_planesVars => I'
  BY DEF PlanesNext, planesVars, Packet, Reapply, Link, Lookup, Expire
<1>3. I => ProfileHonoured
  BY HonouredOK DEF ProfileHonoured
<1>. QED
  BY <1>1, <1>2, <1>3, PTL DEF PlanesSpec
=============================================================================
