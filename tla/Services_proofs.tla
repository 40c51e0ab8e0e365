-------------------------- MODULE Services_proofs --------------------------
(***************************************************************************)
(* Proofs about what an order of the user writes.  Store: the profile in   *)
(* memory is the one on disk, and deleting, replacing and restoring never  *)
(* spoil it, for any ids, bundles and number of failed writes.  Updater:   *)
(* what is installed runs, and the backup comes first.  Jobs: hardening a  *)
(* server never locks its user out, and the connections it gave work on.   *)
(***************************************************************************)
EXTENDS Store, Updater, Jobs, TLAPS

StoreInv == TypeOK /\ DiskAgrees

(* commitLocked with a well-formed profile keeps memory and disk together. *)
LEMMA CommitKeeps ==
    ASSUME StoreInv, NEW p \in Profiles, Commit(p), UNCHANGED rest
    PROVE  StoreInv'
<1>1. mode' = mode /\ modeDisk' = modeDisk /\ rs' = rs
  BY DEF rest, cfgVars
<1>2. prof' \in Profiles /\ disk' \in Profiles /\ prof' = disk'
  BY DEF Commit, Undone, StoreInv, TypeOK, DiskAgrees
<1>3. faults' \in 0..MaxFaults
  BY StoreAssumption DEF Commit, Fault, StoreInv, TypeOK
<1>. QED
  BY <1>1, <1>2, <1>3 DEF StoreInv, TypeOK, DiskAgrees

(* What the user edits and deletes leaves a profile a profile. *)
LEMMA EditsTyped ==
    ASSUME prof \in Profiles
    PROVE  /\ \A e \in Eps, s \in {"on", "off"} : [prof EXCEPT !.ep[e] = s] \in Profiles
           /\ \A g \in Grs, ms \in MemberSets : [prof EXCEPT !.gr[g] = ms] \in Profiles
           /\ \A r \in Rus, t \in RuleOuts \cup {None} : [prof EXCEPT !.ru[r] = t] \in Profiles
           /\ \A l \in Lis, v \in ListVals \cup {None} : [prof EXCEPT !.li[l] = v] \in Profiles
<1>. USE DEF Profiles
<1>1. ASSUME NEW e \in Eps, NEW s \in {"on", "off"} PROVE [prof EXCEPT !.ep[e] = s] \in Profiles
  OBVIOUS
<1>2. ASSUME NEW g \in Grs, NEW ms \in MemberSets PROVE [prof EXCEPT !.gr[g] = ms] \in Profiles
  BY StoreAssumption
<1>3. ASSUME NEW r \in Rus, NEW t \in RuleOuts \cup {None} PROVE [prof EXCEPT !.ru[r] = t] \in Profiles
  BY StoreAssumption
<1>4. ASSUME NEW l \in Lis, NEW v \in ListVals \cup {None} PROVE [prof EXCEPT !.li[l] = v] \in Profiles
  BY StoreAssumption
<1>. QED
  BY <1>1, <1>2, <1>3, <1>4

LEMMA PrunesTyped ==
    ASSUME prof \in Profiles
    PROVE  /\ \A e \in Eps : [prof EXCEPT !.ep[e] = "none", !.gr = Pruned(@, e)] \in Profiles
           /\ \A g \in Grs : [prof EXCEPT !.gr = Pruned([@ EXCEPT ![g] = None], g)] \in Profiles
<1>1. ASSUME NEW gr \in [Grs -> {None} \cup SUBSET Ids], NEW id
      PROVE  Pruned(gr, id) \in [Grs -> {None} \cup SUBSET Ids]
  BY <1>1 DEF Pruned
<1>2. ASSUME NEW e \in Eps PROVE [prof EXCEPT !.ep[e] = "none", !.gr = Pruned(@, e)] \in Profiles
  <2>1. Pruned(prof.gr, e) \in [Grs -> {None} \cup SUBSET Ids]
    BY <1>1 DEF Profiles
  <2>. QED
    BY <2>1 DEF Profiles
<1>3. ASSUME NEW g \in Grs PROVE [prof EXCEPT !.gr = Pruned([@ EXCEPT ![g] = None], g)] \in Profiles
  <2>1. [prof.gr EXCEPT ![g] = None] \in [Grs -> {None} \cup SUBSET Ids]
    BY DEF Profiles
  <2>2. Pruned([prof.gr EXCEPT ![g] = None], g) \in [Grs -> {None} \cup SUBSET Ids]
    BY <2>1, <1>1
  <2>. QED
    BY <2>2 DEF Profiles
<1>. QED
  BY <1>2, <1>3

LEMMA StoreInit == Init => StoreInv
<1>. SUFFICES ASSUME Init PROVE StoreInv
  OBVIOUS
<1>1. Empty \in Profiles
  BY DEF Empty, Profiles
<1>. QED
  BY <1>1, StoreAssumption DEF Init, NoRestore, StoreInv, TypeOK, DiskAgrees

(* The steps outside commitLocked. *)
LEMMA ConfigStep ==
    ASSUME StoreInv,
           \/ \E b \in Bundles : RestoreProfile(b)
           \/ RestoreServers \/ RestoreConfig \/ Restart
           \/ \E m \in Modes : PersistConfig(m)
    PROVE  StoreInv'
<1>. USE StoreAssumption DEF StoreInv, TypeOK, DiskAgrees, cfgVars, Fault, NoRestore
<1>1. ASSUME NEW b \in Bundles, RestoreProfile(b) PROVE StoreInv'
  <2>1. b.prof \in Profiles /\ b.mode \in Modes \cup {BadMode}
    OBVIOUS
  <2>. QED
    BY <1>1, <2>1 DEF RestoreProfile
<1>2. CASE RestoreServers
  BY <1>2 DEF RestoreServers
<1>3. CASE RestoreConfig
  BY <1>3 DEF RestoreConfig, ModeOK
<1>4. CASE Restart
  BY <1>4 DEF Restart
<1>5. ASSUME NEW m \in Modes, PersistConfig(m) PROVE StoreInv'
  BY <1>5 DEF PersistConfig
<1>. QED
  BY <1>1, <1>2, <1>3, <1>4, <1>5

LEMMA StoreStep == StoreInv /\ [Next]_vars => StoreInv'
<1>. SUFFICES ASSUME StoreInv, [Next]_vars PROVE StoreInv'
  OBVIOUS
<1>0. prof \in Profiles
  BY DEF StoreInv, TypeOK
<1>1. ASSUME NEW e \in Eps, NEW s \in {"on", "off"}, UpsertEndpoint(e, s) PROVE StoreInv'
  BY <1>0, <1>1, EditsTyped, CommitKeeps DEF UpsertEndpoint
<1>2. ASSUME NEW g \in Grs, NEW ms \in MemberSets, UpsertGroup(g, ms) PROVE StoreInv'
  BY <1>0, <1>2, EditsTyped, CommitKeeps DEF UpsertGroup
<1>3. ASSUME NEW r \in Rus, NEW t \in RuleOuts, UpsertRule(r, t) PROVE StoreInv'
  BY <1>0, <1>3, EditsTyped, CommitKeeps DEF UpsertRule
<1>4. ASSUME NEW l \in Lis, NEW v \in ListVals, UpsertRoutingList(l, v) PROVE StoreInv'
  BY <1>0, <1>4, EditsTyped, CommitKeeps DEF UpsertRoutingList
<1>5. CASE Delete
  <2>1. ASSUME NEW e \in Eps, DeleteEndpoint(e) PROVE StoreInv'
    BY <1>0, <2>1, PrunesTyped, CommitKeeps DEF DeleteEndpoint
  <2>2. ASSUME NEW g \in Grs, DeleteGroup(g) PROVE StoreInv'
    BY <1>0, <2>2, PrunesTyped, CommitKeeps DEF DeleteGroup
  <2>3. ASSUME NEW r \in Rus, DeleteRule(r) PROVE StoreInv'
    BY <1>0, <2>3, EditsTyped, CommitKeeps DEF DeleteRule
  <2>4. ASSUME NEW l \in Lis, DeleteRoutingList(l) PROVE StoreInv'
    BY <1>0, <2>4, EditsTyped, CommitKeeps DEF DeleteRoutingList
  <2>. QED
    BY <1>5, <2>1, <2>2, <2>3, <2>4 DEF Delete
<1>6. ASSUME NEW b \in Bundles, Replace(b) PROVE StoreInv'
  <2>1. b.prof \in Profiles
    BY StoreAssumption
  <2>. QED
    BY <1>6, <2>1, CommitKeeps DEF Replace
<1>7. CASE UNCHANGED vars
  BY <1>7 DEF vars, cfgVars, StoreInv, TypeOK, DiskAgrees
<1>. QED
  BY <1>1, <1>2, <1>3, <1>4, <1>5, <1>6, <1>7, ConfigStep DEF Next

(* The store, the config and a restore under way are always well-formed.   *)
THEOREM StoreTyped == Spec => []TypeOK
<1>1. StoreInv => TypeOK
  BY DEF StoreInv
<1>. QED
  BY <1>1, StoreInit, StoreStep, PTL DEF Spec

(* commitLocked: whatever writes fail and however the daemon restarts, the *)
(* profile an Apply would read is the one a reboot would read.             *)
THEOREM ProfileIsOnDisk == Spec => []DiskAgrees
<1>1. StoreInv => DiskAgrees
  BY DEF StoreInv
<1>. QED
  BY <1>1, StoreInit, StoreStep, PTL DEF Spec
-----------------------------------------------------------------------------
(* DeleteEndpoint: the references that are left were checked not to be to  *)
(* it; the group of its own name, if any, cannot contain only it, since a  *)
(* valid profile has no cycle.                                             *)
LEMMA EndpointGone ==
    ASSUME prof \in Profiles, Valid(prof), NEW e \in Eps, ~InUse(e)
    PROVE  Valid([prof EXCEPT !.ep[e] = "none", !.gr = Pruned(@, e)])
<1>. DEFINE p == [prof EXCEPT !.ep[e] = "none", !.gr = Pruned(@, e)]
<1>0. /\ \A t \in Eps : p.ep[t] = IF t = e THEN "none" ELSE prof.ep[t]
      /\ \A g \in Grs : p.gr[g] = IF prof.gr[g] = None THEN None ELSE prof.gr[g] \ {e}
      /\ p.ru = prof.ru /\ p.li = prof.li
  BY DEF Profiles, Pruned
<1>1. Groups(p) = Groups(prof)
  <2>1. ASSUME NEW g \in Grs, prof.gr[g] # None PROVE p.gr[g] # None
    BY <1>0, <2>1, StoreAssumption DEF Profiles
  <2>. QED
    BY <1>0, <2>1 DEF Groups
<1>. HIDE DEF p
<1>2. ASSUME NEW t, t # e, Usable(prof, t) PROVE Usable(p, t)
  BY <1>0, <1>1, <1>2 DEF Usable, Groups
<1>3. ASSUME NEW g \in Groups(prof) PROVE e \in prof.gr[g] => prof.gr[g] # {e}
  <2>1. CASE g = e
    <3>1. prof.gr[g] \cap {g} = {}
      BY <1>3 DEF Valid, Acyclic
    <3>. QED
      BY <2>1, <3>1
  <2>2. CASE g # e
    BY <1>3, <2>2 DEF InUse, OnlyMember
  <2>. QED
    BY <2>1, <2>2
<1>4. ASSUME NEW g \in Groups(p) PROVE p.gr[g] # {} /\ \A t \in p.gr[g] : Usable(p, t)
  <2>1. g \in Groups(prof) /\ g \in Grs /\ p.gr[g] = prof.gr[g] \ {e}
    BY <1>0, <1>1, <1>4 DEF Groups
  <2>2. prof.gr[g] # {} /\ \A t \in prof.gr[g] : Usable(prof, t)
    BY <2>1 DEF Valid
  <2>. QED
    BY <1>2, <1>3, <2>1, <2>2
<1>5. Acyclic(p)
  <2>1. ASSUME NEW S \in SUBSET Groups(p), S # {} PROVE \E g \in S : p.gr[g] \cap S = {}
    <3>1. PICK g \in S : prof.gr[g] \cap S = {}
      BY <1>1, <2>1 DEF Valid, Acyclic
    <3>2. p.gr[g] = prof.gr[g] \ {e}
      BY <1>0, <1>1, <2>1 DEF Groups
    <3>. QED
      BY <3>1, <3>2
  <2>. QED
    BY <2>1 DEF Acyclic
<1>6. ASSUME NEW r \in Rus, p.ru[r] # None PROVE Usable(p, p.ru[r])
  <2>1. prof.ru[r] # e /\ Usable(prof, prof.ru[r])
    BY <1>0, <1>6 DEF Valid, InUse
  <2>. QED
    BY <1>0, <1>2, <2>1
<1>7. ASSUME NEW l \in Lis, p.li[l] # None
      PROVE  Usable(p, p.li[l].out) /\ (p.li[l].via # None => Usable(p, p.li[l].via))
  <2>1. /\ prof.li[l].out # e /\ prof.li[l].via # e
        /\ Usable(prof, prof.li[l].out) /\ (prof.li[l].via # None => Usable(prof, prof.li[l].via))
    BY <1>0, <1>7 DEF Valid, InUse
  <2>. QED
    BY <1>0, <1>2, <2>1
<1>8. Valid(p)
  BY <1>4, <1>5, <1>6, <1>7 DEF Valid
<1>. QED
  BY <1>8 DEF p

(* DeleteGroup: the same for a group. *)
LEMMA GroupGone ==
    ASSUME prof \in Profiles, Valid(prof), NEW d \in Grs, ~InUse(d)
    PROVE  Valid([prof EXCEPT !.gr = Pruned([@ EXCEPT ![d] = None], d)])
<1>. DEFINE p == [prof EXCEPT !.gr = Pruned([@ EXCEPT ![d] = None], d)]
<1>0. /\ p.ep = prof.ep /\ p.ru = prof.ru /\ p.li = prof.li
      /\ \A g \in Grs : p.gr[g] = IF g = d \/ prof.gr[g] = None THEN None ELSE prof.gr[g] \ {d}
  BY DEF Profiles, Pruned
<1>1. Groups(p) = Groups(prof) \ {d}
  <2>1. ASSUME NEW g \in Grs, prof.gr[g] # None, g # d PROVE p.gr[g] # None
    BY <1>0, <2>1, StoreAssumption DEF Profiles
  <2>. QED
    BY <1>0, <2>1 DEF Groups
<1>. HIDE DEF p
<1>2. ASSUME NEW t, t # d, Usable(prof, t) PROVE Usable(p, t)
  BY <1>0, <1>1, <1>2 DEF Usable, Groups
<1>4. ASSUME NEW g \in Groups(p) PROVE p.gr[g] # {} /\ \A t \in p.gr[g] : Usable(p, t)
  <2>1. g \in Groups(prof) \ {d} /\ g \in Grs /\ p.gr[g] = prof.gr[g] \ {d}
    BY <1>0, <1>1, <1>4 DEF Groups
  <2>2. prof.gr[g] # {} /\ \A t \in prof.gr[g] : Usable(prof, t)
    BY <2>1 DEF Valid
  <2>3. prof.gr[g] # {d}
    BY <2>1 DEF InUse, OnlyMember
  <2>. QED
    BY <1>2, <2>1, <2>2, <2>3
<1>5. Acyclic(p)
  <2>1. ASSUME NEW S \in SUBSET Groups(p), S # {} PROVE \E g \in S : p.gr[g] \cap S = {}
    <3>1. PICK g \in S : prof.gr[g] \cap S = {}
      BY <1>1, <2>1 DEF Valid, Acyclic
    <3>2. p.gr[g] = prof.gr[g] \ {d}
      BY <1>0, <1>1, <2>1 DEF Groups
    <3>. QED
      BY <3>1, <3>2
  <2>. QED
    BY <2>1 DEF Acyclic
<1>6. ASSUME NEW r \in Rus, p.ru[r] # None PROVE Usable(p, p.ru[r])
  <2>1. prof.ru[r] # d /\ Usable(prof, prof.ru[r])
    BY <1>0, <1>6 DEF Valid, InUse
  <2>. QED
    BY <1>0, <1>2, <2>1
<1>7. ASSUME NEW l \in Lis, p.li[l] # None
      PROVE  Usable(p, p.li[l].out) /\ (p.li[l].via # None => Usable(p, p.li[l].via))
  <2>1. /\ prof.li[l].out # d /\ prof.li[l].via # d
        /\ Usable(prof, prof.li[l].out) /\ (prof.li[l].via # None => Usable(prof, prof.li[l].via))
    BY <1>0, <1>7 DEF Valid, InUse
  <2>. QED
    BY <1>0, <1>2, <2>1
<1>8. Valid(p)
  BY <1>4, <1>5, <1>6, <1>7 DEF Valid
<1>. QED
  BY <1>8 DEF p

(* Nothing refers to a rule or to a routing list. *)
LEMMA LeafGone ==
    ASSUME prof \in Profiles, Valid(prof)
    PROVE  /\ \A r \in Rus : Valid([prof EXCEPT !.ru[r] = None])
           /\ \A l \in Lis : Valid([prof EXCEPT !.li[l] = None])
<1>1. ASSUME NEW p, p.ep = prof.ep, p.gr = prof.gr,
             \A r \in Rus : p.ru[r] \in {None, prof.ru[r]},
             \A l \in Lis : p.li[l] \in {None, prof.li[l]}
      PROVE  Valid(p)
  <2>1. Groups(p) = Groups(prof) /\ \A t : Usable(prof, t) => Usable(p, t)
    BY <1>1 DEF Groups, Usable
  <2>2. Acyclic(p)
    BY <1>1, <2>1 DEF Acyclic, Valid
  <2>3. ASSUME NEW g \in Groups(p) PROVE p.gr[g] # {} /\ \A t \in p.gr[g] : Usable(p, t)
    BY <1>1, <2>1, <2>3 DEF Valid
  <2>4. ASSUME NEW r \in Rus, p.ru[r] # None PROVE Usable(p, p.ru[r])
    BY <1>1, <2>1, <2>4 DEF Valid
  <2>5. ASSUME NEW l \in Lis, p.li[l] # None
        PROVE  Usable(p, p.li[l].out) /\ (p.li[l].via # None => Usable(p, p.li[l].via))
    BY <1>1, <2>1, <2>5 DEF Valid
  <2>. QED
    BY <2>2, <2>3, <2>4, <2>5 DEF Valid
<1>2. ASSUME NEW r \in Rus PROVE Valid([prof EXCEPT !.ru[r] = None])
  <2>. DEFINE p == [prof EXCEPT !.ru[r] = None]
  <2>1. /\ p.ep = prof.ep /\ p.gr = prof.gr /\ p.li = prof.li
        /\ \A q \in Rus : p.ru[q] \in {None, prof.ru[q]}
    BY DEF Profiles
  <2>. HIDE DEF p
  <2>2. Valid(p)
    BY <1>1, <2>1
  <2>. QED
    BY <2>2 DEF p
<1>3. ASSUME NEW l \in Lis PROVE Valid([prof EXCEPT !.li[l] = None])
  <2>. DEFINE p == [prof EXCEPT !.li[l] = None]
  <2>1. /\ p.ep = prof.ep /\ p.gr = prof.gr /\ p.ru = prof.ru
        /\ \A k \in Lis : p.li[k] \in {None, prof.li[k]}
    BY DEF Profiles
  <2>. HIDE DEF p
  <2>2. Valid(p)
    BY <1>1, <2>1
  <2>. QED
    BY <2>2 DEF p
<1>. QED
  BY <1>2, <1>3

(* Deleting, replacing and restoring keep an appliable profile appliable.  *)
LEMMA NeverSpoilt ==
    ASSUME StoreInv, Spoilt
    PROVE  ~Delete /\ \A b \in Bundles : ~RestoreProfile(b) /\ ~Replace(b)
<1>0. prof \in Profiles /\ Valid(prof) /\ prof' # prof /\ ~Valid(prof')
  BY DEF StoreInv, TypeOK, Spoilt
<1>1. ASSUME NEW p, Commit(p) PROVE prof' = p
  BY <1>0, <1>1 DEF Commit, Undone
<1>2. ASSUME Delete PROVE FALSE
  <2>1. ASSUME NEW e \in Eps, DeleteEndpoint(e) PROVE FALSE
    BY <1>0, <1>1, <2>1, EndpointGone DEF DeleteEndpoint
  <2>2. ASSUME NEW g \in Grs, DeleteGroup(g) PROVE FALSE
    BY <1>0, <1>1, <2>2, GroupGone DEF DeleteGroup
  <2>3. ASSUME NEW r \in Rus, DeleteRule(r) PROVE FALSE
    BY <1>0, <1>1, <2>3, LeafGone DEF DeleteRule
  <2>4. ASSUME NEW l \in Lis, DeleteRoutingList(l) PROVE FALSE
    BY <1>0, <1>1, <2>4, LeafGone DEF DeleteRoutingList
  <2>. QED
    BY <1>2, <2>1, <2>2, <2>3, <2>4 DEF Delete
<1>3. ASSUME NEW b \in Bundles, RestoreProfile(b) PROVE FALSE
  BY <1>0, <1>3 DEF RestoreProfile, Rejects
<1>4. ASSUME NEW b \in Bundles, Replace(b) PROVE FALSE
  BY <1>0, <1>1, <1>4 DEF Replace
<1>. QED
  BY <1>2, <1>3, <1>4

(* DeleteEndpoint, DeleteGroup, Replace and handleBackupRestore: no step of *)
(* theirs turns a profile that Validate accepts into one it rejects, for    *)
(* profiles of any size, with nested groups and names shared by an endpoint *)
(* and a group.                                                             *)
THEOREM AppliableStays == Spec => KeepsValid
<1>1. StoreInv /\ [Next]_vars => [Spoilt => ~Delete /\ \A b \in Bundles : ~RestoreProfile(b) /\ ~Replace(b)]_vars
  BY NeverSpoilt
<1>. QED
  BY <1>1, StoreInit, StoreStep, PTL DEF Spec, KeepsValid
-----------------------------------------------------------------------------
(* The updater.                                                            *)
Places == Nodes \cup {NoNode}
Versions == {0} \cup {r.ver : r \in Releases}
Contents == [ver : Versions, bytes : {"part", "right", "alien", "wrong"}]
Assets == {"none"} \cup {AssetFor(t, r) : t \in Targets, r \in Releases}
Update ==
    [pc : {"idle", "get", "write", "check", "read", "backup", "swap", "restart"},
     target : Targets, rel : Versions, asset : Assets, mirror : Nat, fd : Places, saved : Contents]

(* What every path, file and update can be. *)
UpdTypeOK ==
    /\ cur \in [Targets -> Places] /\ new \in [Targets -> Places] /\ bak \in [Targets -> Places]
    /\ cur[Self] # NoNode /\ bak[Core] = NoNode
    /\ held \in [Nodes -> Contents]
    /\ upd \in [Updaters -> Update]

(* No two paths share a file. *)
Apart ==
    /\ cur[Self] # cur[Core]
    /\ \A s, t \in Targets : new[t] # NoNode => new[t] # cur[s]
    /\ new[Self] # NoNode => new[Self] # new[Core]
    /\ bak[Self] # NoNode => \A t \in Targets : bak[Self] # cur[t] /\ bak[Self] # new[t]

GoodEngine(c) == c.bytes = "right" \/ (c.bytes = "wrong" /\ ~Rel(c.ver).digest)

(* What an update at a given step has behind it. *)
Underway(u) ==
    LET x == upd[u] IN
    /\ x.pc \in {"check", "read", "backup", "restart"} => x.target = Self
    /\ x.pc \in {"get", "write"} /\ x.target = Core => x.asset = "own"
    /\ x.pc = "write" => x.fd = new[x.target]
    /\ x.pc = "backup" => x.fd = bak[Self] /\ x.saved = held[cur[Self]]
    /\ x.pc \in {"write", "backup"} <=> x.fd # NoNode
    /\ x.pc \in {"check", "read", "backup", "swap"} => new[x.target] # NoNode
    /\ x.pc = "check" => held[new[Self]].bytes \in {"right", "alien"}
    /\ x.pc \in {"read", "backup", "swap"} /\ x.target = Self => held[new[Self]].bytes = "right"
    /\ x.pc = "swap" /\ x.target = Core => GoodEngine(held[new[Core]])
    /\ x.pc = "swap" /\ x.target = Self => bak[Self] # NoNode /\ held[bak[Self]] = held[cur[Self]]

(* Each target is updated by one at a time. *)
OneEach == \A u, w \in Updaters :
    upd[u].pc # "idle" /\ upd[w].pc # "idle" /\ upd[u].target = upd[w].target => u = w

(* An executable runs, and an engine in place is what was published.       *)
UpdInv ==
    /\ UpdTypeOK /\ Apart /\ OneEach
    /\ \A u \in Updaters : Underway(u)
    /\ held[cur[Self]].bytes = "right"
    /\ cur[Core] # NoNode => GoodEngine(held[cur[Core]])

(* The picker never takes an asset for another machine by its name.        *)
PicksOwn == \A r \in Releases : pickAsset(r.assets, Arch) # "foreign"

LEMMA IdleUpdate == Idle \in Update /\ Part \in Contents
  BY DEF Idle, Update, Part, Whole, Contents, Versions, Assets, Places, Targets, Self, Core

LEMMA UpdInitInv == UpdInit => UpdInv
<1>. SUFFICES ASSUME UpdInit PROVE UpdInv
  OBVIOUS
<1>1. Place1 \in Nodes /\ Place2 \in Nodes /\ Place1 # Place2
  <2>1. PICK n, m \in Nodes : n # m
    BY UpdAssumption
  <2>2. Place1 \in Nodes
    BY <2>1 DEF Place1
  <2>3. \E n1 \in Nodes : n1 # Place1
    BY <2>1
  <2>4. Place2 \in Nodes /\ Place2 # Place1
    BY <2>3 DEF Place2
  <2>. QED
    BY <2>2, <2>4
<1>2. Whole(0, "right") \in Contents /\ Whole(0, "right").bytes = "right"
  BY DEF Whole, Contents, Versions
<1>3. UpdTypeOK
  BY <1>1, <1>2, IdleUpdate, UpdAssumption DEF UpdInit, UpdTypeOK, Places, Targets, Self, Core
<1>4. Apart
  BY <1>1, UpdAssumption DEF UpdInit, Apart, Targets, Self, Core
<1>5. \A u \in Updaters : upd[u].pc = "idle" /\ upd[u].fd = NoNode
  BY DEF UpdInit, Idle
<1>6. OneEach /\ \A u \in Updaters : Underway(u)
  BY <1>5 DEF OneEach, Underway
<1>7. held[cur[Self]].bytes = "right" /\ held[cur[Core]].bytes = "right"
  BY <1>1, <1>2 DEF UpdInit, Targets, Self, Core
<1>. QED
  BY <1>3, <1>4, <1>6, <1>7 DEF UpdInv, GoodEngine

(* A step of one update leaves the updates of other targets as they were.  *)
LEMMA OthersUnderway ==
    ASSUME UpdInv, NEW u \in Updaters, upd[u].pc # "idle", NEW y,
           upd' = [upd EXCEPT ![u] = y],
           y.pc = "idle" \/ y.target = upd[u].target,
           \A s \in Targets : s # upd[u].target => new'[s] = new[s],
           \A s \in Targets : s # upd[u].target /\ new[s] # NoNode => held'[new[s]] = held[new[s]],
           upd[u].target # Self => /\ bak' = bak /\ cur'[Self] = cur[Self]
                                   /\ held'[cur[Self]] = held[cur[Self]]
                                   /\ bak[Self] # NoNode => held'[bak[Self]] = held[bak[Self]],
           Underway(u)'
    PROVE  OneEach' /\ \A w \in Updaters : Underway(w)'
<1>1. upd'[u] = y /\ \A w \in Updaters : w # u => upd'[w] = upd[w]
  BY DEF UpdInv, UpdTypeOK
<1>2. OneEach'
  BY <1>1 DEF UpdInv, OneEach
<1>3. ASSUME NEW w \in Updaters, w # u, upd[w].pc # "idle" PROVE Underway(w)'
  <2>1. Underway(w) /\ upd'[w] = upd[w] /\ upd[w].target # upd[u].target /\ upd[w].target \in Targets
    BY <1>1, <1>3 DEF UpdInv, OneEach, UpdTypeOK, Update
  <2>2. CASE upd[w].target = Self
    <3>1. upd[u].target # Self /\ new'[Self] = new[Self] /\ (new[Self] # NoNode => held'[new[Self]] = held[new[Self]])
      BY <2>1, <2>2
    <3>. QED
      BY <2>1, <2>2, <3>1 DEF Underway, Self, Core
  <2>3. CASE upd[w].target = Core
    <3>1. new'[Core] = new[Core] /\ (new[Core] # NoNode => held'[new[Core]] = held[new[Core]])
      BY <2>1, <2>3
    <3>. QED
      BY <2>1, <2>3, <3>1 DEF Underway, GoodEngine, Self, Core
  <2>. QED
    BY <2>1, <2>2, <2>3 DEF Targets
<1>4. ASSUME NEW w \in Updaters, w # u, upd[w].pc = "idle" PROVE Underway(w)'
  <2>1. Underway(w) /\ upd'[w] = upd[w]
    BY <1>1, <1>4 DEF UpdInv
  <2>. QED
    BY <1>4, <2>1 DEF Underway
<1>. QED
  BY <1>2, <1>3, <1>4

(* Looking a release up. *)
LEMMA StartStep ==
    ASSUME UpdInv, PicksOwn, Overlap = FALSE,
           NEW u \in Updaters, NEW t \in Targets, NEW r \in Releases, Start(u, t, r)
    PROVE  UpdInv'
<1>. DEFINE y == [Idle EXCEPT !.pc = "get", !.target = t, !.rel = r.ver, !.asset = AssetFor(t, r)]
<1>1. /\ y \in Update
      /\ y.pc = "get" /\ y.target = t /\ y.asset = AssetFor(t, r) /\ y.fd = NoNode
  <2>1. r.ver \in Versions /\ AssetFor(t, r) \in Assets
    BY DEF Versions, Assets
  <2>. QED
    BY <2>1, IdleUpdate DEF Update, Idle
<1>2. upd' = [upd EXCEPT ![u] = y] /\ UNCHANGED <<cur, new, bak, held>>
  BY DEF Start
<1>3. /\ upd[u].pc = "idle" /\ AssetFor(t, r) # "none"
      /\ \A w \in Updaters : upd[w].pc # "idle" => upd[w].target # t
  BY DEF Start
<1>. HIDE DEF y
<1>4. UpdTypeOK' /\ Apart'
  BY <1>1, <1>2 DEF UpdInv, UpdTypeOK, Apart
<1>5. upd'[u] = y /\ \A w \in Updaters : w # u => upd'[w] = upd[w]
  BY <1>2 DEF UpdInv, UpdTypeOK
<1>6. OneEach'
  BY <1>1, <1>3, <1>5 DEF UpdInv, OneEach
<1>7. Underway(u)'
  <2>1. t = Core => AssetFor(t, r) = "own"
    BY <1>3 DEF AssetFor, PicksOwn, pickAsset, Self, Core
  <2>. QED
    BY <1>1, <1>5, <2>1 DEF Underway
<1>8. ASSUME NEW w \in Updaters, w # u PROVE Underway(w)'
  <2>1. Underway(w) /\ upd'[w] = upd[w]
    BY <1>5, <1>8 DEF UpdInv
  <2>. QED
    BY <1>2, <2>1 DEF Underway
<1>. QED
  BY <1>2, <1>4, <1>6, <1>7, <1>8 DEF UpdInv

(* A dropped staging path: nothing else changes. *)
LEMMA DropApart ==
    ASSUME UpdInv, NEW t \in Targets, new' = [new EXCEPT ![t] = NoNode], cur' = cur,
           bak' = bak \/ bak' = [bak EXCEPT ![Self] = NoNode]
    PROVE  /\ Apart' /\ bak'[Core] = NoNode
           /\ new' \in [Targets -> Places] /\ bak' \in [Targets -> Places]
           /\ \A s \in Targets : s # t => new'[s] = new[s]
  BY DEF UpdInv, UpdTypeOK, Apart, Places, Targets, Self, Core

(* The next mirror, or the end of the download. *)
LEMMA NextMirrorStep ==
    ASSUME UpdInv, NEW u \in Updaters, upd[u].pc \in {"get", "write"}, NextMirror(u),
           UNCHANGED <<cur, bak>>,
           \/ held' = held
           \/ \E c \in Contents : upd[u].fd # NoNode /\ held' = [held EXCEPT ![upd[u].fd] = c]
    PROVE  UpdInv'
<1>. DEFINE t == upd[u].target
            y == IF upd[u].mirror + 1 < Mirrors
                 THEN [upd[u] EXCEPT !.pc = "get", !.mirror = upd[u].mirror + 1, !.fd = NoNode]
                 ELSE Idle
<1>1. upd[u] \in Update /\ t \in Targets /\ Underway(u)
  BY DEF UpdInv, UpdTypeOK, Update
<1>2. upd' = [upd EXCEPT ![u] = y] /\ new' = [new EXCEPT ![t] = NoNode]
  BY DEF NextMirror
<1>3. /\ y \in Update /\ y.fd = NoNode
      /\ y.pc = "idle" \/ (y.pc = "get" /\ y.target = t /\ y.asset = upd[u].asset)
  <2>1. CASE upd[u].mirror + 1 < Mirrors
    <3>. DEFINE z == [upd[u] EXCEPT !.pc = "get", !.mirror = upd[u].mirror + 1, !.fd = NoNode]
    <3>1. upd[u].mirror + 1 \in Nat /\ "get" \in {"idle", "get", "write", "check", "read", "backup", "swap", "restart"}
      BY <1>1 DEF Update
    <3>2. z \in Update /\ z.fd = NoNode /\ z.pc = "get" /\ z.target = upd[u].target /\ z.asset = upd[u].asset
      BY <1>1, <3>1 DEF Update, Places
    <3>3. y = z
      BY <2>1
    <3>. QED
      BY <3>2, <3>3
  <2>2. CASE ~(upd[u].mirror + 1 < Mirrors)
    <3>1. y = Idle
      BY <2>2
    <3>. QED
      BY <3>1, IdleUpdate DEF Idle
  <2>. QED
    BY <2>1, <2>2
<1>4. \A n \in Nodes : n # new[t] \/ new[t] = NoNode => held'[n] = held[n]
  BY <1>1 DEF Underway, UpdInv, UpdTypeOK
<1>5. held' \in [Nodes -> Contents]
  BY DEF UpdInv, UpdTypeOK
<1>. HIDE DEF t, y
<1>6. /\ Apart' /\ new' \in [Targets -> Places] /\ bak' \in [Targets -> Places] /\ bak'[Core] = NoNode
      /\ \A s \in Targets : s # t => new'[s] = new[s]
  BY <1>1, <1>2, DropApart
<1>7. UpdTypeOK'
  BY <1>2, <1>3, <1>5, <1>6 DEF UpdInv, UpdTypeOK
<1>8. upd'[u] = y
  BY <1>2 DEF UpdInv, UpdTypeOK
<1>9. Underway(u)'
  BY <1>1, <1>3, <1>8 DEF Underway, t
<1>10. /\ \A s \in Targets : s # t /\ new[s] # NoNode => held'[new[s]] = held[new[s]]
       /\ held'[cur[Self]] = held[cur[Self]]
       /\ cur[Core] # NoNode => held'[cur[Core]] = held[cur[Core]]
       /\ bak[Self] # NoNode => held'[bak[Self]] = held[bak[Self]]
  BY <1>1, <1>4 DEF UpdInv, UpdTypeOK, Apart, Places, Targets
<1>11. OneEach' /\ \A w \in Updaters : Underway(w)'
  <2>1. upd[u].pc # "idle" /\ (y.pc = "idle" \/ y.target = upd[u].target)
    BY <1>3 DEF t
  <2>. QED
    BY <1>2, <1>6, <1>9, <1>10, <2>1, OthersUnderway DEF t
<1>. QED
  BY <1>6, <1>7, <1>10, <1>11 DEF UpdInv

(* A step of an update that writes at most to its own staging file, or, of *)
(* the daemon, to its backup.                                              *)
LEMMA OwnStep ==
    ASSUME UpdInv, NEW u \in Updaters, upd[u].pc # "idle", NEW y \in Update,
           upd' = [upd EXCEPT ![u] = y],
           y.pc = "idle" \/ y.target = upd[u].target,
           cur' = cur, new' \in [Targets -> Places], bak' \in [Targets -> Places], bak'[Core] = NoNode,
           held' \in [Nodes -> Contents], Apart',
           \A s \in Targets : s # upd[u].target => new'[s] = new[s],
           \A n \in Nodes : n # new'[upd[u].target] /\ n # bak'[Self] => held'[n] = held[n],
           upd[u].target # Self => bak' = bak /\ (bak[Self] # NoNode => held'[bak[Self]] = held[bak[Self]]),
           Underway(u)'
    PROVE  UpdInv'
<1>1. UpdTypeOK'
  BY DEF UpdInv, UpdTypeOK
<1>2. cur[Self] \in Nodes /\ (cur[Core] # NoNode => cur[Core] \in Nodes) /\ upd[u].target \in Targets
  BY DEF UpdInv, UpdTypeOK, Places, Targets, Update
<1>3. /\ held'[cur[Self]] = held[cur[Self]]
      /\ cur[Core] # NoNode => held'[cur[Core]] = held[cur[Core]]
  <2>1. \A s \in Targets : cur[s] # NoNode => cur[s] # new'[upd[u].target] /\ cur[s] # bak'[Self]
    BY <1>2 DEF Apart
  <2>. QED
    BY <1>2, <2>1, UpdAssumption DEF Targets
<1>4. \A s \in Targets : s # upd[u].target /\ new[s] # NoNode => held'[new[s]] = held[new[s]]
  <2>1. ASSUME NEW s \in Targets, s # upd[u].target, new[s] # NoNode
        PROVE  held'[new[s]] = held[new[s]]
    <3>1. new'[s] = new[s] /\ new[s] \in Nodes
      BY <2>1 DEF UpdInv, UpdTypeOK, Places
    <3>2. new[s] # new'[upd[u].target]
      BY <1>2, <2>1, <3>1 DEF Apart, Targets
    <3>3. new[s] # bak'[Self]
      BY <2>1, <3>1 DEF Apart
    <3>. QED
      BY <3>1, <3>2, <3>3
  <2>. QED
    BY <2>1
<1>5. OneEach' /\ \A w \in Updaters : Underway(w)'
  BY <1>3, <1>4, OthersUnderway
<1>. QED
  BY <1>1, <1>3, <1>5 DEF UpdInv

(* Opening the staging file, truncated. *)
LEMMA OpenStep ==
    ASSUME UpdInv, NEW u \in Updaters, Open(u)
    PROVE  UpdInv'
<1>. DEFINE t == upd[u].target
<1>1. upd[u] \in Update /\ t \in Targets /\ Underway(u) /\ upd[u].pc = "get" /\ cur' = cur /\ bak' = bak
  BY DEF Open, UpdInv, UpdTypeOK, Update
<1>2. CASE NextMirror(u) /\ held' = held
  BY <1>1, <1>2, NextMirrorStep
<1>3. ASSUME NEW n \in Nodes, new' \in [Targets -> Places], new'[t] = n,
             \A s \in Targets : s # t => new'[s] = new[s],
             Apart', held' = [held EXCEPT ![n] = Part],
             upd' = [upd EXCEPT ![u].pc = "write", ![u].fd = n]
      PROVE  UpdInv'
  <2>. DEFINE y == [upd[u] EXCEPT !.pc = "write", !.fd = n]
  <2>1. /\ y \in Update /\ y.pc = "write" /\ y.fd = n /\ y.target = t /\ y.asset = upd[u].asset
    BY <1>1 DEF Update, Places
  <2>2. upd' = [upd EXCEPT ![u] = y]
    BY <1>1, <1>3 DEF UpdInv, UpdTypeOK
  <2>. HIDE DEF y
  <2>3. upd'[u] = y
    BY <2>2 DEF UpdInv, UpdTypeOK
  <2>4. Underway(u)'
    BY <1>1, <1>3, <2>1, <2>3, UpdAssumption DEF Underway
  <2>5. held' \in [Nodes -> Contents] /\ \A m \in Nodes : m # n => held'[m] = held[m]
    BY <1>3, IdleUpdate DEF UpdInv, UpdTypeOK
  <2>6. bak[Self] # NoNode => held'[bak[Self]] = held[bak[Self]]
    <3>1. bak[Self] # NoNode => bak[Self] # n /\ bak[Self] \in Nodes
      BY <1>1, <1>3 DEF Apart, UpdInv, UpdTypeOK, Places, Targets
    <3>. QED
      BY <2>5, <3>1
  <2>7. bak' \in [Targets -> Places] /\ bak'[Core] = NoNode /\ upd[u].pc # "idle"
    BY <1>1 DEF UpdInv, UpdTypeOK
  <2>. QED
    BY <1>1, <1>3, <2>1, <2>2, <2>4, <2>5, <2>6, <2>7, OwnStep
<1>4. CASE /\ new[t] = NoNode
           /\ \E n \in Nodes : Fresh(n) /\ new' = [new EXCEPT ![t] = n]
           /\ held' = [held EXCEPT ![new'[t]] = Part]
           /\ upd' = [upd EXCEPT ![u].pc = "write", ![u].fd = new'[t]]
  <2>1. PICK n \in Nodes : Fresh(n) /\ new' = [new EXCEPT ![t] = n]
    BY <1>4
  <2>2. n \in Free
    BY <2>1 DEF Fresh
  <2>3. n \notin Range(cur) \cup Range(new) \cup Range(bak)
    BY <2>2 DEF Free
  <2>4. \A s \in Targets : n # cur[s] /\ n # new[s] /\ n # bak[s]
    BY <2>3 DEF Range, UpdInv, UpdTypeOK
  <2>5. new' \in [Targets -> Places] /\ new'[t] = n /\ \A s \in Targets : s # t => new'[s] = new[s]
    BY <1>1, <2>1 DEF UpdInv, UpdTypeOK, Places
  <2>6. Apart'
    BY <1>1, <2>4, <2>5 DEF UpdInv, UpdTypeOK, Apart, Targets, Self, Core
  <2>. QED
    BY <1>3, <1>4, <2>5, <2>6
<1>5. CASE /\ new[t] # NoNode
           /\ held' = [held EXCEPT ![new[t]] = Part]
           /\ upd' = [upd EXCEPT ![u].pc = "write", ![u].fd = new[t]]
           /\ new' = new
  <2>1. new[t] \in Nodes /\ new' \in [Targets -> Places] /\ Apart'
    BY <1>1, <1>5 DEF UpdInv, UpdTypeOK, Apart, Places
  <2>. QED
    BY <1>3, <1>5, <2>1
<1>. QED
  BY <1>2, <1>4, <1>5 DEF Open

(* The download: what passes the digest is what was published, or, for an  *)
(* engine whose release has none, whatever came.                           *)
LEMMA WriteStep ==
    ASSUME UpdInv, NEW u \in Updaters, Write(u)
    PROVE  UpdInv'
<1>. DEFINE t == upd[u].target
<1>1. /\ upd[u] \in Update /\ t \in Targets /\ Underway(u) /\ upd[u].pc = "write"
      /\ cur' = cur /\ bak' = bak
  BY DEF Write, UpdInv, UpdTypeOK, Update
<1>2. upd[u].fd = new[t] /\ new[t] \in Nodes
  BY <1>1 DEF Underway, UpdInv, UpdTypeOK, Places
<1>3. CASE NextMirror(u) /\ held' = held
  BY <1>1, <1>3, NextMirrorStep
<1>4. ASSUME NEW b \in Served(u), held' = [held EXCEPT ![upd[u].fd] = Whole(upd[u].rel, b)],
             ~verifyDigestSum(u, b), NextMirror(u)
      PROVE  UpdInv'
  <2>1. Whole(upd[u].rel, b) \in Contents
    BY <1>1 DEF Whole, Contents, Served, Update
  <2>2. upd[u].fd # NoNode
    BY <1>2, UpdAssumption
  <2>. QED
    BY <1>1, <1>4, <2>1, <2>2, NextMirrorStep
<1>5. ASSUME NEW b \in Served(u), held' = [held EXCEPT ![upd[u].fd] = Whole(upd[u].rel, b)],
             verifyDigestSum(u, b), new' = new,
             upd' = [upd EXCEPT ![u].pc = IF upd[u].target = Self THEN "check" ELSE "swap", ![u].fd = NoNode]
      PROVE  UpdInv'
  <2>. DEFINE y == [upd[u] EXCEPT !.pc = IF t = Self THEN "check" ELSE "swap", !.fd = NoNode]
              c == Whole(upd[u].rel, b)
  <2>1. /\ y \in Update /\ y.pc = (IF t = Self THEN "check" ELSE "swap") /\ y.fd = NoNode /\ y.target = t
    BY <1>1 DEF Update, Places
  <2>2. upd' = [upd EXCEPT ![u] = y]
    BY <1>1, <1>5 DEF UpdInv, UpdTypeOK
  <2>3. c \in Contents /\ c.bytes = b /\ c.ver = upd[u].rel
    BY <1>1 DEF Whole, Contents, Served, Update
  <2>. HIDE DEF y, c
  <2>4. upd'[u] = y
    BY <2>2 DEF UpdInv, UpdTypeOK
  <2>5. /\ held' \in [Nodes -> Contents] /\ held'[new[t]] = c
        /\ \A n \in Nodes : n # new[t] => held'[n] = held[n]
    BY <1>2, <1>5, <2>3 DEF UpdInv, UpdTypeOK, c
  <2>6. CASE t = Self
    <3>1. b \in {"right", "alien"}
      BY <1>5, <2>6 DEF verifyDigestSum, Served
    <3>2. Underway(u)'
      BY <1>2, <1>5, <2>1, <2>3, <2>4, <2>5, <2>6, <3>1, UpdAssumption DEF Underway, Self, Core
    <3>3. new' \in [Targets -> Places] /\ bak' \in [Targets -> Places] /\ bak'[Core] = NoNode /\ Apart'
      BY <1>1, <1>5 DEF UpdInv, UpdTypeOK, Apart
    <3>. QED
      BY <1>1, <1>5, <2>1, <2>2, <2>5, <2>6, <3>2, <3>3, OwnStep
  <2>7. CASE t = Core
    <3>1. b = "right" \/ (b = "wrong" /\ ~Rel(upd[u].rel).digest)
      BY <1>1, <1>5, <2>7 DEF verifyDigestSum, Served, Underway
    <3>2. Underway(u)'
      BY <1>2, <1>5, <2>1, <2>3, <2>4, <2>5, <2>7, <3>1, UpdAssumption DEF Underway, GoodEngine, Self, Core
    <3>3. /\ new' \in [Targets -> Places] /\ bak' \in [Targets -> Places] /\ bak'[Core] = NoNode /\ Apart'
      BY <1>1, <1>5 DEF UpdInv, UpdTypeOK, Apart
    <3>4. bak[Self] # NoNode => bak[Self] \in Nodes /\ bak[Self] # new[t]
      BY <1>1 DEF UpdInv, UpdTypeOK, Apart, Places, Targets
    <3>. QED
      BY <1>1, <1>5, <2>1, <2>2, <2>5, <2>7, <3>2, <3>3, <3>4, OwnStep
  <2>. QED
    BY <1>1, <2>6, <2>7 DEF Targets
<1>. QED
  BY <1>3, <1>4, <1>5 DEF Write

(* A self-update that gives up: the staging path, and perhaps the backup,  *)
(* is removed.                                                             *)
LEMMA GiveUpStep ==
    ASSUME UpdInv, NEW u \in Updaters, upd[u].pc \in {"check", "read", "backup"}, GiveUp(u),
           cur' = cur, held' = held, bak' = bak \/ bak' = [bak EXCEPT ![Self] = NoNode]
    PROVE  UpdInv'
<1>1. upd[u].target = Self /\ Self \in Targets
  BY DEF UpdInv, Underway, Targets
<1>2. new' = [new EXCEPT ![Self] = NoNode] /\ upd' = [upd EXCEPT ![u] = Idle]
  BY DEF GiveUp
<1>3. /\ Apart' /\ bak'[Core] = NoNode /\ new' \in [Targets -> Places] /\ bak' \in [Targets -> Places]
      /\ \A s \in Targets : s # Self => new'[s] = new[s]
  BY <1>1, <1>2, DropApart
<1>4. Idle.pc = "idle" /\ Idle.fd = NoNode /\ Idle \in Update
  BY IdleUpdate DEF Idle
<1>5. Underway(u)'
  <2>1. upd'[u] = Idle
    BY <1>2 DEF UpdInv, UpdTypeOK
  <2>. QED
    BY <1>4, <2>1 DEF Underway
<1>6. held' \in [Nodes -> Contents]
  BY DEF UpdInv, UpdTypeOK
<1>. QED
  BY <1>1, <1>2, <1>3, <1>4, <1>5, <1>6, OwnStep

(* The sanity run. *)
LEMMA CheckStep ==
    ASSUME UpdInv, NEW u \in Updaters, Check(u)
    PROVE  UpdInv'
<1>1. /\ upd[u] \in Update /\ Underway(u) /\ upd[u].pc = "check" /\ upd[u].target = Self
      /\ cur' = cur /\ bak' = bak /\ held' = held /\ Self \in Targets
  BY DEF Check, UpdInv, UpdTypeOK, Underway, Targets
<1>2. CASE GiveUp(u)
  BY <1>1, <1>2, GiveUpStep
<1>3. CASE TRUE \in Starts(new[Self]) /\ upd' = [upd EXCEPT ![u].pc = "read"] /\ new' = new
  <2>. DEFINE y == [upd[u] EXCEPT !.pc = "read"]
  <2>1. y \in Update /\ y.pc = "read" /\ y.target = Self /\ y.fd = upd[u].fd
    BY <1>1 DEF Update
  <2>2. upd' = [upd EXCEPT ![u] = y]
    BY <1>1, <1>3 DEF UpdInv, UpdTypeOK
  <2>. HIDE DEF y
  <2>3. upd'[u] = y
    BY <2>2 DEF UpdInv, UpdTypeOK
  <2>4. held[new[Self]].bytes = "right"
    BY <1>1, <1>3 DEF Starts, Underway
  <2>5. Underway(u)'
    BY <1>1, <1>3, <2>1, <2>3, <2>4 DEF Underway, Self, Core
  <2>6. /\ Apart' /\ bak'[Core] = NoNode /\ new' \in [Targets -> Places] /\ bak' \in [Targets -> Places]
        /\ held' \in [Nodes -> Contents]
    BY <1>1, <1>3 DEF UpdInv, UpdTypeOK, Apart
  <2>. QED
    BY <1>1, <1>3, <2>1, <2>2, <2>5, <2>6, OwnStep
<1>. QED
  BY <1>2, <1>3 DEF Check

(* Reading the executable and truncating the backup file. *)
LEMMA BackupStep ==
    ASSUME UpdInv, NEW u \in Updaters, Backup(u)
    PROVE  UpdInv'
<1>1. /\ upd[u] \in Update /\ Underway(u) /\ upd[u].pc = "read" /\ upd[u].target = Self
      /\ cur' = cur /\ Self \in Targets
  BY DEF Backup, UpdInv, UpdTypeOK, Underway, Targets
<1>2. CASE GiveUp(u) /\ bak' = bak /\ held' = held
  BY <1>1, <1>2, GiveUpStep
<1>3. ASSUME NEW n \in Nodes, IF bak[Self] = NoNode THEN Fresh(n) ELSE n = bak[Self],
             bak' = [bak EXCEPT ![Self] = n], held' = [held EXCEPT ![n] = Part], new' = new,
             upd' = [upd EXCEPT ![u].pc = "backup", ![u].fd = n, ![u].saved = held[cur[Self]]]
      PROVE  UpdInv'
  <2>0. cur[Self] \in Nodes
    BY DEF UpdInv, UpdTypeOK, Places, Targets
  <2>. DEFINE y == [upd[u] EXCEPT !.pc = "backup", !.fd = n, !.saved = held[cur[Self]]]
  <2>1. held[cur[Self]] \in Contents
    BY <2>0 DEF UpdInv, UpdTypeOK
  <2>2. y \in Update /\ y.pc = "backup" /\ y.target = Self /\ y.fd = n /\ y.saved = held[cur[Self]]
    BY <1>1, <2>1 DEF Update, Places
  <2>3. upd' = [upd EXCEPT ![u] = y]
    BY <1>1, <1>3 DEF UpdInv, UpdTypeOK
  <2>. HIDE DEF y
  <2>4. upd'[u] = y
    BY <2>3 DEF UpdInv, UpdTypeOK
  <2>5. \A s \in Targets : n # cur[s] /\ n # new[s]
    <3>1. CASE bak[Self] = NoNode
      <4>1. n \in Free
        BY <1>3, <3>1 DEF Fresh
      <4>2. n \notin Range(cur) \cup Range(new)
        BY <4>1 DEF Free
      <4>. QED
        BY <4>2 DEF Range, UpdInv, UpdTypeOK
    <3>2. CASE bak[Self] # NoNode
      BY <1>3, <3>2 DEF UpdInv, Apart
    <3>. QED
      BY <3>1, <3>2
  <2>6. /\ bak' \in [Targets -> Places] /\ bak'[Core] = NoNode /\ bak'[Self] = n
        /\ new' \in [Targets -> Places]
    BY <1>1, <1>3 DEF UpdInv, UpdTypeOK, Places, Targets, Self, Core
  <2>7. Apart'
    BY <1>1, <1>3, <2>5, <2>6 DEF UpdInv, Apart
  <2>8. held' \in [Nodes -> Contents] /\ \A m \in Nodes : m # n => held'[m] = held[m]
    BY <1>3, IdleUpdate DEF UpdInv, UpdTypeOK
  <2>9. held'[cur[Self]] = held[cur[Self]]
    BY <1>1, <2>0, <2>5, <2>8
  <2>10. new[Self] \in Nodes /\ held'[new[Self]] = held[new[Self]]
    <3>1. new[Self] \in Nodes
      BY <1>1 DEF UpdInv, UpdTypeOK, Underway, Places
    <3>. QED
      BY <1>1, <2>5, <2>8, <3>1
  <2>11. Underway(u)'
    BY <1>1, <1>3, <2>2, <2>4, <2>6, <2>9, <2>10, UpdAssumption DEF Underway, Self, Core
  <2>. QED
    BY <1>1, <1>3, <2>2, <2>3, <2>6, <2>7, <2>8, <2>11, OwnStep
<1>. QED
  BY <1>2, <1>3 DEF Backup

(* The backup is whole, or the update ends. *)
LEMMA BackupEndStep ==
    ASSUME UpdInv, NEW u \in Updaters, BackupEnd(u)
    PROVE  UpdInv'
<1>1. /\ upd[u] \in Update /\ Underway(u) /\ upd[u].pc = "backup" /\ upd[u].target = Self
      /\ cur' = cur /\ Self \in Targets
  BY DEF BackupEnd, UpdInv, UpdTypeOK, Underway, Targets
<1>2. CASE bak' = [bak EXCEPT ![Self] = NoNode] /\ GiveUp(u) /\ held' = held
  BY <1>1, <1>2, GiveUpStep
<1>3. CASE /\ held' = [held EXCEPT ![upd[u].fd] = upd[u].saved]
           /\ upd' = [upd EXCEPT ![u].pc = "swap", ![u].fd = NoNode]
           /\ bak' = bak /\ new' = new
  <2>. DEFINE y == [upd[u] EXCEPT !.pc = "swap", !.fd = NoNode]
              n == bak[Self]
  <2>1. n \in Nodes /\ upd[u].fd = n /\ upd[u].saved = held[cur[Self]] /\ upd[u].saved \in Contents
    BY <1>1 DEF Underway, UpdInv, UpdTypeOK, Places, Update
  <2>2. y \in Update /\ y.pc = "swap" /\ y.target = Self /\ y.fd = NoNode
    BY <1>1 DEF Update, Places
  <2>3. upd' = [upd EXCEPT ![u] = y]
    BY <1>1, <1>3 DEF UpdInv, UpdTypeOK
  <2>. HIDE DEF y, n
  <2>4. upd'[u] = y
    BY <2>3 DEF UpdInv, UpdTypeOK
  <2>5. /\ held' \in [Nodes -> Contents] /\ held'[n] = held[cur[Self]]
        /\ \A m \in Nodes : m # n => held'[m] = held[m]
    BY <1>3, <2>1 DEF UpdInv, UpdTypeOK
  <2>6. \A s \in Targets : n # cur[s] /\ n # new[s]
    BY <2>1, UpdAssumption DEF UpdInv, Apart, n
  <2>7. cur[Self] \in Nodes /\ new[Self] \in Nodes
    BY <1>1 DEF UpdInv, UpdTypeOK, Underway, Places
  <2>8. held'[cur[Self]] = held[cur[Self]] /\ held'[new[Self]] = held[new[Self]]
    BY <1>1, <2>5, <2>6, <2>7
  <2>9. Underway(u)'
    BY <1>1, <1>3, <2>1, <2>2, <2>4, <2>5, <2>7, <2>8, UpdAssumption DEF Underway, n, Self, Core
  <2>10. /\ Apart' /\ bak'[Core] = NoNode /\ new' \in [Targets -> Places] /\ bak' \in [Targets -> Places]
    BY <1>1, <1>3 DEF UpdInv, UpdTypeOK, Apart
  <2>11. \A m \in Nodes : m # bak'[Self] => held'[m] = held[m]
    BY <1>3, <2>5 DEF n
  <2>. QED
    BY <1>1, <1>3, <2>2, <2>3, <2>5, <2>9, <2>10, <2>11, OwnStep
<1>. QED
  BY <1>2, <1>3 DEF BackupEnd

(* The rename. *)
LEMMA SwapStep ==
    ASSUME UpdInv, NEW u \in Updaters, Swap(u)
    PROVE  UpdInv'
<1>. DEFINE t == upd[u].target
            y == IF cur' # cur /\ t = Self THEN [Idle EXCEPT !.pc = "restart"] ELSE Idle
<1>1. /\ upd[u] \in Update /\ t \in Targets /\ Underway(u) /\ upd[u].pc = "swap"
      /\ bak' = bak /\ held' = held
      /\ new' = [new EXCEPT ![t] = NoNode] /\ upd' = [upd EXCEPT ![u] = y]
      /\ cur' = cur \/ cur' = [cur EXCEPT ![t] = new[t]]
  BY DEF Swap, UpdInv, UpdTypeOK, Update
<1>2. /\ y \in Update /\ y.fd = NoNode
      /\ y.pc = "idle" \/ (y.pc = "restart" /\ y.target = t /\ t = Self)
  BY IdleUpdate DEF Update, Idle
<1>. HIDE DEF y
<1>3. new[t] \in Nodes /\ new[t] # NoNode
  BY <1>1 DEF Underway, UpdInv, UpdTypeOK, Places
<1>4. /\ cur' \in [Targets -> Places] /\ new' \in [Targets -> Places] /\ cur'[Self] # NoNode
      /\ \A s \in Targets : s # t => new'[s] = new[s] /\ cur'[s] = cur[s]
      /\ cur'[t] \in {cur[t], new[t]} /\ new'[t] = NoNode
  BY <1>1, <1>3, UpdAssumption DEF UpdInv, UpdTypeOK, Places, Targets
<1>5. UpdTypeOK'
  BY <1>1, <1>2, <1>4 DEF UpdInv, UpdTypeOK
<1>6. Apart'
  BY <1>1, <1>3, <1>4 DEF UpdInv, Apart, Targets, Self, Core
<1>7. upd'[u] = y
  BY <1>1 DEF UpdInv, UpdTypeOK
<1>8. Underway(u)'
  BY <1>2, <1>7 DEF Underway, Self, t
<1>9. OneEach' /\ \A w \in Updaters : Underway(w)'
  <2>1. upd[u].pc # "idle" /\ (y.pc = "idle" \/ y.target = upd[u].target)
    BY <1>1, <1>2
  <2>2. t # Self => cur'[Self] = cur[Self]
    BY <1>4 DEF Targets
  <2>. QED
    BY <1>1, <1>4, <1>8, <2>1, <2>2, OthersUnderway
<1>10. held'[cur'[Self]].bytes = "right" /\ (cur'[Core] # NoNode => GoodEngine(held'[cur'[Core]]))
  BY <1>1, <1>4 DEF UpdInv, Underway, Targets, Self, Core
<1>. QED
  BY <1>5, <1>6, <1>9, <1>10 DEF UpdInv, GoodEngine

(* The daemon starts anew: no update is under way. *)
LEMMA RebornStep ==
    ASSUME UpdInv, Reborn, UNCHANGED <<cur, new, bak, held>>
    PROVE  UpdInv'
<1>1. upd' \in [Updaters -> Update] /\ \A u \in Updaters : upd'[u].pc = "idle" /\ upd'[u].fd = NoNode
  BY IdleUpdate DEF Reborn, Idle
<1>2. UpdTypeOK' /\ Apart'
  BY <1>1 DEF UpdInv, UpdTypeOK, Apart
<1>3. OneEach' /\ \A u \in Updaters : Underway(u)'
  BY <1>1 DEF OneEach, Underway
<1>. QED
  BY <1>2, <1>3 DEF UpdInv, GoodEngine

LEMMA RestartAfterStep ==
    ASSUME UpdInv, NEW u \in Updaters, RestartAfter(u)
    PROVE  UpdInv'
<1>1. CASE Reborn
  BY <1>1, RebornStep DEF RestartAfter
<1>2. CASE upd' = [upd EXCEPT ![u] = Idle]
  <2>1. upd[u].pc = "restart" /\ UNCHANGED <<cur, new, bak, held>>
    BY DEF RestartAfter
  <2>2. Idle.pc = "idle" /\ Idle.fd = NoNode /\ Idle \in Update
    BY IdleUpdate DEF Idle
  <2>3. Underway(u)'
    <3>1. upd'[u] = Idle
      BY <1>2 DEF UpdInv, UpdTypeOK
    <3>. QED
      BY <2>2, <3>1 DEF Underway
  <2>4. /\ Apart' /\ bak'[Core] = NoNode /\ new' \in [Targets -> Places] /\ bak' \in [Targets -> Places]
        /\ held' \in [Nodes -> Contents]
    BY <2>1 DEF UpdInv, UpdTypeOK, Apart
  <2>. QED
    BY <1>2, <2>1, <2>2, <2>3, <2>4, OwnStep
<1>. QED
  BY <1>1, <1>2 DEF RestartAfter

LEMMA UninstallStep == ASSUME UpdInv, Uninstall PROVE UpdInv'
<1>1. cur' = [cur EXCEPT ![Core] = NoNode] /\ UNCHANGED <<new, bak, held, upd>>
  BY DEF Uninstall
<1>2. cur'[Self] = cur[Self] /\ cur'[Core] = NoNode /\ cur' \in [Targets -> Places]
  BY <1>1 DEF UpdInv, UpdTypeOK, Places, Targets, Self, Core
<1>3. UpdTypeOK' /\ OneEach'
  BY <1>1, <1>2 DEF UpdInv, UpdTypeOK, OneEach
<1>4. Apart'
  BY <1>1, <1>2, UpdAssumption DEF UpdInv, UpdTypeOK, Apart, Places, Targets
<1>5. \A u \in Updaters : Underway(u)'
  BY <1>1, <1>2 DEF UpdInv, Underway
<1>. QED
  BY <1>1, <1>2, <1>3, <1>4, <1>5 DEF UpdInv, GoodEngine

LEMMA UpdStep ==
    ASSUME PicksOwn, Overlap = FALSE
    PROVE  UpdInv /\ [UpdNext]_updVars => UpdInv'
<1>. SUFFICES ASSUME UpdInv, [UpdNext]_updVars PROVE UpdInv'
  OBVIOUS
<1>1. ASSUME NEW u \in Updaters, NEW t \in Targets, NEW r \in Releases, Start(u, t, r) PROVE UpdInv'
  BY <1>1, StartStep
<1>2. ASSUME NEW u \in Updaters,
             Open(u) \/ Write(u) \/ Check(u) \/ Backup(u) \/ BackupEnd(u) \/ Swap(u) \/ RestartAfter(u)
      PROVE  UpdInv'
  BY <1>2, OpenStep, WriteStep, CheckStep, BackupStep, BackupEndStep, SwapStep, RestartAfterStep
<1>3. CASE Crash
  BY <1>3, RebornStep DEF Crash
<1>4. CASE UNCHANGED updVars
  BY <1>4 DEF updVars, UpdInv, UpdTypeOK, Apart, OneEach, Underway, GoodEngine
<1>. QED
  BY <1>1, <1>2, <1>3, <1>4, UninstallStep DEF UpdNext

(* The installed executable always runs here, at no instant otherwise, and *)
(* an engine in place is the one published wherever the release has a      *)
(* digest: for any number of updaters, mirrors, releases and power cuts.   *)
(* The hypotheses are the two the code relies on: updates of one target do *)
(* not overlap (nothing in it prevents that; see the run that refutes the  *)
(* claim), and a name that matches this machine is of an asset for it.     *)
THEOREM InstallsRun ==
    ASSUME PicksOwn, Overlap = FALSE
    PROVE  UpdSpec => []InstalledRuns
<1>1. UpdInv => InstalledRuns
  BY DEF UpdInv, InstalledRuns, ExeRuns, GoodEngine
<1>. QED
  BY <1>1, UpdInitInv, UpdStep, PTL DEF UpdSpec

(* "MANDATORY": no step replaces the executable unless its old bytes are   *)
(* whole in the backup.                                                    *)
THEOREM BackupComesFirst ==
    ASSUME PicksOwn, Overlap = FALSE
    PROVE  UpdSpec => BackupFirst
<1>1. UpdInv /\ [UpdNext]_updVars =>
        [cur'[Self] # cur[Self] => bak'[Self] # NoNode /\ held'[bak'[Self]] = held[cur[Self]]]_updVars
  <2>. SUFFICES ASSUME UpdInv, UpdNext, cur'[Self] # cur[Self]
                PROVE  bak'[Self] # NoNode /\ held'[bak'[Self]] = held[cur[Self]]
    OBVIOUS
  <2>1. ASSUME Uninstall PROVE FALSE
    BY <2>1 DEF Uninstall, UpdInv, UpdTypeOK, Self, Core
  <2>2. PICK u \in Updaters : Swap(u)
    BY <2>1 DEF UpdNext, Start, Open, Write, Check, Backup, BackupEnd, RestartAfter, Crash
  <2>3. upd[u].target = Self
    <3>1. cur' = cur \/ cur' = [cur EXCEPT ![upd[u].target] = new[upd[u].target]]
      BY <2>2 DEF Swap
    <3>2. cur \in [Targets -> Places] /\ Self \in Targets
      BY DEF UpdInv, UpdTypeOK, Targets
    <3>. QED
      BY <3>1, <3>2
  <2>. QED
    BY <2>2, <2>3 DEF Swap, UpdInv, Underway
<1>. QED
  BY <1>1, UpdInitInv, UpdStep, PTL DEF UpdSpec, BackupFirst
-----------------------------------------------------------------------------
(* Server initialisation: the fields of a job and of the machine, whatever *)
(* they hold.                                                              *)
JobShape(r) ==
    r \in [kind : {r.kind}, pc : {r.pc}, arg : {r.arg}, auth : {r.auth}, out : {r.out}, added : {r.added},
          read : {r.read}, done : {r.done}, ok : {r.ok}]
VpsShape(v) ==
    /\ v \in [ident : {v.ident}, made : {v.made}, wrote : {v.wrote}, unit : {v.unit}, loaded : {v.loaded},
              bin : {v.bin}, bak : {v.bak}, file : {v.file}, live : {v.live}, keys : {v.keys}]
    /\ v.file \in BOOLEAN /\ v.live \in BOOLEAN

(* A lockdown under way uses a key of the user; an installer has a protocol *)
(* to install.                                                             *)
JobOK(r, held_keys) ==
    /\ JobShape(r)
    /\ r.pc \in {"verify", "lockdown"} => r.auth \in held_keys
    /\ r.pc \in {"dial", "install"} => r.arg \in Seq(Protocols) /\ r.arg # <<>>

AllJobsOK == job = [j \in JobIds |-> job[j]] /\ \A j \in JobIds : JobOK(job[j], mine)

JobsInv ==
    /\ AllJobsOK
    /\ VpsShape(vps) /\ NoKey \notin mine
    /\ NeverLockedOut

LEMMA JobsInitInv == JobInit => JobsInv
<1>. SUFFICES ASSUME JobInit PROVE JobsInv
  OBVIOUS
<1>1. JobOK(NoJob, mine)
  BY DEF JobOK, JobShape, NoJob
<1>2. job = [j \in JobIds |-> job[j]] /\ \A j \in JobIds : JobOK(job[j], mine)
  BY <1>1 DEF JobInit
<1>3. VpsShape(vps) /\ vps.live /\ vps.file
  BY DEF JobInit, VpsShape, BareVps
<1>4. NoKey \notin mine
  BY JobsAssumption DEF JobInit, NoKey, Stranger
<1>. QED
  BY <1>2, <1>3, <1>4 DEF JobsInv, AllJobsOK, NeverLockedOut

(* One job changes. *)
LEMMA OneJob ==
    ASSUME JobsInv, NEW j \in JobIds, NEW y, JobOK(y, mine), job' = [job EXCEPT ![j] = y], mine \subseteq mine'
    PROVE  AllJobsOK'
<1>1. job = [i \in JobIds |-> job[i]] /\ \A i \in JobIds : JobOK(job[i], mine)
  BY DEF JobsInv, AllJobsOK
<1>2. \A i \in JobIds : job'[i] = IF i = j THEN y ELSE job[i]
  BY <1>1
<1>3. job' = [i \in JobIds |-> job'[i]]
  BY <1>1
<1>. QED
  BY <1>1, <1>2, <1>3 DEF JobOK, AllJobsOK

LEMMA JobIsOK == ASSUME JobsInv, NEW j \in JobIds PROVE JobOK(job[j], mine) /\ JobShape(job[j])
  BY DEF JobsInv, AllJobsOK, JobOK

(* A job ends, or goes on to its next step. *)
LEMMA FinishOK ==
    ASSUME JobsInv, NEW j \in JobIds, NEW ok, Finish(j, ok), mine' = mine
    PROVE  AllJobsOK'
<1>. DEFINE y == IF job[j].done THEN job[j] ELSE [job[j] EXCEPT !.pc = "end", !.done = TRUE, !.ok = ok]
<1>1. JobOK(y, mine)
  <2>1. CASE job[j].done
    BY <2>1, JobIsOK
  <2>2. CASE ~job[j].done
    <3>. DEFINE z == [job[j] EXCEPT !.pc = "end", !.done = TRUE, !.ok = ok]
    <3>1. JobShape(job[j])
      BY JobIsOK
    <3>2. JobShape(z) /\ z.pc = "end"
      BY <3>1 DEF JobShape
    <3>. QED
      BY <2>2, <3>2 DEF JobOK
  <2>. QED
    BY <2>1, <2>2
<1>2. job' = [job EXCEPT ![j] = y]
  BY DEF Finish
<1>. QED
  BY <1>1, <1>2, OneJob

LEMMA GotoOK ==
    ASSUME JobsInv, NEW j \in JobIds, NEW pc, Goto(j, pc), mine' = mine,
           pc \in {"verify", "lockdown"} => job[j].pc \in {"verify", "lockdown"},
           pc \in {"dial", "install"} => job[j].pc \in {"dial", "install"}
    PROVE  AllJobsOK'
<1>. DEFINE y == [job[j] EXCEPT !.pc = pc]
<1>1. JobOK(y, mine)
  <2>1. JobOK(job[j], mine) /\ JobShape(job[j])
    BY JobIsOK
  <2>2. JobShape(y) /\ y.pc = pc /\ y.arg = job[j].arg /\ y.auth = job[j].auth
    BY <2>1 DEF JobShape
  <2>. QED
    BY <2>1, <2>2 DEF JobOK
<1>2. job' = [job EXCEPT ![j] = y]
  BY DEF Goto
<1>. QED
  BY <1>1, <1>2, OneJob

(* What cannot lock the user out. *)
LEMMA StillIn ==
    ASSUME JobsInv, VpsShape(vps'), vps.keys \subseteq vps'.keys, mine \subseteq mine',
           \/ vps'.file = vps.file /\ vps'.live \in {vps.live, vps.file}
           \/ mine' \cap vps'.keys # {}
    PROVE  NeverLockedOut'
  BY DEF JobsInv, NeverLockedOut, VpsShape

(* The installer does not touch sshd. *)
SameDoor(v, w) == VpsShape(w) /\ w.file = v.file /\ w.live = v.live /\ w.keys = v.keys

LEMMA ScriptsKeepDoor ==
    ASSUME NEW v, VpsShape(v)
    PROVE  /\ \A p \in Protocols : SameDoor(v, Persist(v, p)) /\ SameDoor(v, Fragment(v, p))
           /\ SameDoor(v, Restarted(v)) /\ SameDoor(v, RolledBack(v))
<1>1. ASSUME NEW w, VpsShape(w), NEW p PROVE SameDoor(w, Persist(w, p))
  BY <1>1 DEF Persist, SameDoor, VpsShape
<1>2. ASSUME NEW w, VpsShape(w) PROVE SameDoor(w, Installed(w))
  BY <1>2 DEF Installed, SameDoor, VpsShape
<1>3. ASSUME NEW w, VpsShape(w) PROVE SameDoor(w, scriptWireGuard(w))
  BY <1>3 DEF scriptWireGuard, SameDoor, VpsShape
<1>4. ASSUME NEW w, VpsShape(w) PROVE SameDoor(w, scriptReality(w))
  <2>. DEFINE a == Installed(w)
              b == [a EXCEPT !.wrote = @ \cup {Reality}, !.unit = {Reality}]
  <2>1. SameDoor(w, a)
    BY <1>2, <1>4
  <2>. HIDE DEF a
  <2>2. SameDoor(w, b)
    <3>1. VpsShape(a) /\ a.file = w.file /\ a.live = w.live /\ a.keys = w.keys
      BY <2>1 DEF SameDoor
    <3>2. SameDoor(a, b)
      BY <3>1 DEF SameDoor, VpsShape
    <3>. QED
      BY <3>1, <3>2 DEF SameDoor
  <2>3. scriptReality(w) = IF b.loaded \ {Kernel} = {} THEN [b EXCEPT !.loaded = @ \cup Loads(b)] ELSE b
    BY DEF scriptReality, a
  <2>. HIDE DEF b
  <2>4. SameDoor(w, [b EXCEPT !.loaded = @ \cup Loads(b)])
    BY <2>2 DEF SameDoor, VpsShape
  <2>. QED
    BY <2>2, <2>3, <2>4
<1>5. ASSUME NEW w, VpsShape(w) PROVE SameDoor(w, scriptTrojan(w))
  <2>. DEFINE a == Installed(w)
              b == [a EXCEPT !.wrote = @ \cup {Trojan}, !.unit = {Trojan} \cup (w.wrote \cap {Reality})]
  <2>1. SameDoor(w, a)
    BY <1>2, <1>5
  <2>. HIDE DEF a
  <2>2. SameDoor(w, b)
    <3>1. VpsShape(a) /\ a.file = w.file /\ a.live = w.live /\ a.keys = w.keys
      BY <2>1 DEF SameDoor
    <3>2. SameDoor(a, b)
      BY <3>1 DEF SameDoor, VpsShape
    <3>. QED
      BY <3>1, <3>2 DEF SameDoor
  <2>3. scriptTrojan(w) = [b EXCEPT !.loaded = (@ \cap {Kernel}) \cup Loads(b)]
    BY DEF scriptTrojan, a
  <2>. HIDE DEF b
  <2>4. SameDoor(w, [b EXCEPT !.loaded = (@ \cap {Kernel}) \cup Loads(b)])
    BY <2>2 DEF SameDoor, VpsShape
  <2>. QED
    BY <2>3, <2>4
<1>6. ASSUME NEW p \in Protocols PROVE SameDoor(v, Fragment(v, p))
  <2>. DEFINE w == Persist(v, p)
  <2>1. SameDoor(v, w) /\ VpsShape(w)
    BY <1>1 DEF SameDoor
  <2>2. Fragment(v, p) \in {scriptWireGuard(w), scriptReality(w), scriptTrojan(w)}
    BY DEF Fragment, Protocols, Kernel, Reality, Trojan
  <2>. HIDE DEF w
  <2>3. SameDoor(w, Fragment(v, p))
    BY <1>3, <1>4, <1>5, <2>1, <2>2
  <2>. QED
    BY <2>1, <2>3 DEF SameDoor
<1>7. SameDoor(v, Restarted(v))
  BY DEF Restarted, SameDoor, VpsShape
<1>8. SameDoor(v, RolledBack(v))
  BY DEF RolledBack, SameDoor, VpsShape
<1>. QED
  BY <1>1, <1>6, <1>7, <1>8

(* A step that changes neither the machine nor the keys. *)
LEMMA QuietStep ==
    ASSUME JobsInv, AllJobsOK', vps' = vps, mine' = mine
    PROVE  JobsInv'
  BY DEF JobsInv, NeverLockedOut, VpsShape

(* A step that changes the machine but not its door. *)
LEMMA SameDoorStep ==
    ASSUME JobsInv, AllJobsOK', SameDoor(vps, vps'), mine' = mine
    PROVE  JobsInv'
  BY DEF JobsInv, NeverLockedOut, SameDoor

(* JobManager.New *)
LEMMA NewStep ==
    ASSUME JobsInv, NEW kind_, NEW pc, NEW arg, NEW auth, New(kind_, pc, arg, auth),
           pc \in {"verify", "lockdown"} => auth \in mine,
           pc \in {"dial", "install"} => arg \in Seq(Protocols) /\ arg # <<>>
    PROVE  JobsInv'
<1>1. PICK j \in JobIds :
        job' = [job EXCEPT ![j] = [NoJob EXCEPT !.kind = kind_, !.pc = pc, !.arg = arg, !.auth = auth]]
  BY DEF New
<1>. DEFINE y == [NoJob EXCEPT !.kind = kind_, !.pc = pc, !.arg = arg, !.auth = auth]
<1>2. JobShape(y) /\ y.pc = pc /\ y.arg = arg /\ y.auth = auth
  BY DEF NoJob, JobShape
<1>3. JobOK(y, mine)
  BY <1>2 DEF JobOK
<1>4. vps' = vps /\ mine' = mine
  BY DEF New
<1>. QED
  BY <1>1, <1>3, <1>4, OneJob, QuietStep

LEMMA RequestsStep == ASSUME JobsInv, Requests PROVE JobsInv'
<1>1. ASSUME NEW ps \in Orders, handleServerProvision(ps) PROVE JobsInv'
  <2>1. ps \in Seq(Protocols) /\ ps # <<>>
    BY JobsAssumption
  <2>. QED
    BY <1>1, <2>1, NewStep DEF handleServerProvision
<1>2. ASSUME NEW k \in mine \cup {NoKey}, handleServerHardenKeys(k) PROVE JobsInv'
  BY <1>2, NewStep DEF handleServerHardenKeys
<1>3. ASSUME NEW k \in mine \cup {NoKey}, handleServerCheckVersions(k) PROVE JobsInv'
  BY <1>3, NewStep DEF handleServerCheckVersions
<1>4. ASSUME NEW k \in mine \cup {NoKey}, NEW ver \in CoreVersions, handleServerUpdateBinary(ver, k) PROVE JobsInv'
  BY <1>4, NewStep DEF handleServerUpdateBinary
<1>5. ASSUME NEW k \in mine, handleServerLockdown(k) PROVE JobsInv'
  BY <1>5, NewStep DEF handleServerLockdown
<1>6. ASSUME handleServers \/ handleDeleteServer PROVE JobsInv'
  <2>1. vps' = vps /\ mine' = mine /\ job' = job
    BY <1>6 DEF handleServers, handleDeleteServer
  <2>. QED
    BY <2>1, QuietStep DEF JobsInv, AllJobsOK
<1>. QED
  BY <1>1, <1>2, <1>3, <1>4, <1>5, <1>6 DEF Requests

(* Jobs that only read the machine or write the router's own records. *)
LEMMA QuietWork ==
    ASSUME JobsInv, NEW j \in JobIds,
           \/ Unreachable(j) \/ Dial(j) \/ runProvision(j) \/ ImportOne(j) \/ GetServer(j)
           \/ saveProvisionedServer(j) \/ runLockdown(j) \/ MarkHardened(j) \/ runCheckVersions(j)
    PROVE  JobsInv'
<1>1. CASE Unreachable(j)
  BY <1>1, FinishOK, QuietStep DEF Unreachable
<1>2. CASE Dial(j)
  BY <1>2, GotoOK, QuietStep DEF Dial
<1>3. CASE runProvision(j)
  <2>1. CASE Finish(j, FALSE)
    BY <1>3, <2>1, FinishOK, QuietStep DEF runProvision
  <2>2. CASE job' = [job EXCEPT ![j].pc = "upsert", ![j].out = ExtractTagged(@)]
    <3>. DEFINE y == [job[j] EXCEPT !.pc = "upsert", !.out = ExtractTagged(job[j].out)]
    <3>1. job' = [job EXCEPT ![j] = y]
      BY <2>2
    <3>2. JobShape(y) /\ y.pc = "upsert"
      BY JobIsOK DEF JobShape
    <3>3. JobOK(y, mine)
      BY <3>2 DEF JobOK
    <3>. QED
      BY <1>3, <3>1, <3>3, OneJob, QuietStep DEF runProvision
  <2>. QED
    BY <1>3, <2>1, <2>2 DEF runProvision
<1>4. CASE ImportOne(j)
  <2>1. PICK i \in DOMAIN job[j].out :
          LET left == [job EXCEPT ![j].out = Restrict(@, DOMAIN @ \ {i})]
          IN job' = left \/ job' = [left EXCEPT ![j].added = @ \cup {job[j].out[i].label}]
    BY <1>4 DEF ImportOne
  <2>. DEFINE x == [job[j] EXCEPT !.out = Restrict(job[j].out, DOMAIN job[j].out \ {i})]
              z == [x EXCEPT !.added = job[j].added \cup {job[j].out[i].label}]
  <2>2. JobShape(x) /\ x.pc = "upsert" /\ x.added = job[j].added
    BY <1>4, JobIsOK DEF ImportOne, JobShape
  <2>3. JobShape(z) /\ z.pc = "upsert"
    BY <2>2 DEF JobShape
  <2>4. job' = [job EXCEPT ![j] = x] \/ job' = [job EXCEPT ![j] = z]
    BY <2>1 DEF JobsInv, AllJobsOK
  <2>5. JobOK(x, mine) /\ JobOK(z, mine)
    BY <2>2, <2>3 DEF JobOK
  <2>. QED
    BY <1>4, <2>4, <2>5, OneJob, QuietStep DEF ImportOne
<1>5. CASE GetServer(j)
  <2>. DEFINE y == [job[j] EXCEPT !.pc = "save", !.read = srv]
  <2>1. job' = [job EXCEPT ![j] = y]
    BY <1>5 DEF GetServer
  <2>2. JobShape(y) /\ y.pc = "save"
    BY JobIsOK DEF JobShape
  <2>3. JobOK(y, mine)
    BY <2>2 DEF JobOK
  <2>. QED
    BY <1>5, <2>1, <2>3, OneJob, QuietStep DEF GetServer
<1>6. CASE saveProvisionedServer(j)
  BY <1>6, FinishOK, QuietStep DEF saveProvisionedServer
<1>7. CASE runLockdown(j)
  <2>1. CASE Goto(j, "lockdown")
    BY <1>7, <2>1, GotoOK, QuietStep DEF runLockdown
  <2>2. CASE Finish(j, FALSE)
    BY <1>7, <2>2, FinishOK, QuietStep DEF runLockdown
  <2>. QED
    BY <1>7, <2>1, <2>2 DEF runLockdown
<1>8. CASE MarkHardened(j)
  BY <1>8, FinishOK, QuietStep DEF MarkHardened
<1>9. CASE runCheckVersions(j)
  BY <1>9, FinishOK, QuietStep DEF runCheckVersions
<1>. QED
  BY <1>1, <1>2, <1>3, <1>4, <1>5, <1>6, <1>7, <1>8, <1>9

(* One fragment of the installer. *)
LEMMA InstallStep == ASSUME JobsInv, NEW j \in JobIds, Install(j) PROVE JobsInv'
<1>. DEFINE ps == job[j].arg
            p == Head(ps)
            tl == Tail(ps)
            npc == IF tl = <<>> THEN "import" ELSE "install"
<1>1. /\ job[j].pc = "install" /\ JobShape(job[j]) /\ ps \in Seq(Protocols) /\ ps # <<>>
      /\ mine' = mine /\ VpsShape(vps)
  BY JobIsOK DEF Install, JobOK, JobsInv
<1>2. p \in Protocols /\ tl \in Seq(Protocols)
  BY <1>1
<1>3. SameDoor(vps, Fragment(vps, p)) /\ SameDoor(vps, Persist(vps, p)) /\ SameDoor(vps, vps)
  BY <1>1, <1>2, ScriptsKeepDoor DEF SameDoor
<1>4. ASSUME NEW c,
             job' = [job EXCEPT ![j].arg = tl, ![j].out = @ \o <<OutLine("mark", p, 0), c>>, ![j].pc = npc]
      PROVE  AllJobsOK'
  <2>. DEFINE y == [job[j] EXCEPT !.arg = tl, !.out = job[j].out \o <<OutLine("mark", p, 0), c>>, !.pc = npc]
  <2>1. job' = [job EXCEPT ![j] = y]
    BY <1>4 DEF JobsInv, AllJobsOK
  <2>2. JobShape(y) /\ y.arg = tl /\ y.pc = npc
    BY <1>1 DEF JobShape
  <2>. HIDE DEF y
  <2>3. JobOK(y, mine)
    BY <1>2, <2>2 DEF JobOK
  <2>. QED
    BY <1>1, <2>1, <2>3, OneJob
<1>5. CASE Goto(j, "import") /\ vps' \in {vps, Persist(vps, p)}
  <2>1. AllJobsOK'
    BY <1>1, <1>5, GotoOK
  <2>. QED
    BY <1>1, <1>3, <1>5, <2>1, SameDoorStep
<1>6. CASE /\ vps' = Fragment(vps, p)
           /\ \E c : job' = [job EXCEPT ![j].arg = tl, ![j].out = @ \o <<OutLine("mark", p, 0), c>>, ![j].pc = npc]
  BY <1>1, <1>3, <1>4, <1>6, SameDoorStep
<1>. QED
  BY <1>5, <1>6 DEF Install

(* A key is added for the job; the lockdown only runs with a key that let  *)
(* it in.                                                                  *)
LEMMA DoorWork ==
    ASSUME JobsInv, NEW j \in JobIds, runHardenKeys(j) \/ Lockdown(j)
    PROVE  JobsInv'
<1>0. VpsShape(vps) /\ NoKey \notin mine
  BY DEF JobsInv
<1>1. CASE runHardenKeys(j)
  <2>1. mine' = mine /\ vps' = [vps EXCEPT !.keys = @ \cup {j}]
    BY <1>1 DEF runHardenKeys
  <2>2. AllJobsOK'
    BY <1>1, <2>1, FinishOK DEF runHardenKeys
  <2>3. VpsShape(vps') /\ vps'.file = vps.file /\ vps'.live = vps.live /\ vps.keys \subseteq vps'.keys
    BY <1>0, <2>1 DEF VpsShape
  <2>4. NeverLockedOut'
    BY <2>1, <2>3, StillIn
  <2>. QED
    BY <1>0, <2>1, <2>2, <2>3, <2>4 DEF JobsInv, VpsShape
<1>2. CASE Lockdown(j)
  <2>0. mine' = mine /\ job[j].pc = "lockdown"
    BY <1>2 DEF Lockdown
  <2>1. CASE Finish(j, FALSE) /\ vps' = vps
    BY <2>0, <2>1, FinishOK, QuietStep
  <2>2. CASE /\ Login(job[j].auth)
             /\ vps' \in {HardenLockdownScript(vps), [HardenLockdownScript(vps) EXCEPT !.live = vps.live]}
             /\ Goto(j, "mark") \/ Finish(j, FALSE)
    <3>1. AllJobsOK'
      BY <2>0, <2>2, GotoOK, FinishOK
    <3>2. job[j].auth \in mine
      BY <2>0, JobIsOK DEF JobOK
    <3>3. job[j].auth \in vps.keys
      BY <1>0, <2>2, <3>2 DEF Login
    <3>4. VpsShape(HardenLockdownScript(vps)) /\ HardenLockdownScript(vps).keys = vps.keys
      BY <1>0 DEF HardenLockdownScript, VpsShape
    <3>5. VpsShape(vps') /\ vps'.keys = vps.keys
      BY <1>0, <2>2, <3>4 DEF VpsShape
    <3>6. NeverLockedOut'
      BY <2>0, <3>2, <3>3, <3>5, StillIn
    <3>. QED
      BY <1>0, <2>0, <3>1, <3>5, <3>6 DEF JobsInv, VpsShape
  <2>. QED
    BY <1>2, <2>1, <2>2 DEF Lockdown
<1>. QED
  BY <1>1, <1>2

(* A new sing-box, and its restart. *)
LEMMA UpdateWork ==
    ASSUME JobsInv, NEW j \in JobIds, UpdateSingBoxScript(j) \/ runUpdateServerBinary(j)
    PROVE  JobsInv'
<1>0. VpsShape(vps)
  BY DEF JobsInv
<1>1. CASE UpdateSingBoxScript(j)
  <2>1. mine' = mine /\ Goto(j, "restart")
    BY <1>1 DEF UpdateSingBoxScript
  <2>2. AllJobsOK'
    BY <2>1, GotoOK
  <2>3. SameDoor(vps, vps')
    BY <1>0, <1>1 DEF UpdateSingBoxScript, SameDoor, VpsShape
  <2>. QED
    BY <2>1, <2>2, <2>3, SameDoorStep
<1>2. CASE runUpdateServerBinary(j)
  <2>1. mine' = mine /\ \E ok \in BOOLEAN : Finish(j, ok)
    BY <1>2 DEF runUpdateServerBinary
  <2>2. AllJobsOK'
    BY <2>1, FinishOK
  <2>3. vps' \in {vps, Restarted(vps), Restarted(RolledBack(vps))}
    BY <1>2 DEF runUpdateServerBinary
  <2>4. SameDoor(vps, Restarted(vps)) /\ SameDoor(vps, RolledBack(vps)) /\ SameDoor(vps, vps)
    BY <1>0, ScriptsKeepDoor DEF SameDoor
  <2>5. SameDoor(RolledBack(vps), Restarted(RolledBack(vps)))
    BY <2>4, ScriptsKeepDoor DEF SameDoor
  <2>6. SameDoor(vps, vps')
    BY <2>3, <2>4, <2>5 DEF SameDoor
  <2>. QED
    BY <2>1, <2>2, <2>6, SameDoorStep
<1>. QED
  BY <1>1, <1>2

(* The user downloads a key; the daemon restarts; the machine reboots. *)
LEMMA OutsideStep ==
    ASSUME JobsInv, DaemonRestart \/ VpsReboot \/ \E j \in JobIds : handleServerJob(j)
    PROVE  JobsInv'
<1>0. VpsShape(vps) /\ NoKey \notin mine /\ AllJobsOK
  BY DEF JobsInv
<1>1. CASE DaemonRestart
  <2>. DEFINE z == [NoJob EXCEPT !.kind = "lost", !.done = TRUE]
  <2>1. vps' = vps /\ mine' = mine /\ job' = [j \in JobIds |-> IF job[j] = NoJob THEN NoJob ELSE z]
    BY <1>1 DEF DaemonRestart
  <2>2. JobOK(NoJob, mine)
    BY DEF JobOK, JobShape, NoJob
  <2>3. JobShape(z) /\ z.pc = "none"
    BY DEF NoJob, JobShape
  <2>4. JobOK(z, mine)
    BY <2>3 DEF JobOK
  <2>. HIDE DEF z
  <2>5. AllJobsOK'
    BY <2>1, <2>2, <2>4 DEF AllJobsOK
  <2>. QED
    BY <2>1, <2>5, QuietStep
<1>2. CASE VpsReboot
  <2>. DEFINE r == Restarted(vps)
  <2>1. vps' = [r EXCEPT !.live = vps.file] /\ mine' = mine /\ job' = job
    BY <1>2 DEF VpsReboot
  <2>2. SameDoor(vps, r)
    BY <1>0, ScriptsKeepDoor
  <2>. HIDE DEF r
  <2>3. VpsShape(vps') /\ vps'.file = vps.file /\ vps'.live = vps.file /\ vps'.keys = vps.keys
    BY <1>0, <2>1, <2>2 DEF SameDoor, VpsShape
  <2>4. NeverLockedOut'
    BY <2>1, <2>3, StillIn
  <2>. QED
    BY <1>0, <2>1, <2>3, <2>4 DEF JobsInv, AllJobsOK, VpsShape
<1>3. ASSUME NEW j \in JobIds, handleServerJob(j) PROVE JobsInv'
  <2>1. vps' = vps /\ job' = job /\ mine' = mine \cup {j} /\ j # NoKey
    BY <1>3, JobsAssumption DEF handleServerJob, JobIds, NoKey
  <2>. QED
    BY <1>0, <2>1 DEF JobsInv, AllJobsOK, JobOK, NeverLockedOut, VpsShape
<1>. QED
  BY <1>1, <1>2, <1>3

LEMMA JobsStep == JobsInv /\ [JobNext]_jobVars => JobsInv'
<1>. SUFFICES ASSUME JobsInv, [JobNext]_jobVars PROVE JobsInv'
  OBVIOUS
<1>1. ASSUME NEW j \in JobIds, Work(j) PROVE JobsInv'
  BY <1>1, QuietWork, InstallStep, DoorWork, UpdateWork DEF Work
<1>2. CASE UNCHANGED jobVars
  BY <1>2 DEF jobVars, JobsInv, AllJobsOK, NeverLockedOut, VpsShape
<1>. QED
  BY <1>1, <1>2, RequestsStep, OutsideStep DEF JobNext

(* runLockdown, HardenLockdownScript: whatever jobs run at once on the     *)
(* machine, are cut or lost, and whenever it reboots, passwords are only   *)
(* off while a key it accepts is in the user's hands.                      *)
THEOREM UserKeepsAccess == JobSpec => []NeverLockedOut
<1>1. JobsInv => NeverLockedOut
  BY DEF JobsInv
<1>. QED
  BY <1>1, JobsInitInv, JobsStep, PTL DEF JobSpec

(* A job at work on the machine or on the router's records. *)
Busy(r) == r.pc \notin {"none", "end"}

OutLines == [is : {"mark", "config", "garbled"}, proto : Protocols, secret : Nat]
ServerRecords == [saved : BOOLEAN, installed : SUBSET Protocols, hardened : BOOLEAN]

(* A configuration with the credential that is on the machine. *)
Works(c, ident) == c.proto \in Protocols /\ c.label = c.proto /\ c.secret = ident[c.proto] /\ c.secret # 0

(* What a script has printed: each configuration behind its marker. *)
Printed(ls, ident) ==
    /\ ls \in Seq(OutLines)
    /\ \A i \in 1 .. Len(ls) : ls[i].is = "config" =>
          /\ ls[i].secret = ident[ls[i].proto] /\ ls[i].secret # 0
          /\ i > 1 /\ ls[i - 1].is = "mark" /\ ls[i - 1].proto = ls[i].proto

(* Each of the protocols has a connection. *)
Listed(ps, cs) == \A p \in ps : \E c \in cs : c.label = p

JobFits(r, ident, cs) ==
    /\ Busy(r) => r.kind # "none" /\ ~r.done
    /\ r.pc \in {"dial", "install", "import"} => Printed(r.out, ident)
    /\ r.pc = "upsert" => \A i \in DOMAIN r.out : Works(r.out[i], ident)
    /\ r.added \in SUBSET Protocols /\ Listed(r.added, cs)
    /\ r.read \in ServerRecords /\ Listed(r.read.installed, cs)

VpsFits(v) ==
    /\ v.ident \in [Protocols -> Nat] /\ v.made \in Nat
    /\ v.wrote \in SUBSET {Reality, Trojan} /\ v.loaded \in SUBSET Protocols

(* sing-box serves nothing but what was written for it, unless Reality is   *)
(* mixed with the others; and it serves all of it.                          *)
Mix(v) == Reality \in v.wrote /\ v.wrote # {Reality}
Fitting(v) == ~Mix(v) => v.unit = v.wrote /\ v.loaded \ {Kernel} \subseteq v.wrote
Serving(v) == v.bin \notin Rejecting /\ (~Mix(v) => v.wrote \subseteq v.loaded)

(* As long as no two jobs run at once and no update is cut, the machine     *)
(* serves, but for a release that is about to be restarted; then the backup *)
(* would.                                                                   *)
KeepsServing(v, sp, jobs) ==
    /\ Fitting(v)
    /\ ~sp =>
        /\ \A i, j \in JobIds : Busy(jobs[i]) /\ Busy(jobs[j]) => i = j
        /\ \A j \in JobIds : jobs[j].pc = "restart" => v.bak # 0 /\ v.bak \notin Rejecting
        /\ (\A j \in JobIds : jobs[j].pc # "restart") => Serving(v)

WorkInv ==
    /\ VpsFits(vps)
    /\ \A c \in conns : Works(c, vps.ident)
    /\ srv \in ServerRecords /\ Listed(srv.installed, conns)
    /\ \A j \in JobIds : JobFits(job[j], vps.ident, conns)
    /\ KeepsServing(vps, spoiled, job)
    /\ jobFaults \in Nat /\ spoiled \in BOOLEAN

(* A credential on the machine stays. *)
Kept(a, b) == \A p \in Protocols : a[p] # 0 => b[p] = a[p]

(* What was right stays right when only new credentials and connections     *)
(* come.                                                                    *)
LEMMA FitsStill ==
    ASSUME NEW r, NEW a, NEW b, NEW cs, NEW ds, JobFits(r, a, cs), Kept(a, b), cs \subseteq ds
    PROVE  JobFits(r, b, ds)
<1>1. ASSUME Printed(r.out, a) PROVE Printed(r.out, b)
  <2>1. r.out \in Seq(OutLines)
    BY <1>1 DEF Printed
  <2>2. \A i \in 1 .. Len(r.out) : r.out[i] \in OutLines
    BY <2>1
  <2>3. \A i \in 1 .. Len(r.out) : r.out[i].proto \in Protocols
    BY <2>2 DEF OutLines
  <2>. QED
    BY <1>1, <2>1, <2>3 DEF Printed, Kept
<1>2. \A c : Works(c, a) => Works(c, b)
  BY DEF Works, Kept
<1>3. \A ps : Listed(ps, cs) => Listed(ps, ds)
  BY DEF Listed
<1>. QED
  BY <1>1, <1>2, <1>3 DEF JobFits

(* A configuration works as long as the credential on the machine is kept.  *)
LEMMA WorksStill ==
    ASSUME NEW a, NEW b, Kept(a, b), NEW c, Works(c, a)
    PROVE  Works(c, b)
  BY DEF Works, Kept

(* One job changes, and the machine at most in its credentials and its door.*)
SameService(v, w) == w.wrote = v.wrote /\ w.unit = v.unit /\ w.loaded = v.loaded /\ w.bin = v.bin /\ w.bak = v.bak

(* The service's state reads the same fields of both machines.              *)
LEMMA SameServes ==
    ASSUME NEW v, NEW w, SameService(v, w)
    PROVE  (Fitting(w) <=> Fitting(v)) /\ (Serving(w) <=> Serving(v))
  BY DEF SameService, Fitting, Serving, Mix

(* A step that writes one job's record leaves the others fitting.           *)
LEMMA OneWorks ==
    ASSUME JobsInv, WorkInv, NEW j \in JobIds, NEW y, job' = [job EXCEPT ![j] = y],
           Kept(vps.ident, vps'.ident), conns \subseteq conns', JobFits(y, vps'.ident, conns')
    PROVE  /\ \A i \in JobIds : JobFits(job'[i], vps'.ident, conns')
           /\ \A i \in JobIds : job'[i] = IF i = j THEN y ELSE job[i]
<1>1. \A i \in JobIds : job'[i] = IF i = j THEN y ELSE job[i]
  BY DEF JobsInv, AllJobsOK
<1>2. \A i \in JobIds : JobFits(job[i], vps'.ident, conns')
  BY FitsStill DEF WorkInv
<1>. QED
  BY <1>1, <1>2

(* A step of one job that leaves the service on the machine alone.          *)
LEMMA WorkQuiet ==
    ASSUME JobsInv, WorkInv, NEW j \in JobIds, NEW y, job' = [job EXCEPT ![j] = y],
           VpsFits(vps'), Kept(vps.ident, vps'.ident), SameService(vps, vps'),
           conns \subseteq conns', \A c \in conns' \ conns : Works(c, vps'.ident),
           srv' \in ServerRecords, Listed(srv'.installed, conns'), JobFits(y, vps'.ident, conns'),
           Busy(y) => Busy(job[j]), y.pc # "restart", job[j].pc # "restart",
           jobFaults' \in Nat, spoiled' = spoiled
    PROVE  WorkInv'
<1>1. /\ \A i \in JobIds : JobFits(job'[i], vps'.ident, conns')
      /\ \A i \in JobIds : job'[i] = IF i = j THEN y ELSE job[i]
  BY OneWorks
<1>2. \A c \in conns' : Works(c, vps'.ident)
  BY WorksStill DEF WorkInv
<1>3. KeepsServing(vps', spoiled', job')
  <2>1. KeepsServing(vps, spoiled, job)
    BY DEF WorkInv
  <2>2. (Fitting(vps') <=> Fitting(vps)) /\ (Serving(vps') <=> Serving(vps)) /\ vps'.bak = vps.bak
    BY SameServes DEF SameService
  <2>. QED
    BY <1>1, <2>1, <2>2 DEF KeepsServing
<1>4. spoiled' \in BOOLEAN
  BY DEF WorkInv
<1>. QED
  BY <1>1, <1>2, <1>3, <1>4 DEF WorkInv

(* The machine stands still. *)
LEMMA Still ==
    ASSUME WorkInv, vps' = vps
    PROVE  VpsFits(vps') /\ Kept(vps.ident, vps'.ident) /\ SameService(vps, vps')
  BY DEF WorkInv, Kept, SameService, VpsFits

(* The job table's part of WorkInv, for one job.                            *)
LEMMA JobFitsNow == ASSUME WorkInv, NEW j \in JobIds PROVE JobFits(job[j], vps.ident, conns)
  BY DEF WorkInv

(* The count of faults stays a count.                                       *)
LEMMA FaultOK == ASSUME WorkInv, NoFault \/ JobFault PROVE jobFaults' \in Nat
  BY DEF WorkInv, NoFault, JobFault

(* Closing a job's record touches no connection.                            *)
LEMMA FinishWork ==
    ASSUME JobsInv, WorkInv, NEW j \in JobIds, NEW ok, Finish(j, ok), Busy(job[j]), job[j].pc # "restart",
           VpsFits(vps'), Kept(vps.ident, vps'.ident), SameService(vps, vps'), conns' = conns,
           srv' \in ServerRecords, Listed(srv'.installed, conns'), jobFaults' \in Nat, spoiled' = spoiled
    PROVE  WorkInv'
<1>. DEFINE y == [job[j] EXCEPT !.pc = "end", !.done = TRUE, !.ok = ok]
<1>1. JobFits(job[j], vps.ident, conns) /\ JobShape(job[j])
  BY JobFitsNow, JobIsOK
<1>2. job' = [job EXCEPT ![j] = y]
  BY <1>1 DEF Finish, JobFits
<1>3. y.pc = "end" /\ y.added = job[j].added /\ y.read = job[j].read
  BY <1>1 DEF JobShape
<1>. HIDE DEF y
<1>4. JobFits(y, vps.ident, conns) /\ ~Busy(y)
  BY <1>1, <1>3 DEF JobFits, Busy
<1>5. JobFits(y, vps'.ident, conns')
  BY <1>4, FitsStill
<1>. QED
  BY <1>2, <1>3, <1>4, <1>5, WorkQuiet

(* A job that moves on to its next script.                                  *)
LEMMA GotoWork ==
    ASSUME JobsInv, WorkInv, NEW j \in JobIds, NEW pc, Goto(j, pc), Busy(job[j]), job[j].pc # "restart",
           pc \in {"install", "import", "lockdown", "mark"},
           pc \in {"install", "import"} => job[j].pc \in {"dial", "install", "import"},
           VpsFits(vps'), Kept(vps.ident, vps'.ident), SameService(vps, vps'), conns' = conns, srv' = srv,
           jobFaults' \in Nat, spoiled' = spoiled
    PROVE  WorkInv'
<1>. DEFINE y == [job[j] EXCEPT !.pc = pc]
<1>1. JobFits(job[j], vps.ident, conns) /\ JobShape(job[j])
  BY JobFitsNow, JobIsOK
<1>2. job' = [job EXCEPT ![j] = y]
  BY DEF Goto
<1>3. /\ y.pc = pc /\ y.added = job[j].added /\ y.read = job[j].read /\ y.out = job[j].out
      /\ y.kind = job[j].kind /\ y.done = job[j].done
  BY <1>1 DEF JobShape
<1>. HIDE DEF y
<1>4. JobFits(y, vps.ident, conns)
  BY <1>1, <1>3 DEF JobFits
<1>5. JobFits(y, vps'.ident, conns')
  BY <1>4, FitsStill
<1>6. srv' \in ServerRecords /\ Listed(srv'.installed, conns')
  BY DEF WorkInv
<1>. QED
  BY <1>2, <1>3, <1>5, <1>6, WorkQuiet

(* ExtractTagged labels what the scripts printed with what it is. *)
LEMMA ExtractWorks ==
    ASSUME NEW ls, NEW ident, Printed(ls, ident)
    PROVE  \A i \in DOMAIN ExtractTagged(ls) : Works(ExtractTagged(ls)[i], ident)
<1>. SUFFICES ASSUME NEW i \in Configs(ls) PROVE Works(ExtractTagged(ls)[i], ident)
  BY DEF ExtractTagged
<1>1. ls \in Seq(OutLines) /\ i \in 1 .. Len(ls) /\ ls[i].is = "config"
  BY DEF Printed, Configs
<1>2. /\ ls[i].secret = ident[ls[i].proto] /\ ls[i].secret # 0
      /\ i > 1 /\ ls[i - 1].is = "mark" /\ ls[i - 1].proto = ls[i].proto
  BY <1>1 DEF Printed
<1>3. i - 1 \in DOMAIN ls
  BY <1>1, <1>2
<1>4. ExtractTagged(ls)[i] = Tagged(ls[i - 1].proto, ls[i])
  BY <1>2, <1>3 DEF ExtractTagged
<1>5. ls[i].proto \in Protocols
  <2>1. ls[i] \in OutLines
    BY <1>1
  <2>. QED
    BY <2>1 DEF OutLines
<1>. QED
  BY <1>2, <1>4, <1>5 DEF Works, Tagged

(* Jobs that only read the machine or write the router's own records. *)
LEMMA QuietFits ==
    ASSUME JobsInv, WorkInv, NEW j \in JobIds,
           \/ Unreachable(j) \/ Dial(j) \/ runProvision(j) \/ ImportOne(j) \/ GetServer(j)
           \/ saveProvisionedServer(j) \/ runLockdown(j) \/ MarkHardened(j) \/ runCheckVersions(j)
    PROVE  WorkInv'
<1>0. /\ JobFits(job[j], vps.ident, conns) /\ JobShape(job[j])
      /\ srv \in ServerRecords /\ Listed(srv.installed, conns)
  BY JobFitsNow, JobIsOK DEF WorkInv
<1>00. vps' = vps => VpsFits(vps') /\ Kept(vps.ident, vps'.ident) /\ SameService(vps, vps')
  BY Still
<1>1. CASE Unreachable(j)
  <2>1. Busy(job[j]) /\ job[j].pc # "restart"
    BY <1>1 DEF Unreachable, Busy
  <2>2. jobFaults' \in Nat
    BY <1>1, FaultOK DEF Unreachable
  <2>. QED
    BY <1>0, <1>00, <1>1, <2>1, <2>2, FinishWork DEF Unreachable
<1>2. CASE Dial(j)
  <2>1. Busy(job[j]) /\ job[j].pc # "restart"
    BY <1>2 DEF Dial, Busy
  <2>2. jobFaults' \in Nat
    BY <1>2 DEF Dial, WorkInv
  <2>. QED
    BY <1>0, <1>00, <1>2, <2>1, <2>2, GotoWork DEF Dial
<1>3. CASE runProvision(j)
  <2>1. Busy(job[j]) /\ job[j].pc = "import"
    BY <1>3 DEF runProvision, Busy
  <2>2. jobFaults' \in Nat
    BY <1>3 DEF runProvision, WorkInv
  <2>3. CASE Finish(j, FALSE)
    BY <1>0, <1>00, <1>3, <2>1, <2>2, <2>3, FinishWork DEF runProvision
  <2>4. CASE job' = [job EXCEPT ![j].pc = "upsert", ![j].out = ExtractTagged(@)]
    <3>. DEFINE y == [job[j] EXCEPT !.pc = "upsert", !.out = ExtractTagged(job[j].out)]
    <3>1. job' = [job EXCEPT ![j] = y]
      BY <2>4
    <3>2. /\ y.pc = "upsert" /\ y.out = ExtractTagged(job[j].out) /\ y.added = job[j].added /\ y.read = job[j].read
          /\ y.kind = job[j].kind /\ y.done = job[j].done
      BY <1>0 DEF JobShape
    <3>3. \A i \in DOMAIN ExtractTagged(job[j].out) : Works(ExtractTagged(job[j].out)[i], vps.ident)
      BY <1>0, <2>1, ExtractWorks DEF JobFits
    <3>. HIDE DEF y
    <3>4. JobFits(y, vps.ident, conns)
      BY <1>0, <2>1, <3>2, <3>3 DEF JobFits
    <3>5. /\ vps' = vps /\ conns' = conns /\ srv' = srv /\ spoiled' = spoiled
      BY <1>3 DEF runProvision
    <3>6. Busy(y) => Busy(job[j])
      BY <2>1
    <3>. QED
      BY <1>0, <1>00, <2>1, <2>2, <3>1, <3>2, <3>4, <3>5, <3>6, WorkQuiet
  <2>. QED
    BY <1>3, <2>3, <2>4 DEF runProvision
<1>4. CASE ImportOne(j)
  <2>0. job[j].pc = "upsert" /\ Busy(job[j])
    BY <1>4 DEF ImportOne, Busy
  <2>00. /\ vps' = vps /\ srv' = srv /\ spoiled' = spoiled
    BY <1>4 DEF ImportOne
  <2>1. PICK i \in DOMAIN job[j].out :
          LET left == [job EXCEPT ![j].out = Restrict(@, DOMAIN @ \ {i})]
              c == job[j].out[i]
          IN \/ NoFault /\ conns' = conns \cup {c} /\ job' = [left EXCEPT ![j].added = @ \cup {c.label}]
             \/ JobFault /\ job' = left /\ UNCHANGED conns
    BY <1>4 DEF ImportOne
  <2>. DEFINE c == job[j].out[i]
              later == Restrict(job[j].out, DOMAIN job[j].out \ {i})
              x == [job[j] EXCEPT !.out = later]
              z == [x EXCEPT !.added = job[j].added \cup {c.label}]
  <2>2. Works(c, vps.ident)
    BY <1>0, <2>0 DEF JobFits
  <2>3. \A n \in DOMAIN later : Works(later[n], vps.ident)
    BY <1>0, <2>0 DEF JobFits, Restrict
  <2>4. c.label \in Protocols
    BY <2>2 DEF Works
  <2>5. \/ conns' = conns \cup {c} /\ job' = [job EXCEPT ![j] = z]
        \/ conns' = conns /\ job' = [job EXCEPT ![j] = x]
    <3>. DEFINE left == [job EXCEPT ![j].out = Restrict(@, DOMAIN @ \ {i})]
                more == [left EXCEPT ![j].added = @ \cup {c.label}]
    <3>1. \/ conns' = conns \cup {c} /\ job' = more
          \/ conns' = conns /\ job' = left
      BY <2>1
    <3>2. left = [job EXCEPT ![j] = x]
      BY Zenon
    <3>. HIDE DEF left, x, c
    <3>3. job = [k \in JobIds |-> job[k]]
      BY DEF JobsInv, AllJobsOK
    <3>4. left[j] = x /\ DOMAIN left = JobIds /\ \A k \in JobIds \ {j} : left[k] = job[k]
      BY <3>2, <3>3
    <3>5. x.added = job[j].added
      BY <1>0 DEF x, JobShape
    <3>6. more = [job EXCEPT ![j] = z]
      <4>1. more = [left EXCEPT ![j] = z]
        BY <3>4, <3>5
      <4>. HIDE DEF z, more
      <4>. QED
        BY <3>2, <3>3, <4>1
    <3>. QED
      BY <3>1, <3>2, <3>6
  <2>6. jobFaults' \in Nat
    BY <2>1, FaultOK
  <2>. HIDE DEF c, later
  <2>7. /\ JobShape(x) /\ x.pc = "upsert" /\ x.out = later /\ x.added = job[j].added /\ x.read = job[j].read
        /\ x.kind = job[j].kind /\ x.done = job[j].done
    BY <1>0, <2>0 DEF JobShape
  <2>. HIDE DEF x
  <2>8. /\ z.pc = "upsert" /\ z.out = later /\ z.added = job[j].added \cup {c.label} /\ z.read = job[j].read
        /\ z.kind = job[j].kind /\ z.done = job[j].done
    BY <2>7 DEF JobShape
  <2>. HIDE DEF z
  <2>9. JobFits(x, vps.ident, conns)
    BY <1>0, <2>0, <2>3, <2>7 DEF JobFits
  <2>10. JobFits(z, vps.ident, conns \cup {c})
    <3>1. Listed(job[j].added \cup {c.label}, conns \cup {c}) /\ Listed(job[j].read.installed, conns \cup {c})
      BY <1>0 DEF JobFits, Listed
    <3>. QED
      BY <1>0, <2>0, <2>3, <2>4, <2>8, <3>1 DEF JobFits
  <2>11. Listed(srv.installed, conns \cup {c})
    BY <1>0 DEF Listed
  <2>12. CASE conns' = conns \cup {c} /\ job' = [job EXCEPT ![j] = z]
    <3>1. conns \subseteq conns' /\ \A d \in conns' \ conns : Works(d, vps'.ident)
      BY <2>00, <2>2, <2>12
    <3>2. JobFits(z, vps'.ident, conns') /\ Listed(srv'.installed, conns') /\ srv' \in ServerRecords
      BY <1>0, <2>00, <2>10, <2>11, <2>12
    <3>. QED
      BY <1>00, <2>0, <2>00, <2>6, <2>8, <2>12, <3>1, <3>2, WorkQuiet
  <2>13. CASE conns' = conns /\ job' = [job EXCEPT ![j] = x]
    <3>1. conns \subseteq conns' /\ \A d \in conns' \ conns : Works(d, vps'.ident)
      BY <2>13
    <3>2. JobFits(x, vps'.ident, conns') /\ Listed(srv'.installed, conns') /\ srv' \in ServerRecords
      BY <1>0, <2>00, <2>9, <2>13
    <3>. QED
      BY <1>00, <2>0, <2>00, <2>6, <2>7, <2>13, <3>1, <3>2, WorkQuiet
  <2>. QED
    BY <2>5, <2>12, <2>13
<1>5. CASE GetServer(j)
  <2>. DEFINE y == [job[j] EXCEPT !.pc = "save", !.read = srv]
  <2>1. job' = [job EXCEPT ![j] = y]
    BY <1>5 DEF GetServer
  <2>2. /\ y.pc = "save" /\ y.added = job[j].added /\ y.read = srv /\ y.kind = job[j].kind /\ y.done = job[j].done
    BY <1>0 DEF JobShape
  <2>3. job[j].pc = "upsert" /\ Busy(job[j]) /\ vps' = vps /\ srv' = srv /\ conns' = conns /\ spoiled' = spoiled
    BY <1>5 DEF GetServer, Busy
  <2>4. jobFaults' \in Nat
    BY <1>5 DEF GetServer, WorkInv
  <2>. HIDE DEF y
  <2>5. JobFits(y, vps.ident, conns)
    BY <1>0, <2>2, <2>3 DEF JobFits
  <2>. QED
    BY <1>0, <1>00, <2>1, <2>2, <2>3, <2>4, <2>5, WorkQuiet
<1>6. CASE saveProvisionedServer(j)
  <2>1. job[j].pc = "save" /\ Busy(job[j]) /\ vps' = vps /\ conns' = conns /\ spoiled' = spoiled /\ Finish(j, job[j].added # {})
    BY <1>6 DEF saveProvisionedServer, Busy
  <2>2. jobFaults' \in Nat
    BY <1>6, FaultOK DEF saveProvisionedServer
  <2>3. srv' = srv \/ srv' = [job[j].read EXCEPT !.saved = TRUE, !.installed = @ \cup job[j].added]
    BY <1>6 DEF saveProvisionedServer
  <2>4. job[j].read \in ServerRecords /\ job[j].added \in SUBSET Protocols
    BY <1>0 DEF JobFits
  <2>5. Listed(job[j].read.installed \cup job[j].added, conns)
    BY <1>0 DEF JobFits, Listed
  <2>6. srv' \in ServerRecords /\ Listed(srv'.installed, conns')
    BY <1>0, <2>1, <2>3, <2>4, <2>5 DEF ServerRecords
  <2>. QED
    BY <1>00, <2>1, <2>2, <2>6, FinishWork
<1>7. CASE runLockdown(j)
  <2>1. job[j].pc = "verify" /\ Busy(job[j])
    BY <1>7 DEF runLockdown, Busy
  <2>2. jobFaults' \in Nat
    BY <1>7, FaultOK DEF runLockdown
  <2>3. CASE Goto(j, "lockdown")
    BY <1>00, <1>7, <2>1, <2>2, <2>3, GotoWork DEF runLockdown
  <2>4. CASE Finish(j, FALSE)
    BY <1>0, <1>00, <1>7, <2>1, <2>2, <2>4, FinishWork DEF runLockdown
  <2>. QED
    BY <1>7, <2>3, <2>4 DEF runLockdown
<1>8. CASE MarkHardened(j)
  <2>1. job[j].pc = "mark" /\ Busy(job[j]) /\ vps' = vps /\ conns' = conns /\ spoiled' = spoiled /\ Finish(j, TRUE)
    BY <1>8 DEF MarkHardened, Busy
  <2>2. jobFaults' \in Nat
    BY <1>8, FaultOK DEF MarkHardened
  <2>3. srv' = srv \/ srv' = [srv EXCEPT !.hardened = TRUE]
    BY <1>8 DEF MarkHardened
  <2>4. srv' \in ServerRecords /\ Listed(srv'.installed, conns')
    BY <1>0, <2>1, <2>3 DEF ServerRecords
  <2>. QED
    BY <1>00, <2>1, <2>2, <2>4, FinishWork
<1>9. CASE runCheckVersions(j)
  <2>1. Busy(job[j]) /\ job[j].pc # "restart"
    BY <1>9 DEF runCheckVersions, Busy
  <2>2. jobFaults' \in Nat
    BY <1>9 DEF runCheckVersions, WorkInv
  <2>. QED
    BY <1>0, <1>00, <1>9, <2>1, <2>2, FinishWork DEF runCheckVersions
<1>. QED
  BY <1>1, <1>2, <1>3, <1>4, <1>5, <1>6, <1>7, <1>8, <1>9

(* The protocols are three different names.                                 *)
LEMMA ProtocolsApart == Kernel # Reality /\ Kernel # Trojan /\ Reality # Trojan /\ Protocols = {Kernel, Reality, Trojan}
  BY DEF Kernel, Reality, Trojan, Protocols

(* What a fragment and a restart of the service do to the machine, field by *)
(* field.                                                                   *)
LEMMA PersistIs ==
    ASSUME NEW v, VpsShape(v), VpsFits(v), NEW p \in Protocols
    PROVE  LET w == Persist(v, p) IN
           VpsShape(w) /\ VpsFits(w) /\ SameService(v, w) /\ Kept(v.ident, w.ident) /\ w.ident[p] # 0
<1>1. CASE v.ident[p] # 0
  BY <1>1 DEF Persist, SameService, Kept
<1>2. CASE v.ident[p] = 0
  <2>. DEFINE n == v.made + 1
              w == [v EXCEPT !.ident[p] = n, !.made = v.made + 1]
  <2>1. Persist(v, p) = w
    BY <1>2 DEF Persist
  <2>2. n \in Nat /\ n # 0 /\ v.ident \in [Protocols -> Nat]
    BY DEF VpsFits
  <2>. HIDE DEF n
  <2>3. /\ VpsShape(w) /\ SameService(v, w) /\ w.made = v.made + 1
        /\ w.ident = [v.ident EXCEPT ![p] = n]
    BY DEF VpsShape, SameService
  <2>. HIDE DEF w
  <2>4. VpsFits(w)
    BY <2>2, <2>3 DEF VpsFits, SameService
  <2>5. Kept(v.ident, w.ident) /\ w.ident[p] # 0
    BY <1>2, <2>2, <2>3 DEF Kept
  <2>. QED
    BY <2>1, <2>3, <2>4, <2>5
<1>. QED
  BY <1>1, <1>2

(* The release the install fragment leaves in place.                        *)
LEMMA InstalledIs ==
    ASSUME NEW v, VpsShape(v)
    PROVE  LET w == Installed(v) IN
           /\ VpsShape(w) /\ w.ident = v.ident /\ w.made = v.made /\ w.wrote = v.wrote /\ w.unit = v.unit
           /\ w.loaded = v.loaded /\ w.bak = v.bak /\ w.bin = IF v.bin = 0 THEN 1 ELSE v.bin
  BY DEF Installed, VpsShape

(* What the service serves when it starts. *)
Comes(wrote, unit, bin) == IF bin \in Rejecting THEN {} ELSE wrote \cap unit

(* What the Reality fragment writes, and the unit it leaves.                *)
LEMMA RealityIs ==
    ASSUME NEW v, VpsShape(v)
    PROVE  LET w == scriptReality(v) IN
           /\ VpsShape(w) /\ w.ident = v.ident /\ w.made = v.made /\ w.wrote = v.wrote \cup {Reality} /\ w.unit = {Reality}
           /\ w.bak = v.bak /\ w.bin = (IF v.bin = 0 THEN 1 ELSE v.bin)
           /\ w.loaded = IF v.loaded \ {Kernel} = {} THEN v.loaded \cup Comes(w.wrote, w.unit, w.bin) ELSE v.loaded
<1>. DEFINE a == Installed(v)
            b == [a EXCEPT !.wrote = @ \cup {Reality}, !.unit = {Reality}]
            c == [b EXCEPT !.loaded = @ \cup Loads(b)]
<1>1. /\ VpsShape(a) /\ a.ident = v.ident /\ a.made = v.made /\ a.wrote = v.wrote /\ a.unit = v.unit
      /\ a.loaded = v.loaded /\ a.bak = v.bak /\ a.bin = IF v.bin = 0 THEN 1 ELSE v.bin
  BY InstalledIs
<1>2. scriptReality(v) = IF b.loaded \ {Kernel} = {} THEN c ELSE b
  BY DEF scriptReality
<1>. HIDE DEF a
<1>3. /\ VpsShape(b) /\ b.ident = v.ident /\ b.made = v.made /\ b.wrote = v.wrote \cup {Reality} /\ b.unit = {Reality}
      /\ b.loaded = v.loaded /\ b.bak = v.bak /\ b.bin = IF v.bin = 0 THEN 1 ELSE v.bin
  BY <1>1 DEF VpsShape
<1>. HIDE DEF b
<1>4. /\ VpsShape(c) /\ c.ident = b.ident /\ c.made = b.made /\ c.wrote = b.wrote /\ c.unit = b.unit
      /\ c.loaded = b.loaded \cup Loads(b) /\ c.bak = b.bak /\ c.bin = b.bin
  BY <1>3 DEF VpsShape
<1>5. Loads(b) = Comes(c.wrote, c.unit, c.bin)
  BY <1>4 DEF Loads, Comes
<1>. HIDE DEF c
<1>. QED
  BY <1>2, <1>3, <1>4, <1>5

(* What the Trojan fragment writes, and the unit it adds to.                *)
LEMMA TrojanIs ==
    ASSUME NEW v, VpsShape(v)
    PROVE  LET w == scriptTrojan(v) IN
           /\ VpsShape(w) /\ w.ident = v.ident /\ w.made = v.made /\ w.wrote = v.wrote \cup {Trojan}
           /\ w.unit = {Trojan} \cup (v.wrote \cap {Reality})
           /\ w.bak = v.bak /\ w.bin = (IF v.bin = 0 THEN 1 ELSE v.bin)
           /\ w.loaded = (v.loaded \cap {Kernel}) \cup Comes(w.wrote, w.unit, w.bin)
<1>. DEFINE a == Installed(v)
            b == [a EXCEPT !.wrote = @ \cup {Trojan}, !.unit = {Trojan} \cup (v.wrote \cap {Reality})]
            c == [b EXCEPT !.loaded = (@ \cap {Kernel}) \cup Loads(b)]
<1>1. /\ VpsShape(a) /\ a.ident = v.ident /\ a.made = v.made /\ a.wrote = v.wrote /\ a.unit = v.unit
      /\ a.loaded = v.loaded /\ a.bak = v.bak /\ a.bin = IF v.bin = 0 THEN 1 ELSE v.bin
  BY InstalledIs
<1>2. scriptTrojan(v) = c
  BY DEF scriptTrojan
<1>. HIDE DEF a
<1>3. /\ VpsShape(b) /\ b.ident = v.ident /\ b.made = v.made /\ b.wrote = v.wrote \cup {Trojan}
      /\ b.unit = {Trojan} \cup (v.wrote \cap {Reality})
      /\ b.loaded = v.loaded /\ b.bak = v.bak /\ b.bin = IF v.bin = 0 THEN 1 ELSE v.bin
  BY <1>1 DEF VpsShape
<1>. HIDE DEF b
<1>4. /\ VpsShape(c) /\ c.ident = b.ident /\ c.made = b.made /\ c.wrote = b.wrote /\ c.unit = b.unit
      /\ c.loaded = (b.loaded \cap {Kernel}) \cup Loads(b) /\ c.bak = b.bak /\ c.bin = b.bin
  BY <1>3 DEF VpsShape
<1>5. Loads(b) = Comes(c.wrote, c.unit, c.bin)
  BY <1>4 DEF Loads, Comes
<1>. HIDE DEF c
<1>. QED
  BY <1>2, <1>3, <1>4, <1>5

(* The service after a restart: what it loads, and when it serves.          *)
LEMMA RestartedIs ==
    ASSUME NEW v, VpsShape(v), VpsFits(v)
    PROVE  LET w == Restarted(v) IN
           /\ VpsShape(w) /\ VpsFits(w) /\ w.ident = v.ident /\ w.bak = v.bak /\ w.bin = v.bin
           /\ Fitting(v) => Fitting(w)
           /\ Fitting(v) /\ v.bin \notin Rejecting => Serving(w)
<1>. DEFINE w == Restarted(v)
<1>1. /\ VpsShape(w) /\ w.ident = v.ident /\ w.made = v.made /\ w.wrote = v.wrote /\ w.unit = v.unit
      /\ w.bak = v.bak /\ w.bin = v.bin /\ w.loaded = (v.loaded \cap {Kernel}) \cup Loads(v)
  BY DEF Restarted, VpsShape
<1>. HIDE DEF w
<1>2. Loads(v) = IF v.bin \in Rejecting THEN {} ELSE v.wrote \cap v.unit
  BY DEF Loads
<1>3. VpsFits(w)
  BY <1>1, <1>2, ProtocolsApart DEF VpsFits
<1>4. (Fitting(v) => Fitting(w)) /\ (Fitting(v) /\ v.bin \notin Rejecting => Serving(w))
  BY <1>1, <1>2 DEF Fitting, Serving, Mix
<1>. QED
  BY <1>1, <1>3, <1>4 DEF w

(* A fragment leaves a machine that serves serving. *)
LEMMA FragmentServes ==
    ASSUME NEW v, VpsShape(v), VpsFits(v), Fitting(v), NEW p \in Protocols
    PROVE  LET w == Fragment(v, p) IN
           /\ VpsFits(w) /\ Kept(v.ident, w.ident) /\ w.ident[p] = Persist(v, p).ident[p] /\ w.ident[p] # 0
           /\ w.bak = v.bak /\ Fitting(w) /\ (Serving(v) => Serving(w))
<1>. DEFINE u == Persist(v, p)
            w == Fragment(v, p)
<1>1. VpsShape(u) /\ VpsFits(u) /\ SameService(v, u) /\ Kept(v.ident, u.ident) /\ u.ident[p] # 0
  BY PersistIs
<1>2. /\ p = Kernel => w = scriptWireGuard(u)
      /\ p = Reality => w = scriptReality(u)
      /\ p = Trojan => w = scriptTrojan(u)
  BY ProtocolsApart DEF Fragment
<1>. HIDE DEF u, w
<1>3. u.bak = v.bak /\ Fitting(u) /\ (Serving(v) => Serving(u))
  BY <1>1, SameServes DEF SameService
<1>4. 1 \notin Rejecting
  BY JobsAssumption
<1>5. CASE p = Kernel
  <2>1. /\ w.ident = u.ident /\ w.made = u.made /\ w.wrote = u.wrote /\ w.unit = u.unit /\ w.bak = u.bak
        /\ w.bin = u.bin /\ w.loaded = u.loaded \cup {Kernel}
    BY <1>1, <1>2, <1>5 DEF scriptWireGuard, VpsShape
  <2>2. VpsFits(w)
    BY <1>1, <2>1, ProtocolsApart DEF VpsFits
  <2>3. Fitting(w) /\ (Serving(u) => Serving(w))
    BY <1>3, <2>1 DEF Fitting, Serving, Mix
  <2>. QED
    BY <1>1, <1>3, <2>1, <2>2, <2>3 DEF u, w
<1>6. CASE p = Reality
  <2>1. /\ w.ident = u.ident /\ w.made = u.made /\ w.wrote = u.wrote \cup {Reality} /\ w.unit = {Reality}
        /\ w.bak = u.bak /\ w.bin = (IF u.bin = 0 THEN 1 ELSE u.bin)
        /\ w.loaded = IF u.loaded \ {Kernel} = {} THEN u.loaded \cup Comes(w.wrote, w.unit, w.bin) ELSE u.loaded
    BY <1>1, <1>2, <1>6, RealityIs
  <2>2. VpsFits(w)
    BY <1>1, <2>1, ProtocolsApart DEF VpsFits, Comes
  <2>3. Fitting(w) /\ (Serving(u) => Serving(w))
    <3>1. ~Mix(w) => ~Mix(u) /\ w.wrote = {Reality} /\ u.wrote \subseteq {Reality}
      BY <2>1 DEF Mix
    <3>2. ~Mix(w) => u.loaded \ {Kernel} \subseteq {Reality}
      BY <1>3, <3>1 DEF Fitting
    <3>3. w.bin \notin Rejecting => Comes(w.wrote, w.unit, w.bin) = {Reality}
      BY <2>1 DEF Comes
    <3>4. Comes(w.wrote, w.unit, w.bin) \subseteq {Reality}
      BY <2>1 DEF Comes
    <3>5. Fitting(w)
      BY <2>1, <3>1, <3>2, <3>4 DEF Fitting
    <3>6. Serving(u) => w.bin \notin Rejecting
      BY <1>4, <2>1 DEF Serving
    <3>7. w.bin \notin Rejecting /\ ~Mix(w) => w.wrote \subseteq w.loaded
      BY <2>1, <3>1, <3>2, <3>3
    <3>. QED
      BY <3>5, <3>6, <3>7 DEF Serving
  <2>. QED
    BY <1>1, <1>3, <2>1, <2>2, <2>3 DEF u, w
<1>7. CASE p = Trojan
  <2>1. /\ w.ident = u.ident /\ w.made = u.made /\ w.wrote = u.wrote \cup {Trojan}
        /\ w.unit = {Trojan} \cup (u.wrote \cap {Reality})
        /\ w.bak = u.bak /\ w.bin = (IF u.bin = 0 THEN 1 ELSE u.bin)
        /\ w.loaded = (u.loaded \cap {Kernel}) \cup Comes(w.wrote, w.unit, w.bin)
    BY <1>1, <1>2, <1>7, TrojanIs
  <2>2. VpsFits(w)
    BY <1>1, <2>1, ProtocolsApart DEF VpsFits, Comes
  <2>3. Fitting(w) /\ (Serving(u) => Serving(w))
    <3>1. ~Mix(w) => w.wrote = {Trojan} /\ w.unit = {Trojan}
      BY <1>1, <2>1, ProtocolsApart DEF Mix, VpsFits
    <3>2. Comes(w.wrote, w.unit, w.bin) \subseteq w.wrote
      BY DEF Comes
    <3>3. w.bin \notin Rejecting /\ ~Mix(w) => w.wrote \subseteq w.loaded
      BY <2>1, <3>1 DEF Comes
    <3>4. Serving(u) => w.bin \notin Rejecting
      BY <1>4, <2>1 DEF Serving
    <3>. QED
      BY <2>1, <3>1, <3>2, <3>3, <3>4 DEF Fitting, Serving
  <2>. QED
    BY <1>1, <1>3, <2>1, <2>2, <2>3 DEF u, w
<1>. QED
  BY <1>5, <1>6, <1>7, ProtocolsApart

(* A marker and a line of its own protocol at the end of the output. *)
LEMMA PrintedMore ==
    ASSUME NEW ls, NEW ident, Printed(ls, ident), NEW p \in Protocols, NEW l \in OutLines, l.proto = p,
           l.is = "config" => l.secret = ident[p] /\ l.secret # 0
    PROVE  Printed(ls \o <<OutLine("mark", p, 0), l>>, ident)
<1>. DEFINE m == OutLine("mark", p, 0)
            fresh == ls \o <<m, l>>
            n == Len(ls)
<1>1. m \in OutLines /\ m.is = "mark" /\ m.proto = p
  BY DEF OutLine, OutLines
<1>2. ls \in Seq(OutLines) /\ n \in Nat
  BY DEF Printed
<1>. HIDE DEF m
<1>3. fresh \in Seq(OutLines) /\ Len(fresh) = n + 2
  BY <1>1, <1>2
<1>4. fresh[n + 1] = m /\ fresh[n + 2] = l /\ \A i \in 1 .. n : fresh[i] = ls[i]
  BY <1>1, <1>2
<1>. HIDE DEF fresh
<1>5. ASSUME NEW i \in 1 .. Len(fresh), fresh[i].is = "config"
      PROVE  /\ fresh[i].secret = ident[fresh[i].proto] /\ fresh[i].secret # 0
             /\ i > 1 /\ fresh[i - 1].is = "mark" /\ fresh[i - 1].proto = fresh[i].proto
  <2>1. CASE i \in 1 .. n
    <3>1. /\ ls[i].secret = ident[ls[i].proto] /\ ls[i].secret # 0
          /\ i > 1 /\ ls[i - 1].is = "mark" /\ ls[i - 1].proto = ls[i].proto
      BY <1>4, <1>5, <2>1 DEF Printed
    <3>2. i - 1 \in 1 .. n
      BY <1>2, <2>1, <3>1
    <3>. QED
      BY <1>4, <2>1, <3>1, <3>2
  <2>2. CASE i = n + 1
    BY <1>1, <1>4, <1>5, <2>2
  <2>3. CASE i = n + 2
    <3>1. i > 1 /\ i - 1 = n + 1
      BY <1>2, <2>3
    <3>. QED
      BY <1>1, <1>4, <1>5, <2>3, <3>1
  <2>. QED
    BY <1>2, <1>3, <1>5, <2>1, <2>2, <2>3
<1>. QED
  BY <1>3, <1>5 DEF Printed, fresh, m

(* Among jobs that do not spoil each other, one that works is alone. *)
LEMMA Unspoiled ==
    ASSUME WorkInv, ~spoiled, NEW j \in JobIds, Busy(job[j]), NEW i \in JobIds, i # j
    PROVE  ~Busy(job[i]) /\ job[i].pc # "restart"
  BY DEF WorkInv, KeepsServing, Busy

(* One install fragment: its credential is kept and printed behind its marker. *)
LEMMA InstallFits == ASSUME JobsInv, WorkInv, NEW j \in JobIds, Install(j) PROVE WorkInv'
<1>. DEFINE ps == job[j].arg
            p == Head(ps)
            tl == Tail(ps)
            npc == IF tl = <<>> THEN "import" ELSE "install"
            s == Persist(vps, p).ident[p]
            w == Fragment(vps, p)
<1>1. /\ job[j].pc = "install" /\ JobShape(job[j]) /\ ps \in Seq(Protocols) /\ ps # <<>> /\ VpsShape(vps) /\ VpsFits(vps)
      /\ Fitting(vps)
  BY JobIsOK DEF Install, JobOK, JobsInv, WorkInv, KeepsServing
<1>2. p \in Protocols /\ Busy(job[j])
  BY <1>1 DEF Busy
<1>3. /\ VpsFits(w) /\ Kept(vps.ident, w.ident) /\ w.ident[p] = s /\ s # 0
      /\ w.bak = vps.bak /\ Fitting(w) /\ (Serving(vps) => Serving(w))
  BY <1>1, <1>2, FragmentServes
<1>4. srv' = srv /\ conns' = conns /\ spoiled' = spoiled
  BY DEF Install
<1>5. jobFaults' \in Nat
  BY FaultOK DEF Install
<1>6. JobFits(job[j], vps.ident, conns)
  BY JobFitsNow
<1>7. s \in Nat
  BY <1>2, <1>3 DEF VpsFits
<1>. HIDE DEF w, s
<1>8. ASSUME NEW l \in OutLines, l.proto = p, l.is = "config" => l.secret = s, vps' = w,
             job' = [job EXCEPT ![j].arg = tl, ![j].out = @ \o <<OutLine("mark", p, 0), l>>, ![j].pc = npc]
      PROVE  WorkInv'
  <2>. DEFINE fresh == job[j].out \o <<OutLine("mark", p, 0), l>>
              y == [job[j] EXCEPT !.arg = tl, !.out = fresh, !.pc = npc]
  <2>1. job' = [job EXCEPT ![j] = y]
    BY <1>8 DEF JobsInv, AllJobsOK
  <2>2. /\ y.pc = npc /\ y.out = fresh /\ y.added = job[j].added /\ y.read = job[j].read
        /\ y.kind = job[j].kind /\ y.done = job[j].done
    BY <1>1 DEF JobShape
  <2>3. JobFits(job[j], w.ident, conns)
    BY <1>3, <1>6, FitsStill
  <2>4. Printed(fresh, w.ident)
    <3>1. Printed(job[j].out, w.ident)
      BY <1>1, <2>3 DEF JobFits
    <3>2. l.is = "config" => l.secret = w.ident[p] /\ l.secret # 0
      BY <1>3, <1>8
    <3>. QED
      BY <1>2, <1>8, <3>1, <3>2, PrintedMore
  <2>. HIDE DEF y, fresh
  <2>5. y.pc \in {"import", "install"}
    BY <2>2
  <2>6. JobFits(y, w.ident, conns)
    BY <1>1, <2>2, <2>3, <2>4, <2>5 DEF JobFits, Busy
  <2>7. /\ \A i \in JobIds : JobFits(job'[i], vps'.ident, conns')
        /\ \A i \in JobIds : job'[i] = IF i = j THEN y ELSE job[i]
    BY <1>3, <1>4, <1>8, <2>1, <2>6, OneWorks
  <2>8. \A c \in conns' : Works(c, vps'.ident)
    BY <1>3, <1>4, <1>8, WorksStill DEF WorkInv
  <2>9. KeepsServing(vps', spoiled', job')
    <3>1. KeepsServing(vps, spoiled, job)
      BY DEF WorkInv
    <3>2. ~spoiled => \A i \in JobIds : job[i].pc # "restart"
      BY <1>1, <1>2, Unspoiled
    <3>3. ~spoiled => Serving(vps')
      BY <1>3, <1>8, <3>1, <3>2 DEF KeepsServing
    <3>4. ~spoiled => \A i, k \in JobIds : Busy(job'[i]) /\ Busy(job'[k]) => i = k
      BY <1>2, <2>7, <3>1 DEF KeepsServing
    <3>5. ~spoiled => \A i \in JobIds : job'[i].pc # "restart"
      BY <2>5, <2>7, <3>2
    <3>. QED
      BY <1>3, <1>4, <1>8, <3>3, <3>4, <3>5 DEF KeepsServing
  <2>10. spoiled' \in BOOLEAN /\ srv' \in ServerRecords /\ Listed(srv'.installed, conns')
    BY <1>4 DEF WorkInv
  <2>. QED
    BY <1>3, <1>5, <1>8, <2>7, <2>8, <2>9, <2>10 DEF WorkInv
<1>9. CASE Goto(j, "import") /\ vps' \in {vps, Persist(vps, p)}
  <2>1. VpsFits(vps') /\ Kept(vps.ident, vps'.ident) /\ SameService(vps, vps')
    BY <1>1, <1>2, <1>9, PersistIs, Still
  <2>. QED
    BY <1>1, <1>2, <1>4, <1>5, <1>9, <2>1, GotoWork
<1>10. CASE /\ vps' = w
            /\ job' = [job EXCEPT ![j].arg = tl, ![j].out = @ \o <<OutLine("mark", p, 0), OutLine("config", p, s)>>, ![j].pc = npc]
  <2>1. OutLine("config", p, s) \in OutLines /\ OutLine("config", p, s).proto = p /\ OutLine("config", p, s).secret = s
    BY <1>2, <1>7 DEF OutLine, OutLines
  <2>. QED
    BY <1>8, <1>10, <2>1
<1>11. CASE /\ vps' = w
            /\ job' = [job EXCEPT ![j].arg = tl, ![j].out = @ \o <<OutLine("mark", p, 0), OutLine("garbled", p, 0)>>, ![j].pc = npc]
  <2>1. /\ OutLine("garbled", p, 0) \in OutLines /\ OutLine("garbled", p, 0).proto = p
        /\ OutLine("garbled", p, 0).is # "config"
    BY <1>2 DEF OutLine, OutLines
  <2>. QED
    BY <1>8, <1>11, <2>1
<1>. QED
  BY <1>9, <1>10, <1>11 DEF Install, w, s

(* Keys and passwords are nothing to the service. *)
LEMMA DoorFits ==
    ASSUME JobsInv, WorkInv, NEW j \in JobIds, runHardenKeys(j) \/ Lockdown(j)
    PROVE  WorkInv'
<1>1. VpsShape(vps) /\ VpsFits(vps) /\ srv \in ServerRecords /\ Listed(srv.installed, conns)
  BY DEF JobsInv, WorkInv
<1>2. ASSUME NEW v, v.ident = vps.ident, v.made = vps.made, SameService(vps, v)
      PROVE  VpsFits(v) /\ Kept(vps.ident, v.ident) /\ SameService(vps, v)
  BY <1>1, <1>2 DEF VpsFits, Kept, SameService
<1>3. CASE runHardenKeys(j)
  <2>1. vps' = [vps EXCEPT !.keys = @ \cup {j}]
    BY <1>3 DEF runHardenKeys
  <2>2. vps'.ident = vps.ident /\ vps'.made = vps.made /\ SameService(vps, vps')
    BY <1>1, <2>1 DEF VpsShape, SameService
  <2>3. VpsFits(vps') /\ Kept(vps.ident, vps'.ident) /\ SameService(vps, vps')
    BY <1>2, <2>2
  <2>4. job[j].pc = "keys" /\ Busy(job[j]) /\ \E ok \in BOOLEAN : Finish(j, ok)
    BY <1>3 DEF runHardenKeys, Busy
  <2>5. srv' = srv /\ conns' = conns /\ spoiled' = spoiled
    BY <1>3 DEF runHardenKeys
  <2>6. jobFaults' \in Nat
    BY <1>3, FaultOK DEF runHardenKeys
  <2>. QED
    BY <1>1, <2>3, <2>4, <2>5, <2>6, FinishWork
<1>4. CASE Lockdown(j)
  <2>. DEFINE h == HardenLockdownScript(vps)
              g == [h EXCEPT !.live = vps.live]
  <2>1. /\ vps' \in {vps, h, g}
        /\ Finish(j, FALSE) \/ Goto(j, "mark")
    BY <1>4 DEF Lockdown
  <2>2. VpsShape(h) /\ h.ident = vps.ident /\ h.made = vps.made /\ SameService(vps, h)
    BY <1>1 DEF HardenLockdownScript, VpsShape, SameService
  <2>. HIDE DEF h
  <2>3. g.ident = vps.ident /\ g.made = vps.made /\ SameService(vps, g)
    BY <2>2 DEF VpsShape, SameService
  <2>. HIDE DEF g
  <2>4. VpsFits(vps') /\ Kept(vps.ident, vps'.ident) /\ SameService(vps, vps')
    BY <1>2, <2>1, <2>2, <2>3, Still
  <2>5. job[j].pc = "lockdown" /\ Busy(job[j]) /\ srv' = srv /\ conns' = conns /\ spoiled' = spoiled
    BY <1>4 DEF Lockdown, Busy
  <2>6. jobFaults' \in Nat
    BY <1>4, FaultOK DEF Lockdown
  <2>7. CASE Finish(j, FALSE)
    BY <1>1, <2>4, <2>5, <2>6, <2>7, FinishWork
  <2>8. CASE Goto(j, "mark")
    BY <1>1, <2>4, <2>5, <2>6, <2>8, GotoWork
  <2>. QED
    BY <2>1, <2>7, <2>8
<1>. QED
  BY <1>3, <1>4

(* A step of one job that changes the service: what is left to show. *)
LEMMA WorkServes ==
    ASSUME JobsInv, WorkInv, NEW j \in JobIds, NEW y, job' = [job EXCEPT ![j] = y], Busy(job[j]),
           JobFits(y, vps.ident, conns), vps'.ident = vps.ident, VpsFits(vps'), conns' = conns, srv' = srv,
           jobFaults' \in Nat, spoiled' \in BOOLEAN, Fitting(vps'), ~spoiled' => ~spoiled,
           ~spoiled' /\ y.pc = "restart" => vps'.bak # 0 /\ vps'.bak \notin Rejecting,
           ~spoiled' /\ y.pc # "restart" => Serving(vps')
    PROVE  WorkInv'
<1>1. Kept(vps.ident, vps'.ident)
  BY DEF Kept
<1>2. /\ \A i \in JobIds : JobFits(job'[i], vps'.ident, conns')
      /\ \A i \in JobIds : job'[i] = IF i = j THEN y ELSE job[i]
  BY <1>1, OneWorks
<1>3. KeepsServing(vps', spoiled', job')
  <2>1. ~spoiled' => \A i \in JobIds : i # j => ~Busy(job[i]) /\ job[i].pc # "restart"
    BY Unspoiled
  <2>. QED
    BY <1>2, <2>1 DEF KeepsServing
<1>4. (\A c \in conns' : Works(c, vps'.ident)) /\ srv' \in ServerRecords /\ Listed(srv'.installed, conns')
  BY DEF WorkInv
<1>. QED
  BY <1>2, <1>3, <1>4 DEF WorkInv

(* Replacing the release, and the restart that keeps it or rolls it back.   *)
LEMMA UpdateFits ==
    ASSUME JobsInv, WorkInv, NEW j \in JobIds, UpdateSingBoxScript(j) \/ runUpdateServerBinary(j)
    PROVE  WorkInv'
<1>0. /\ VpsShape(vps) /\ VpsFits(vps) /\ Fitting(vps) /\ KeepsServing(vps, spoiled, job)
      /\ jobFaults \in Nat /\ spoiled \in BOOLEAN
      /\ JobFits(job[j], vps.ident, conns) /\ JobShape(job[j])
  BY JobFitsNow, JobIsOK DEF JobsInv, WorkInv, KeepsServing
<1>1. CASE UpdateSingBoxScript(j)
  <2>. DEFINE y == [job[j] EXCEPT !.pc = "restart"]
              ver == Head(job[j].arg)
  <2>1. job' = [job EXCEPT ![j] = y] /\ job[j].pc = "fetch" /\ Busy(job[j])
    BY <1>1 DEF UpdateSingBoxScript, Goto, Busy
  <2>2. /\ y.pc = "restart" /\ y.added = job[j].added /\ y.read = job[j].read
        /\ y.kind = job[j].kind /\ y.done = job[j].done
    BY <1>0 DEF JobShape
  <2>. HIDE DEF y
  <2>3. JobFits(y, vps.ident, conns)
    BY <1>0, <2>1, <2>2 DEF JobFits
  <2>4. /\ spoiled' = (spoiled \/ vps.bin = 0 \/ jobFaults' # jobFaults)
        /\ conns' = conns /\ srv' = srv
    BY <1>1 DEF UpdateSingBoxScript
  <2>5. jobFaults' \in Nat
    BY <1>1, FaultOK DEF UpdateSingBoxScript
  <2>6. \/ vps' = [vps EXCEPT !.bak = IF vps.bin = 0 THEN @ ELSE vps.bin, !.bin = ver] /\ NoFault
        \/ vps' = [vps EXCEPT !.bin = ver] /\ JobFault
    BY <1>1 DEF UpdateSingBoxScript
  <2>. HIDE DEF ver
  <2>7. /\ vps'.ident = vps.ident /\ vps'.made = vps.made /\ vps'.wrote = vps.wrote /\ vps'.unit = vps.unit
        /\ vps'.loaded = vps.loaded
    BY <1>0, <2>6 DEF VpsShape
  <2>8. VpsFits(vps') /\ Fitting(vps')
    BY <1>0, <2>7 DEF VpsFits, Fitting, Mix
  <2>9. ASSUME ~spoiled'
        PROVE  ~spoiled /\ vps'.bak # 0 /\ vps'.bak \notin Rejecting
    <3>1. ~spoiled /\ vps.bin # 0 /\ jobFaults' = jobFaults
      BY <2>4, <2>9
    <3>2. ~JobFault
      BY <1>0, <3>1 DEF JobFault
    <3>3. vps'.bak = vps.bin
      BY <1>0, <2>6, <3>1, <3>2 DEF VpsShape
    <3>4. \A i \in JobIds : job[i].pc # "restart"
      BY <2>1, <3>1, Unspoiled
    <3>5. vps.bin \notin Rejecting
      BY <1>0, <3>1, <3>4 DEF KeepsServing, Serving
    <3>. QED
      BY <3>1, <3>3, <3>5
  <2>10. spoiled' \in BOOLEAN
    BY <2>4
  <2>. QED
    BY <2>1, <2>2, <2>3, <2>4, <2>5, <2>7, <2>8, <2>9, <2>10, WorkServes
<1>2. CASE runUpdateServerBinary(j)
  <2>0. PICK ok \in BOOLEAN : Finish(j, ok)
    BY <1>2 DEF runUpdateServerBinary
  <2>. DEFINE y == [job[j] EXCEPT !.pc = "end", !.done = TRUE, !.ok = ok]
              r == Restarted(vps)
              b == RolledBack(vps)
  <2>1. job[j].pc = "restart" /\ Busy(job[j])
    BY <1>2 DEF runUpdateServerBinary, Busy
  <2>2. job' = [job EXCEPT ![j] = y]
    BY <1>0, <2>0, <2>1 DEF Finish, JobFits
  <2>3. y.pc = "end" /\ y.added = job[j].added /\ y.read = job[j].read
    BY <1>0 DEF JobShape
  <2>. HIDE DEF y
  <2>4. JobFits(y, vps.ident, conns)
    BY <1>0, <2>3 DEF JobFits, Busy
  <2>5. spoiled' = (spoiled \/ jobFaults' # jobFaults) /\ conns' = conns /\ srv' = srv
    BY <1>2 DEF runUpdateServerBinary
  <2>6. jobFaults' \in Nat /\ spoiled' \in BOOLEAN
    BY <1>2, <2>5, FaultOK DEF runUpdateServerBinary
  <2>7. /\ r.ident = vps.ident /\ VpsFits(r) /\ Fitting(r) /\ (vps.bin \notin Rejecting => Serving(r))
    BY <1>0, RestartedIs
  <2>8. /\ VpsShape(b) /\ VpsFits(b) /\ b.ident = vps.ident /\ Fitting(b)
        /\ vps.bak # 0 => b.bin = vps.bak
    <3>1. /\ VpsShape(b) /\ b.ident = vps.ident /\ b.made = vps.made /\ b.wrote = vps.wrote /\ b.unit = vps.unit
          /\ b.loaded = vps.loaded /\ (vps.bak # 0 => b.bin = vps.bak)
      BY <1>0 DEF RolledBack, VpsShape
    <3>. HIDE DEF b
    <3>. QED
      BY <1>0, <3>1 DEF VpsFits, Fitting, Mix
  <2>9. /\ Restarted(b).ident = vps.ident /\ VpsFits(Restarted(b)) /\ Fitting(Restarted(b))
        /\ vps.bak # 0 /\ vps.bak \notin Rejecting => Serving(Restarted(b))
    <3>. HIDE DEF b
    <3>. QED
      BY <2>8, RestartedIs
  <2>10. \/ NoFault /\ vps.bin \in Rejecting /\ vps' = Restarted(b)
         \/ NoFault /\ vps.bin \notin Rejecting /\ vps' = r
         \/ JobFault /\ vps' \in {vps, r}
    BY <1>2 DEF runUpdateServerBinary
  <2>. HIDE DEF r, b
  <2>11. VpsFits(vps') /\ vps'.ident = vps.ident /\ Fitting(vps')
    BY <1>0, <2>7, <2>9, <2>10
  <2>12. ASSUME ~spoiled'
         PROVE  ~spoiled /\ Serving(vps')
    <3>1. ~spoiled /\ jobFaults' = jobFaults
      BY <2>5, <2>12
    <3>2. ~JobFault
      BY <1>0, <3>1 DEF JobFault
    <3>3. vps.bak # 0 /\ vps.bak \notin Rejecting
      BY <1>0, <2>1, <3>1 DEF KeepsServing
    <3>. QED
      BY <2>7, <2>9, <2>10, <3>1, <3>2, <3>3
  <2>. QED
    BY <2>1, <2>2, <2>3, <2>4, <2>5, <2>6, <2>11, <2>12, WorkServes
<1>. QED
  BY <1>1, <1>2

(* JobManager.New *)
LEMMA NewFits ==
    ASSUME JobsInv, WorkInv, NEW kd, NEW pc, NEW arg, NEW auth, New(kd, pc, arg, auth), kd # "none",
           pc \in {"dial", "keys", "verify", "versions", "fetch"}
    PROVE  WorkInv'
<1>. DEFINE y == [NoJob EXCEPT !.kind = kd, !.pc = pc, !.arg = arg, !.auth = auth]
<1>1. PICK j \in JobIds : job[j] = NoJob /\ job' = [job EXCEPT ![j] = y]
  BY DEF New
<1>2. y.kind = kd /\ y.pc = pc /\ y.out = <<>> /\ y.added = {} /\ y.read = NoServer /\ y.done = FALSE
  BY DEF NoJob
<1>. HIDE DEF y
<1>3. vps' = vps /\ srv' = srv /\ conns' = conns /\ jobFaults' = jobFaults
  BY DEF New
<1>4. spoiled' = (spoiled \/ \E i \in JobIds : job[i] # NoJob /\ ~job[i].done)
  BY DEF New
<1>5. NoServer \in ServerRecords /\ NoServer.installed = {}
  BY DEF NoServer, ServerRecords
<1>6. Printed(<<>>, vps.ident)
  BY DEF Printed
<1>7. JobFits(y, vps.ident, conns)
  BY <1>2, <1>5, <1>6 DEF JobFits, Listed
<1>8. Kept(vps.ident, vps'.ident) /\ conns \subseteq conns' /\ JobFits(y, vps'.ident, conns')
  BY <1>3, <1>7 DEF Kept
<1>9. /\ \A i \in JobIds : JobFits(job'[i], vps'.ident, conns')
      /\ \A i \in JobIds : job'[i] = IF i = j THEN y ELSE job[i]
  BY <1>1, <1>8, OneWorks
<1>10. KeepsServing(vps', spoiled', job')
  <2>1. KeepsServing(vps, spoiled, job)
    BY DEF WorkInv
  <2>2. ASSUME ~spoiled'
        PROVE  ~spoiled /\ \A i \in JobIds : ~Busy(job[i])
    <3>1. ~spoiled /\ \A i \in JobIds : job[i] = NoJob \/ job[i].done
      BY <1>4, <2>2
    <3>2. NoJob.kind = "none"
      BY DEF NoJob
    <3>3. \A i \in JobIds : Busy(job[i]) => job[i].kind # "none" /\ ~job[i].done
      BY JobFitsNow DEF JobFits
    <3>. QED
      BY <3>1, <3>2, <3>3
  <2>3. \A i \in JobIds : job[i].pc = "restart" => Busy(job[i])
    BY DEF Busy
  <2>. QED
    BY <1>2, <1>3, <1>9, <2>1, <2>2, <2>3 DEF KeepsServing
<1>11. spoiled' \in BOOLEAN
  BY <1>4
<1>. QED
  BY <1>3, <1>9, <1>10, <1>11 DEF WorkInv, VpsFits

(* The requests: a new job starts beside what is there, the records are plain. *)
LEMMA RequestsFit == ASSUME JobsInv, WorkInv, Requests PROVE WorkInv'
<1>1. ASSUME NEW ps \in Orders, handleServerProvision(ps) PROVE WorkInv'
  BY <1>1, NewFits DEF handleServerProvision
<1>2. ASSUME NEW k \in mine \cup {NoKey}, handleServerHardenKeys(k) PROVE WorkInv'
  BY <1>2, NewFits DEF handleServerHardenKeys
<1>3. ASSUME NEW k \in mine \cup {NoKey}, handleServerCheckVersions(k) PROVE WorkInv'
  BY <1>3, NewFits DEF handleServerCheckVersions
<1>4. ASSUME NEW k \in mine \cup {NoKey}, NEW ver \in CoreVersions, handleServerUpdateBinary(ver, k) PROVE WorkInv'
  BY <1>4, NewFits DEF handleServerUpdateBinary
<1>5. ASSUME NEW k \in mine, handleServerLockdown(k) PROVE WorkInv'
  BY <1>5, NewFits DEF handleServerLockdown
<1>6. ASSUME handleServers \/ handleDeleteServer PROVE WorkInv'
  <2>1. vps' = vps /\ conns' = conns /\ job' = job /\ jobFaults' = jobFaults /\ spoiled' = spoiled
    BY <1>6 DEF handleServers, handleDeleteServer
  <2>2. srv' \in ServerRecords /\ srv'.installed = {}
    <3>1. \E b \in BOOLEAN : srv' = [saved |-> b, installed |-> {}, hardened |-> FALSE]
      <4>1. CASE handleServers
        <5>1. srv' = [saved |-> TRUE, installed |-> {}, hardened |-> FALSE]
          BY <4>1 DEF handleServers, NoServer
        <5>. QED
          BY <5>1
      <4>2. CASE handleDeleteServer
        <5>1. srv' = [saved |-> FALSE, installed |-> {}, hardened |-> FALSE]
          BY <4>2 DEF handleDeleteServer, NoServer
        <5>. QED
          BY <5>1
      <4>. QED
        BY <1>6, <4>1, <4>2
    <3>2. PICK b \in BOOLEAN : srv' = [saved |-> b, installed |-> {}, hardened |-> FALSE]
      BY <3>1
    <3>3. [saved |-> b, installed |-> {}, hardened |-> FALSE] \in ServerRecords
      BY DEF ServerRecords
    <3>4. [saved |-> b, installed |-> {}, hardened |-> FALSE].installed = {}
      OBVIOUS
    <3>. QED
      BY <3>2, <3>3, <3>4, Zenon
  <2>. QED
    BY <2>1, <2>2 DEF WorkInv, Listed, VpsFits, KeepsServing
<1>. QED
  BY <1>1, <1>2, <1>3, <1>4, <1>5, <1>6 DEF Requests

(* A restart of the daemon, a reboot of the machine, a poll of a job.       *)
LEMMA OutsideFits ==
    ASSUME JobsInv, WorkInv, DaemonRestart \/ VpsReboot \/ \E j \in JobIds : handleServerJob(j)
    PROVE  WorkInv'
<1>0. VpsShape(vps) /\ VpsFits(vps) /\ Fitting(vps) /\ KeepsServing(vps, spoiled, job)
  BY DEF JobsInv, WorkInv, KeepsServing
<1>1. CASE DaemonRestart
  <2>. DEFINE z == [NoJob EXCEPT !.kind = "lost", !.done = TRUE]
  <2>1. /\ vps' = vps /\ conns' = conns /\ srv' = srv /\ jobFaults' = jobFaults
        /\ job' = [j \in JobIds |-> IF job[j] = NoJob THEN NoJob ELSE z]
        /\ spoiled' = (spoiled \/ \E j \in JobIds : job[j].pc = "restart")
    BY <1>1 DEF DaemonRestart
  <2>2. z.pc = "none" /\ z.added = {} /\ z.read = NoServer /\ NoJob.pc = "none" /\ NoJob.added = {} /\ NoJob.read = NoServer
    BY DEF NoJob
  <2>. HIDE DEF z
  <2>3. NoServer \in ServerRecords /\ NoServer.installed = {}
    BY DEF NoServer, ServerRecords
  <2>4. JobFits(z, vps.ident, conns) /\ JobFits(NoJob, vps.ident, conns) /\ ~Busy(z) /\ ~Busy(NoJob)
    BY <2>2, <2>3 DEF JobFits, Listed, Busy
  <2>5. \A j \in JobIds : job'[j] \in {NoJob, z}
    BY <2>1
  <2>6. KeepsServing(vps', spoiled', job')
    <3>1. ~spoiled' => ~spoiled /\ Serving(vps)
      BY <1>0, <2>1 DEF KeepsServing
    <3>2. \A j \in JobIds : ~Busy(job'[j]) /\ job'[j].pc # "restart"
      BY <2>2, <2>4, <2>5
    <3>. QED
      BY <1>0, <2>1, <3>1, <3>2 DEF KeepsServing
  <2>7. spoiled' \in BOOLEAN /\ \A j \in JobIds : JobFits(job'[j], vps'.ident, conns')
    BY <2>1, <2>4, <2>5
  <2>. QED
    BY <2>1, <2>6, <2>7 DEF WorkInv, VpsFits
<1>2. CASE VpsReboot
  <2>. DEFINE r == Restarted(vps)
  <2>1. /\ vps' = [r EXCEPT !.live = vps.file] /\ conns' = conns /\ srv' = srv /\ job' = job
        /\ jobFaults' = jobFaults /\ spoiled' = spoiled
    BY <1>2 DEF VpsReboot
  <2>2. /\ VpsShape(r) /\ VpsFits(r) /\ r.ident = vps.ident /\ r.bak = vps.bak /\ Fitting(r)
        /\ vps.bin \notin Rejecting => Serving(r)
    BY <1>0, RestartedIs
  <2>. HIDE DEF r
  <2>3. SameService(r, vps') /\ vps'.ident = r.ident /\ vps'.made = r.made
    BY <2>1, <2>2 DEF VpsShape, SameService
  <2>4. VpsFits(vps') /\ Fitting(vps') /\ (vps.bin \notin Rejecting => Serving(vps')) /\ vps'.bak = vps.bak
    BY <2>2, <2>3, SameServes DEF VpsFits, SameService
  <2>5. KeepsServing(vps', spoiled', job')
    BY <1>0, <2>1, <2>4 DEF KeepsServing, Serving
  <2>6. vps'.ident = vps.ident
    BY <2>2, <2>3
  <2>. QED
    BY <2>1, <2>4, <2>5, <2>6 DEF WorkInv
<1>3. ASSUME NEW j \in JobIds, handleServerJob(j) PROVE WorkInv'
  <2>1. vps' = vps /\ job' = job /\ conns' = conns /\ srv' = srv /\ jobFaults' = jobFaults /\ spoiled' = spoiled
    BY <1>3 DEF handleServerJob
  <2>. QED
    BY <2>1 DEF WorkInv, VpsFits, KeepsServing
<1>. QED
  BY <1>1, <1>2, <1>3

(* The bare machine serves all that was installed on it: nothing.           *)
LEMMA WorkInitInv == JobInit => WorkInv
<1>. SUFFICES ASSUME JobInit PROVE WorkInv
  OBVIOUS
<1>1. /\ vps = BareVps /\ srv = NoServer /\ conns = {} /\ jobFaults = 0 /\ spoiled = FALSE
      /\ \A j \in JobIds : job[j] = NoJob
  BY DEF JobInit
<1>2. NoServer \in ServerRecords /\ NoServer.installed = {}
  BY DEF NoServer, ServerRecords
<1>3. NoJob.pc = "none" /\ NoJob.added = {} /\ NoJob.read = NoServer
  BY DEF NoJob
<1>4. JobFits(NoJob, vps.ident, conns) /\ ~Busy(NoJob)
  BY <1>2, <1>3 DEF JobFits, Listed, Busy
<1>5. VpsFits(vps) /\ Fitting(vps) /\ Serving(vps)
  <2>1. /\ BareVps.ident = [p \in Protocols |-> 0] /\ BareVps.made = 0 /\ BareVps.wrote = {} /\ BareVps.loaded = {}
        /\ BareVps.unit = {} /\ BareVps.bin = 0
    BY DEF BareVps
  <2>2. 0 \notin Rejecting
    BY JobsAssumption
  <2>. QED
    BY <1>1, <2>1, <2>2 DEF VpsFits, Fitting, Serving
<1>6. KeepsServing(vps, spoiled, job)
  BY <1>1, <1>3, <1>4, <1>5 DEF KeepsServing
<1>. QED
  BY <1>1, <1>2, <1>4, <1>5, <1>6 DEF WorkInv, Listed

(* Every step keeps WorkInv.                                                *)
LEMMA WorkStep == JobsInv /\ WorkInv /\ [JobNext]_jobVars => WorkInv'
<1>. SUFFICES ASSUME JobsInv, WorkInv, [JobNext]_jobVars PROVE WorkInv'
  OBVIOUS
<1>1. ASSUME NEW j \in JobIds, Work(j) PROVE WorkInv'
  BY <1>1, QuietFits, InstallFits, DoorFits, UpdateFits DEF Work
<1>2. CASE UNCHANGED jobVars
  BY <1>2 DEF jobVars, WorkInv, VpsFits, KeepsServing
<1>. QED
  BY <1>1, <1>2, RequestsFit, OutsideFits DEF JobNext

(* ConnectionsWork, for any number of jobs, faults and restarts, any orders *)
(* and releases: a connection that was added keeps its label and its        *)
(* credential (persistIdentity, ExtractTagged), the record claims nothing   *)
(* that has none, and the machine serves what was installed on it           *)
(* (UpdateSingBoxScript and its rollback).                                  *)
THEOREM ClientsKeepWorking == JobSpec => []ConnectionsWork
<1>1. WorkInv => ConnectionsWork
  <2>. SUFFICES ASSUME WorkInv PROVE ConnectionsWork
    OBVIOUS
  <2>1. \A c \in conns : c.label = c.proto /\ c.secret = vps.ident[c.proto]
    BY DEF WorkInv, Works
  <2>2. \A p \in srv.installed : \E c \in conns : c.label = p
    BY DEF WorkInv, Listed
  <2>3. ~spoiled /\ ~Mixed /\ (\A j \in JobIds : job[j].pc \notin {"install", "restart"}) => vps.wrote \subseteq vps.loaded
    BY DEF WorkInv, KeepsServing, Serving, Mix, Mixed
  <2>. QED
    BY <2>1, <2>2, <2>3 DEF ConnectionsWork
<1>2. JobInit => JobsInv /\ WorkInv
  BY JobsInitInv, WorkInitInv
<1>3. JobsInv /\ WorkInv /\ [JobNext]_jobVars => (JobsInv /\ WorkInv)'
  BY JobsStep, WorkStep
<1>. QED
  BY <1>1, <1>2, <1>3, PTL DEF JobSpec
=============================================================================
