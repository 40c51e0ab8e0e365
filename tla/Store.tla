------------------------------- MODULE Store -------------------------------
(***************************************************************************)
(* internal/store, with the config writer and the backup restore that sit   *)
(* on top of it: the profile (endpoints, groups, rules, routing lists) in   *)
(* memory and on disk.  Each store method runs under Store.mu and is one    *)
(* action; handleBackupRestore takes the profile, the servers and the       *)
(* config in three separately locked steps.                                 *)
(*                                                                          *)
(* Of an endpoint only its presence and Enabled are kept, of a rule its     *)
(* outbound, of a routing list its outbound and download_via.  Member lists *)
(* are sets: their order does not matter here, and duplicates vanish        *)
(* together (removeString).  atomicfile.Write is one step that succeeds or  *)
(* leaves the file alone.                                                   *)
(***************************************************************************)
EXTENDS Naturals

CONSTANTS
    Eps, Grs, Rus, Lis,  \* ids of endpoints, groups, rules, routing lists
    Direct,              \* the builtin outbound
    None,
    MemberSets, RuleOuts, ListVals,  \* what the user may write
    Bundles,             \* backup bundles: a profile and a routing mode
    Modes, BadMode,      \* valid routing modes, and an unknown one
    MaxFaults            \* bound: failed writes

Ids == Eps \cup Grs \cup {Direct}
Profiles ==
    [ep : [Eps -> {"none", "on", "off"}],
     gr : [Grs -> {None} \cup SUBSET Ids],
     ru : [Rus -> {None} \cup Ids],
     li : [Lis -> {None} \cup [out : Ids, via : {None} \cup Ids]]]

ASSUME StoreAssumption ==
    /\ None \notin Ids /\ (\A S \in SUBSET Ids : S # None) /\ BadMode \notin Modes
    /\ MemberSets \subseteq SUBSET Ids /\ RuleOuts \subseteq Ids
    /\ ListVals \subseteq [out : Ids, via : {None} \cup Ids]
    /\ Bundles \subseteq [prof : Profiles, mode : Modes \cup {BadMode}]
    /\ MaxFaults \in Nat

VARIABLES
    prof, disk,     \* Store.prof and the file
    mode, modeDisk, \* the routing mode, live and in config.json
    rs,             \* the handleBackupRestore in progress
    faults

cfgVars == <<mode, modeDisk>>
vars == <<prof, disk, cfgVars, rs, faults>>

Empty == [ep |-> [e \in Eps |-> "none"], gr |-> [g \in Grs |-> None],
          ru |-> [r \in Rus |-> None],   li |-> [l \in Lis |-> None]]
NoRestore == [pc |-> "idle", mode |-> None]

Init ==
    /\ prof = Empty /\ disk = Empty
    /\ mode \in Modes /\ modeDisk = mode
    /\ rs = NoRestore
    /\ faults = 0

Fault == faults < MaxFaults /\ faults' = faults + 1
-----------------------------------------------------------------------------
(* Profile.Validate, on the parts kept here. *)
Usable(p, t) == \/ t = Direct
                \/ t \in Eps /\ p.ep[t] = "on"
                \/ t \in Grs /\ p.gr[t] # None
Groups(p)  == {g \in Grs : p.gr[g] # None}
Acyclic(p) == \A S \in SUBSET Groups(p) : S # {} => \E g \in S : p.gr[g] \cap S = {}

Valid(p) ==
    /\ \A g \in Groups(p) : p.gr[g] # {} /\ \A t \in p.gr[g] : Usable(p, t)
    /\ Acyclic(p)
    /\ \A r \in Rus : p.ru[r] # None => Usable(p, p.ru[r])
    /\ \A l \in Lis : p.li[l] # None =>
          /\ Usable(p, p.li[l].out)
          /\ p.li[l].via # None => Usable(p, p.li[l].via)

(* commitLocked: the mutated profile is saved, or memory goes back. *)
Undone_Not(p) == p
Undone(p) == prof

Commit(p) ==
    \/ prof' = p /\ disk' = p /\ UNCHANGED faults
    \/ prof' = Undone(p) /\ UNCHANGED disk /\ Fault

rest == <<cfgVars, rs>>

UpsertEndpoint(e, s) == Commit([prof EXCEPT !.ep[e] = s]) /\ UNCHANGED rest
UpsertGroup(g, ms)   == Commit([prof EXCEPT !.gr[g] = ms]) /\ UNCHANGED rest
UpsertRule(r, t)     == Commit([prof EXCEPT !.ru[r] = t]) /\ UNCHANGED rest
UpsertRoutingList(l, v) == Commit([prof EXCEPT !.li[l] = v]) /\ UNCHANGED rest

(* The refusals of DeleteEndpoint and DeleteGroup ... *)
OnlyMember(g, id) == prof.gr[g] = {id}

InUse_RulesOnly(id) == \E r \in Rus : prof.ru[r] = id
InUse(id) ==
    \/ \E r \in Rus : prof.ru[r] = id
    \/ \E g \in Groups(prof) \ {id} : OnlyMember(g, id)
    \/ \E l \in Lis : prof.li[l] # None /\ id \in {prof.li[l].out, prof.li[l].via}

(* ... and the pruning that follows. *)
Pruned(gr, id) == [g \in Grs |-> IF gr[g] = None THEN None ELSE gr[g] \ {id}]

DeleteEndpoint(e) ==
    /\ ~InUse(e) /\ prof.ep[e] # "none"
    /\ Commit([prof EXCEPT !.ep[e] = "none", !.gr = Pruned(@, e)])
    /\ UNCHANGED rest

DeleteGroup(g) ==
    /\ ~InUse(g) /\ prof.gr[g] # None
    /\ Commit([prof EXCEPT !.gr = Pruned([@ EXCEPT ![g] = None], g)])
    /\ UNCHANGED rest

DeleteRule(r) ==
    /\ prof.ru[r] # None
    /\ Commit([prof EXCEPT !.ru[r] = None])
    /\ UNCHANGED rest

DeleteRoutingList(l) ==
    /\ prof.li[l] # None
    /\ Commit([prof EXCEPT !.li[l] = None])
    /\ UNCHANGED rest

(* Replace, called by POST /api/profile. *)
Replace(b) ==
    /\ Valid(b.prof)
    /\ Commit(b.prof)
    /\ UNCHANGED rest
-----------------------------------------------------------------------------
(* persistConfig rolls the live config back when Save fails. *)
PersistConfig(m) ==
    /\ \/ mode' = m /\ modeDisk' = m /\ UNCHANGED faults
       \/ UNCHANGED cfgVars /\ Fault
    /\ UNCHANGED <<prof, disk, rs>>

(* handleBackupRestore: profile, then servers, then config.  (The records  *)
(* of the saved-server registry are not kept here: upserting them either   *)
(* goes through or ends the restore half-way.)                             *)
Rejects(b) == ~Valid(b.prof)

RestoreProfile(b) ==
    /\ rs.pc = "idle"
    /\ ~Rejects(b)
    /\ \/ /\ prof' = b.prof /\ disk' = b.prof
          /\ rs' = [pc |-> "servers", mode |-> b.mode]
          /\ UNCHANGED faults
       \/ UNCHANGED <<prof, disk, rs>> /\ Fault
    /\ UNCHANGED cfgVars

RestoreServers ==
    /\ rs.pc = "servers"
    /\ \/ rs' = [rs EXCEPT !.pc = "config"] /\ UNCHANGED faults
       \/ rs' = NoRestore /\ Fault
    /\ UNCHANGED <<prof, disk, cfgVars>>

(* restoreConfig: an unknown mode is refused; a failed Save is not undone. *)
ModeOK(m) == m \in Modes

RestoreConfig ==
    /\ rs.pc = "config"
    /\ \/ ~ModeOK(rs.mode) /\ UNCHANGED <<cfgVars, faults>>
       \/ ModeOK(rs.mode) /\ mode' = rs.mode /\ modeDisk' = rs.mode /\ UNCHANGED faults
       \/ ModeOK(rs.mode) /\ mode' = rs.mode /\ UNCHANGED modeDisk /\ Fault
    /\ rs' = NoRestore
    /\ UNCHANGED <<prof, disk>>

(* The daemon restarts: memory is read back from disk (Open, config.Load). *)
Restart ==
    /\ prof' = disk /\ mode' = modeDisk /\ rs' = NoRestore
    /\ UNCHANGED <<disk, modeDisk, faults>>

Delete ==
    \/ \E e \in Eps : DeleteEndpoint(e)
    \/ \E g \in Grs : DeleteGroup(g)
    \/ \E r \in Rus : DeleteRule(r)
    \/ \E l \in Lis : DeleteRoutingList(l)

Next ==
    \/ \E e \in Eps, s \in {"on", "off"} : UpsertEndpoint(e, s)
    \/ \E g \in Grs, ms \in MemberSets : UpsertGroup(g, ms)
    \/ \E r \in Rus, t \in RuleOuts : UpsertRule(r, t)
    \/ \E l \in Lis, v \in ListVals : UpsertRoutingList(l, v)
    \/ Delete
    \/ \E b \in Bundles : Replace(b) \/ RestoreProfile(b)
    \/ RestoreServers \/ RestoreConfig
    \/ \E m \in Modes : PersistConfig(m)
    \/ Restart

Spec == Init /\ [][Next]_vars
-----------------------------------------------------------------------------
TypeOK ==
    /\ prof \in Profiles /\ disk \in Profiles
    /\ \A x \in {mode, modeDisk} : x \in Modes
    /\ rs \in [pc : {"idle", "servers", "config"}, mode : Modes \cup {BadMode, None}]
    /\ faults \in 0..MaxFaults

(* "the in-memory profile never diverges from disk ... a phantom in-RAM     *)
(* change that feeds an Apply yet vanishes on reboot" (commitLocked).       *)
DiskAgrees == prof = disk

(* A step that makes an appliable profile unappliable. *)
Spoilt == prof' # prof /\ Valid(prof) /\ ~Valid(prof')

(* Deleting, replacing and restoring never turn an appliable profile into   *)
(* one that Validate rejects: "a dangling outbound fails Validate() and     *)
(* blocks every Apply" (DeleteEndpoint, DeleteGroup), "can never overwrite  *)
(* a good, working profile" (Replace, handleBackupRestore).                 *)
KeepsValid ==
    [][Spoilt => ~Delete /\ \A b \in Bundles : ~RestoreProfile(b) /\ ~Replace(b)]_vars
=============================================================================
