---------------------------- MODULE KernelPlane ----------------------------
(***************************************************************************)
(* The kernel policy-routing plane: the "velinx_pbr" nft table and the ip   *)
(* rules/routes, driven command by command by applyPBR, restorePBRBaseline, *)
(* handlePBRTeardown and the boot sync.  The kernel state outlives the      *)
(* daemon; pbrPlan is what the daemon believes is installed.                *)
(*                                                                          *)
(* A rule stands for an ip rule together with the route table it selects.   *)
(* The commands of one group are issued in any order.                       *)
(***************************************************************************)
EXTENDS Naturals, FiniteSets

CONSTANTS
    Plans,       \* compiled plans
    Rules,       \* every ip rule some plan uses
    RulesOf,     \* the rules of each plan (its egresses and the private excludes)
    Excludes,    \* the private-exclude rules, common to all plans
    None,
    MaxFaults,   \* bound: nft/ip commands that fail
    MaxFlushes,  \* bound: fw4 reloads that flush the nft table
    MaxRestarts  \* bound: daemon restarts

ASSUME KernelPlaneAssumption ==
    /\ None \notin Plans
    /\ RulesOf \in [Plans -> SUBSET Rules]
    /\ Excludes \subseteq Rules /\ \A p \in Plans : Excludes \subseteq RulesOf[p]
    /\ IsFiniteSet(Rules)
    /\ {MaxFaults, MaxFlushes, MaxRestarts} \subseteq Nat

Maybe == Plans \cup {None}
RulesIn(p) == IF p = None THEN {} ELSE RulesOf[p]

VARIABLES
    nft,          \* plan whose nft table is loaded
    rules,        \* ip rules present in the kernel
    pbrPlan, pbrBaseline,
    tx,           \* the command stream of the holder of pbrMu
    td,           \* the command stream of handlePBRTeardown, outside pbrMu
    bt,           \* the boot sync: undecided, tearing down, or done
    faults, flushes, restarts,
    crossed       \* history: a stream under pbrMu ran alongside one outside it

kernel == <<nft, rules>>
vars == <<kernel, pbrPlan, pbrBaseline, tx, td, bt, faults, flushes, restarts, crossed>>

NoTx == [pc |-> "idle", old |-> None, new |-> None, todo |-> {}]
Done == [pc |-> "done", todo |-> {}]
Boot == [pc |-> "start", todo |-> {}]

Init ==
    /\ nft = None /\ rules = {}
    /\ pbrPlan = None /\ pbrBaseline = None
    /\ tx = NoTx /\ td = Done /\ bt = Boot
    /\ faults = 0 /\ flushes = 0 /\ restarts = 0
    /\ crossed = FALSE

Fault == faults < MaxFaults /\ faults' = faults + 1
-----------------------------------------------------------------------------
(* applyPBR(new): an unchanged plan is skipped; otherwise the old plan is   *)
(* torn down, then the new one installed, all under pbrMu.                  *)
FirstPc_NoTeardown(new) == IF new # None THEN "load" ELSE "commit"
FirstPc(new) == IF pbrPlan # None THEN "delnft"
                ELSE IF new # None THEN "load" ELSE "commit"

(* A stream begins under pbrMu; handlePBRTeardown or the boot teardown may  *)
(* still be issuing commands outside it.                                    *)
Open(new) ==
    /\ tx' = [pc |-> FirstPc(new), old |-> pbrPlan, new |-> new, todo |-> {}]
    /\ crossed' = (crossed \/ td.pc # "done" \/ bt.pc = "ip")

Install(new) ==
    /\ tx.pc = "idle"
    /\ IF new = pbrPlan THEN UNCHANGED <<tx, crossed>> ELSE Open(new)
    /\ UNCHANGED <<kernel, pbrPlan, pbrBaseline, td, faults, flushes, restarts>>

ApplyPBR(new) == Install(new) /\ UNCHANGED bt

(* SyncPlugins in hybrid/fast mode. *)
BootApply == bt.pc = "start" /\ (\E p \in Plans : Install(p)) /\ bt' = Done

(* restorePBRBaseline does not skip. *)
RestorePBRBaseline ==
    /\ tx.pc = "idle"
    /\ Open(pbrBaseline)
    /\ UNCHANGED <<kernel, pbrPlan, pbrBaseline, td, bt, faults, flushes, restarts>>

SnapshotPBRBaseline ==
    /\ tx.pc = "idle"
    /\ pbrBaseline' = pbrPlan
    /\ UNCHANGED <<kernel, pbrPlan, tx, td, bt, faults, flushes, restarts, crossed>>

(* Teardown of the old plan: nft delete, then the ip commands one by one.   *)
TxDelNft ==
    /\ tx.pc = "delnft"
    /\ nft' = None
    /\ tx' = [tx EXCEPT !.pc = "delip", !.todo = RulesIn(tx.old)]
    /\ UNCHANGED <<rules, pbrPlan, pbrBaseline, td, bt, faults, flushes, restarts, crossed>>

TxDelIp ==
    /\ tx.pc = "delip"
    /\ \/ \E r \in tx.todo : /\ rules' = rules \ {r}
                             /\ tx' = [tx EXCEPT !.todo = @ \ {r}]
       \/ /\ tx.todo = {}
          /\ tx' = [tx EXCEPT !.pc = IF tx.new # None THEN "load" ELSE "commit"]
          /\ UNCHANGED rules
    /\ UNCHANGED <<nft, pbrPlan, pbrBaseline, td, bt, faults, flushes, restarts, crossed>>

(* Plan.Apply: one self-flushing nft transaction, the plan's own stale      *)
(* rules removed, then each rule added; `ip rule add` of a present rule     *)
(* fails.                                                                   *)
OnError == "undonft"

TxLoad ==
    /\ tx.pc = "load"
    /\ \/ /\ nft' = tx.new
          /\ tx' = [tx EXCEPT !.pc = "clear", !.todo = RulesIn(tx.new)]
          /\ UNCHANGED faults
       \/ Fault /\ tx' = [tx EXCEPT !.pc = OnError] /\ UNCHANGED nft
    /\ UNCHANGED <<rules, pbrPlan, pbrBaseline, td, bt, flushes, restarts, crossed>>

TxClear ==
    /\ tx.pc = "clear"
    /\ \/ \E r \in tx.todo : /\ rules' = rules \ {r}
                             /\ tx' = [tx EXCEPT !.todo = @ \ {r}]
       \/ /\ tx.todo = {}
          /\ tx' = [tx EXCEPT !.pc = "add", !.todo = RulesIn(tx.new)]
          /\ UNCHANGED rules
    /\ UNCHANGED <<nft, pbrPlan, pbrBaseline, td, bt, faults, flushes, restarts, crossed>>

AddError(r) == [tx EXCEPT !.pc = OnError]

TxAdd ==
    /\ tx.pc = "add"
    /\ \/ \E r \in tx.todo \ rules : /\ rules' = rules \cup {r}
                                     /\ tx' = [tx EXCEPT !.todo = @ \ {r}]
                                     /\ UNCHANGED faults
       \/ \E r \in tx.todo : /\ Fault \/ (r \in rules /\ UNCHANGED faults)
                             /\ tx' = AddError(r)
                             /\ UNCHANGED rules
       \/ /\ tx.todo = {}
          /\ tx' = [tx EXCEPT !.pc = "commit"]
          /\ UNCHANGED <<rules, faults>>
    /\ UNCHANGED <<nft, pbrPlan, pbrBaseline, td, bt, flushes, restarts, crossed>>

(* The failed plan is torn back out (best-effort) and pbrPlan forgotten.    *)
TxUndoNft ==
    /\ tx.pc = "undonft"
    /\ nft' = None
    /\ tx' = [tx EXCEPT !.pc = "undoip", !.todo = RulesIn(tx.new)]
    /\ UNCHANGED <<rules, pbrPlan, pbrBaseline, td, bt, faults, flushes, restarts, crossed>>

TxUndoIp ==
    /\ tx.pc = "undoip"
    /\ \/ \E r \in tx.todo : /\ rules' = rules \ {r}
                             /\ tx' = [tx EXCEPT !.todo = @ \ {r}]
       \/ /\ tx.todo = {}
          /\ tx' = [tx EXCEPT !.pc = "fail"]
          /\ UNCHANGED rules
    /\ UNCHANGED <<nft, pbrPlan, pbrBaseline, td, bt, faults, flushes, restarts, crossed>>

TxFail ==
    /\ tx.pc = "fail"
    /\ pbrPlan' = None
    /\ tx' = NoTx
    /\ UNCHANGED <<kernel, pbrBaseline, td, bt, faults, flushes, restarts, crossed>>

TxCommit ==
    /\ tx.pc = "commit"
    /\ pbrPlan' = tx.new
    /\ tx' = NoTx
    /\ UNCHANGED <<kernel, pbrBaseline, td, bt, faults, flushes, restarts, crossed>>
-----------------------------------------------------------------------------
(* handlePBRTeardown takes the plan under pbrMu, then runs its commands     *)
(* after unlocking.                                                         *)
PBRTeardown ==
    /\ tx.pc = "idle" /\ td.pc = "done" /\ pbrPlan # None
    /\ td' = [pc |-> "nft", todo |-> RulesIn(pbrPlan)]
    /\ pbrPlan' = None
    /\ UNCHANGED <<kernel, pbrBaseline, tx, bt, faults, flushes, restarts, crossed>>

TdStep ==
    /\ \/ /\ td.pc = "nft"
          /\ nft' = None
          /\ td' = [td EXCEPT !.pc = "ip"]
          /\ UNCHANGED rules
       \/ /\ td.pc = "ip"
          /\ \E r \in td.todo : /\ rules' = rules \ {r}
                                /\ td' = [td EXCEPT !.todo = @ \ {r}]
          /\ UNCHANGED nft
       \/ /\ td.pc = "ip" /\ td.todo = {}
          /\ td' = Done
          /\ UNCHANGED kernel
    /\ UNCHANGED <<pbrPlan, pbrBaseline, tx, bt, faults, flushes, restarts, crossed>>

(* SyncPlugins in tun/mixed mode: an empty plan named "velinx_pbr" is torn  *)
(* down, outside pbrMu.                                                     *)
BootTeardown ==
    /\ \/ /\ bt.pc = "start"
          /\ nft' = None
          /\ bt' = [pc |-> "ip", todo |-> Excludes]
          /\ crossed' = (crossed \/ tx.pc # "idle" \/ pbrPlan # None)
          /\ UNCHANGED rules
       \/ /\ bt.pc = "ip"
          /\ \E r \in bt.todo : /\ rules' = rules \ {r}
                                /\ bt' = [bt EXCEPT !.todo = @ \ {r}]
          /\ UNCHANGED <<nft, crossed>>
       \/ /\ bt.pc = "ip" /\ bt.todo = {}
          /\ bt' = Done
          /\ UNCHANGED <<kernel, crossed>>
    /\ UNCHANGED <<pbrPlan, pbrBaseline, tx, td, faults, flushes, restarts>>

(* external: an fw4 reload flushes the nft table. *)
Flush ==
    /\ nft # None /\ flushes < MaxFlushes
    /\ nft' = None
    /\ flushes' = flushes + 1
    /\ UNCHANGED <<rules, pbrPlan, pbrBaseline, tx, td, bt, faults, restarts, crossed>>

(* The daemon restarts (upgrade, crash): the kernel keeps its state, main   *)
(* does not tear it down, and the new process starts from nil.              *)
Restart ==
    /\ restarts < MaxRestarts
    /\ restarts' = restarts + 1
    /\ pbrPlan' = None /\ pbrBaseline' = None
    /\ tx' = NoTx /\ td' = Done /\ bt' = Boot
    /\ UNCHANGED <<kernel, faults, flushes, crossed>>

Tx == TxDelNft \/ TxDelIp \/ TxLoad \/ TxClear \/ TxAdd \/ TxUndoNft \/ TxUndoIp
      \/ TxFail \/ TxCommit

Next ==
    \/ \E p \in Maybe : ApplyPBR(p)
    \/ BootApply
    \/ RestorePBRBaseline \/ SnapshotPBRBaseline
    \/ Tx \/ PBRTeardown \/ TdStep \/ BootTeardown \/ Flush \/ Restart

Spec == Init /\ [][Next]_vars
-----------------------------------------------------------------------------
TxPcs == {"idle", "delnft", "delip", "load", "clear", "add", "undonft", "undoip",
          "fail", "commit"}
TypeOK ==
    /\ nft \in Maybe /\ rules \subseteq Rules
    /\ pbrPlan \in Maybe /\ pbrBaseline \in Maybe
    /\ tx \in [pc : TxPcs, old : Maybe, new : Maybe, todo : SUBSET Rules]
    /\ td \in [pc : {"nft", "ip", "done"}, todo : SUBSET Rules]
    /\ bt \in [pc : {"start", "ip", "done"}, todo : SUBSET Rules]
    /\ faults \in 0..MaxFaults /\ flushes \in 0..MaxFlushes
    /\ restarts \in 0..MaxRestarts
    /\ crossed \in BOOLEAN

Quiet == tx.pc = "idle" /\ td.pc = "done" /\ bt.pc = "done"
Matches == nft = pbrPlan /\ rules = RulesIn(pbrPlan)

(* When no stream is running, every ip rule in the kernel belongs to the    *)
(* plan the server believes installed ("so no orphan ip rules/routes survive*)
(* to silently mis-route a dst into a now-stale table", restorePBRBaseline);*)
(* and unless somebody flushed the nft table, the kernel holds exactly that *)
(* plan: through failed and undone installs, shrinking plans, teardowns and *)
(* rollbacks, as long as no stream outside pbrMu crossed one and the daemon *)
(* was not restarted.  What an earlier daemon left behind does not keep an  *)
(* install from being complete when it commits ("removed-then-added so      *)
(* re-apply is idempotent", Plan.Apply).                                    *)
PlaneMatches ==
    /\ Quiet /\ ~crossed /\ restarts = 0 =>
         /\ rules \subseteq RulesIn(pbrPlan)
         /\ flushes = 0 => Matches
    /\ tx.pc = "commit" /\ tx.new # None /\ ~crossed /\ flushes = 0 =>
         nft = tx.new /\ RulesIn(tx.new) \subseteq rules

(* pbrMu "is the SINGLE authority for pbrPlan+pbrBaseline AND for the whole *)
(* nft/ip command stream" (Server): so no interleaving of requests takes    *)
(* the kernel away from pbrPlan.                                            *)
SingleAuthority == Quiet /\ flushes = 0 /\ restarts = 0 => Matches
=============================================================================
