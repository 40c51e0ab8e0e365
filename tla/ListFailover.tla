---------------------------- MODULE ListFailover ----------------------------
(***************************************************************************)
(* The failover cron of the Keenetic kernel plane (keenetic/kpbr.go): once  *)
(* a minute a shell script elects the default route of each routing table   *)
(* among the members of its group.  Around it, the netfilter hook that      *)
(* seeds the tables after NDM rebuilt the firewall (kpbr_build.go,          *)
(* pbr/render_ipset.go), and tunnels that come and go.  The NAT rules both  *)
(* re-assert every time are left out.                                       *)
(*                                                                          *)
(* Runs start at least a cron tick apart, so testing the lock and taking it *)
(* is one step.  Only IPv4 is elected; so it is in the code.                *)
(***************************************************************************)
EXTENDS Naturals, Sequences, SequencesExt

CONSTANTS
    Layouts,      \* member lists of the tables, in table order: a set of sequences
    KernelIface,  \* endpoint -> its kernel interface; proxies are not in it
    Direct, Block,
    NoRoute,
    MaxKills      \* bound: runs cut off by SIGKILL

Tunnels == Range(KernelIface)
WAN   == "WAN"
BLOCK == "BLOCK"
Hysteresis == 3   \* all-down runs before the terminal member is taken

(* A plan has a table, and no interface is called like a token. *)
ASSUME ListFailoverAssumption ==
    /\ MaxKills \in Nat /\ {Direct, Block} \cap DOMAIN KernelIface = {}
    /\ {NoRoute, WAN, BLOCK} \cap Tunnels = {} /\ NoRoute \notin {WAN, BLOCK}
    /\ \A g \in Layouts : g \in Seq(Range(g)) \ {<<>>}

VARIABLES
    groups,     \* the layout of this device
    tunnel,     \* interface -> "gone", "dead" (no traffic passes), "stale" (dead,
                \* but with a handshake within HS_MAX) or "live"
    load,       \* the CPU is starved: an ICMP echo may come too late
    moved,      \* interfaces that received bytes since the last sample
    adv,        \* what rx_advanced says in this run
    table,      \* table -> its default route
    st,         \* the /tmp/wr-fo-$T counters, counted up to Hysteresis
    run,        \* the running script
    lock,       \* the lock file: "free", "held", or "stale" after SIGKILL
    kills,
    alldown     \* history: runs in a row that heard no tunnel of the table

failVars == <<groups, tunnel, load, moved, adv, table, st, run, lock, kills, alldown>>
world  == <<tunnel, load, moved>>
script == <<adv, st, run, lock, alldown>>

NoRun == [pc |-> "off", t |-> 0, pick |-> NoRoute]
-----------------------------------------------------------------------------
(* memberToken; "" for a member without a kernel interface. *)
memberToken(m) ==
    CASE m = Direct -> WAN
      [] m = Block -> BLOCK
      [] m \in DOMAIN KernelIface -> KernelIface[m]
      [] OTHER -> ""

ResolveEgressMembers(ms) ==
    SelectSeq([i \in DOMAIN ms |-> memberToken(ms[i])], LAMBDA x : x # "")

(* The first of ms that is in S, or NoRoute. *)
FirstIn(ms, S) ==
    LET here == {i \in DOMAIN ms : ms[i] \in S}
    IN IF here = {} THEN NoRoute ELSE ms[Min(here)]

Members(t) == ResolveEgressMembers(groups[t])
TunnelsOf(t) == Range(Members(t)) \cap Tunnels
Tables == DOMAIN groups
Used == UNION {TunnelsOf(t) : t \in Tables}

FailInit ==
    /\ groups \in Layouts
    /\ tunnel = [i \in Tunnels |-> "live"] /\ load \in BOOLEAN
    /\ moved = {} /\ adv = {}
    /\ table = [t \in DOMAIN groups |-> NoRoute]
    /\ st = [t \in DOMAIN groups |-> 0]
    /\ run = NoRun /\ lock = "free" /\ kills = 0
    /\ alldown = [t \in DOMAIN groups |-> 0]
-----------------------------------------------------------------------------
(* The cron starts the script: nothing if a live run holds the lock; else   *)
(* sample_rx of every interface, once.                                      *)
CronTick ==
    /\ run = NoRun /\ lock # "held"
    /\ lock' = "held"
    /\ run' = [NoRun EXCEPT !.pc = "elect", !.t = 1]
    /\ adv' = moved /\ moved' = {}
    /\ UNCHANGED <<groups, tunnel, load, table, st, kills, alldown>>

(* probe: the interfaces that answer, if asked now.  Bytes or a handshake   *)
(* will do; a ping through a live tunnel may be too late under load, and a  *)
(* live tunnel may have no young handshake.                                 *)
Answering ==
    LET sure == adv \cup {i \in Tunnels : tunnel[i] = "stale"}
        live == {i \in Tunnels : tunnel[i] = "live"}
    IN IF load THEN {sure \cup A : A \in SUBSET live} ELSE {sure \cup live}

NextTable(t) ==
    IF t = Len(groups)
    THEN run' = NoRun /\ lock' = "free" /\ adv' = {}
    ELSE run' = [pc |-> "elect", t |-> t + 1, pick |-> NoRoute] /\ UNCHANGED <<lock, adv>>

Capped(n) == IF n > Hysteresis THEN Hysteresis ELSE n

(* The current default, if it is a member tunnel and answers, stays.        *)
Keeps_Never(t, answers) == FALSE
Keeps_Terminal(t, answers) == table[t] \in {WAN, BLOCK} \cup (TunnelsOf(t) \cap answers)
Keeps(t, answers) == table[t] \in TunnelsOf(t) \cap answers

(* Where the loop over the members stops: the first that answers, or WAN,   *)
(* or BLOCK; NoRoute if it falls off the end.                               *)
Elected(t, answers) == FirstIn(Members(t), answers \cup {WAN, BLOCK})

(* set_table up to its "ip route replace".  The current default is asked    *)
(* first, and once more in its turn.                                        *)
Elect ==
    /\ run.pc = "elect"
    /\ \E first, again \in Answering :
         LET t == run.t
             m == Elected(t, again)
             n == Capped(st[t] + 1)
             heard == TunnelsOf(t) \cap again # {} \/ Keeps(t, first)
         IN /\ alldown' = [alldown EXCEPT ![t] = IF heard THEN 0 ELSE Capped(@ + 1)]
            /\ IF Keeps(t, first) \/ (m = table[t] /\ m \in Tunnels)
               THEN st' = [st EXCEPT ![t] = 0] /\ NextTable(t)
               ELSE IF m \in {WAN, BLOCK}
               THEN /\ st' = [st EXCEPT ![t] = n]
                    /\ IF n >= Hysteresis /\ ~(m = WAN /\ table[t] = WAN)
                       THEN run' = [run EXCEPT !.pc = "install", !.pick = m] /\ UNCHANGED <<lock, adv>>
                       ELSE NextTable(t)
               ELSE IF m = NoRoute
               THEN NextTable(t) /\ UNCHANGED st
               ELSE run' = [run EXCEPT !.pc = "install", !.pick = m] /\ UNCHANGED <<lock, adv, st>>
    /\ UNCHANGED <<groups, world, table, kills>>

(* "ip route replace": fails when the device has vanished meanwhile.        *)
Install ==
    /\ run.pc = "install"
    /\ table' = IF run.pick \in Tunnels /\ tunnel[run.pick] = "gone" THEN table
                ELSE [table EXCEPT ![run.t] = run.pick]
    /\ st' = IF run.pick \in Tunnels THEN [st EXCEPT ![run.t] = 0] ELSE st
    /\ NextTable(run.t)
    /\ UNCHANGED <<groups, world, kills, alldown>>

(* SIGKILL: the trap does not run, and the lock file stays.                 *)
Kill ==
    /\ run # NoRun /\ kills < MaxKills /\ kills' = kills + 1
    /\ run' = NoRun /\ lock' = "stale" /\ adv' = {}
    /\ UNCHANGED <<groups, world, table, st, alldown>>
-----------------------------------------------------------------------------
(* RenderIPScript's seed: "ip route add" does nothing where there is a      *)
(* default already, and fails without the device.                           *)
Seed(t) == FirstIn(Members(t), Tunnels)
Seeded(t) == IF table[t] = NoRoute /\ tunnel[Seed(t)] # "gone" THEN Seed(t) ELSE table[t]

(* kernelNetfilterHook, at boot and after a rebuild. *)
Hook ==
    /\ table' = [t \in Tables |-> Seeded(t)]
    /\ UNCHANGED <<groups, world, script, kills>>

(* A tunnel dies, recovers, loses its device, or gets it back, and a        *)
(* handshake grows old.  The kernel drops the routes through a device that  *)
(* goes.  (external)                                                        *)
Change(i, to) ==
    /\ <<tunnel[i], to>> \in {<<"live", "stale">>, <<"live", "dead">>, <<"stale", "live">>, <<"dead", "live">>, <<"gone", "dead">>}
                                \cup ({"live", "stale", "dead"} \X {"gone"})
    /\ tunnel' = [tunnel EXCEPT ![i] = to]
    /\ table' = IF to = "gone" THEN [t \in Tables |-> IF table[t] = i THEN NoRoute ELSE table[t]] ELSE table
    /\ moved' = IF to = "gone" THEN moved \ {i} ELSE moved
    /\ UNCHANGED <<groups, load, script, kills>>

Age(i) ==
    /\ tunnel[i] = "stale" /\ tunnel' = [tunnel EXCEPT ![i] = "dead"]
    /\ UNCHANGED <<groups, load, moved, script, table, kills>>

Traffic(i) ==
    /\ tunnel[i] = "live" /\ moved' = moved \cup {i}
    /\ UNCHANGED <<groups, tunnel, load, script, table, kills>>

Load ==
    /\ load' = ~load
    /\ UNCHANGED <<groups, tunnel, moved, script, table, kills>>

FailRun == Elect \/ Install
FailNext ==
    \/ CronTick \/ FailRun \/ Kill \/ Hook \/ Load
    \/ \E i \in Used : Traffic(i) \/ Age(i) \/ \E to \in {"gone", "stale", "dead", "live"} : Change(i, to)

FailSpec == FailInit /\ [][FailNext]_failVars
-----------------------------------------------------------------------------
(* "NEVER preemptively fail back to a recovered higher-priority member", "a *)
(* hook re-assert can never clobber the cron's elected live egress", and    *)
(* "a single transient probe miss ... does NOT flap the list onto the WAN": *)
(* a table leaves a tunnel whose device is there only in a run of the cron, *)
(* never one that received bytes since the run before, and leaves the       *)
(* tunnels for WAN or BLOCK only after three runs in a row that heard none  *)
(* (a run killed just before it resets its counter leaves the old count).   *)
LeavesReluctantly ==
    [][\A t \in Tables : table[t] \in Tunnels /\ table'[t] # table[t] /\ tunnel'[table[t]] # "gone" =>
        /\ run.t = t /\ table[t] \notin adv
        /\ table'[t] \in {WAN, BLOCK} /\ kills = 0 => alldown[t] >= Hysteresis]_failVars

Stays(t, i) ==
    /\ t \in Tables /\ i \in TunnelsOf(t) /\ tunnel[i] = "live" /\ ~load
    /\ \A j \in Tunnels : tunnel[j] # "gone"
Carried(t)  == t \in Tables => table[t] \in Tunnels /\ tunnel[table[t]] = "live"

(* "which we DO want to leave the moment a tunnel recovers": once a tunnel  *)
(* of the table stays up and the CPU is not starved, the table is on a live *)
(* tunnel again and again, whatever other tunnels, the hook, lost events    *)
(* and killed runs do.                                                      *)
ReturnsToTunnel ==
    \A t \in 1 .. 2 :
        (\E i \in Tunnels : <>[]Stays(t, i)) => []<>Carried(t)
=============================================================================
