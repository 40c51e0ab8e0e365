------------------------------ MODULE Plugins ------------------------------
(***************************************************************************)
(* internal/plugin: the engine plugins beside sing-box.  olcRTC and nfqws2  *)
(* are supervised processes, AmneziaWG is a kernel interface.  Sync (called *)
(* by handleApply, the rollback closure and the boot sync) reconciles them  *)
(* to a desired set; Supervise, driven by the watchdog's tick, relaunches   *)
(* crashed processes with a growing cooldown counted in ticks.              *)
(*                                                                          *)
(* Manager.mu is held across both loops, which go plugin by plugin in map   *)
(* order (any order); processes crash and binaries come and go in between.  *)
(***************************************************************************)
EXTENDS Naturals

CONSTANTS
    Ids,          \* endpoint ids
    SpecVals,     \* specs an endpoint may have: engine, parameters, SOCKS port
    None,
    Grace,        \* pluginRestartGrace
    MaxCooldown,  \* pluginMaxCooldown
    RestartCap,   \* restarts are counted up to here: the backoff is full
    MaxSyncs, MaxFaults, MaxBinChanges  \* bounds

Long    == {"olc", "nfqws"}       \* engines that run as a process
Engines == Long \cup {"awg"}
Used    == {s.eng : s \in SpecVals}
Slots   == 1..2                   \* process slots of one endpoint, 0 for no handle

(* pluginBackoffTicks: none for the first Grace restarts, then doubling.    *)
(* (The definitions named X_Word here and below are X with a plausible      *)
(* slip.)                                                                   *)
Shifted(n, cap) == IF n \in 1..cap THEN n ELSE cap
Backoff(r) == IF r <= Grace THEN 0
              ELSE IF r - Grace - 1 >= 31 THEN MaxCooldown
              ELSE Shifted(2 ^ (r - Grace - 1), MaxCooldown)

ASSUME PluginsAssumption ==
    /\ \A s \in SpecVals : {"eng", "port"} \subseteq DOMAIN s /\ s.eng \in Engines
    /\ None \notin SpecVals
    /\ Grace \in Nat /\ MaxCooldown \in Nat /\ RestartCap \in Nat
    /\ RestartCap > Grace /\ Backoff(RestartCap) = MaxCooldown
    /\ {MaxSyncs, MaxFaults, MaxBinChanges} \subseteq Nat

(* NativeConfig: only olcRTC's config carries the SOCKS port. *)
NativeConfig(s) == IF s.eng = "olc" THEN s ELSE [s EXCEPT !.port = 0]
Configs == {NativeConfig(s) : s \in SpecVals}
SpecSets == [Ids -> SpecVals \cup {None}]

VARIABLES
    procs,      \* Manager.procs, NoProc where there is no entry
    lastSpecs,  \* Manager.lastSpecs
    op,         \* the holder of Manager.mu: a Sync, a Supervise, or nobody
    os,         \* what runs in each process slot of an endpoint
    links,      \* AmneziaWG interfaces in the kernel
    files,      \* rendered configs on disk (they hold keys)
    bins,       \* engines whose binary is installed
    stopped,    \* StopAll has run
    syncs, faults, changes,   \* bounds
    waited      \* history: Supervise passes that left a dead process down
                \* since it was last launched

bounds == <<syncs, faults, changes>>
vars   == <<procs, lastSpecs, op, os, links, files, bins, stopped, bounds, waited>>

NoProc == [tracked |-> FALSE, config |-> None, eng |-> "awg", running |-> FALSE,
           managed |-> FALSE, needsBin |-> FALSE, restarts |-> 0, cooldown |-> 0,
           cmd |-> 0]
NoSpecs == [i \in Ids |-> None]
Idle    == [pc |-> "idle", todo |-> {}, failed |-> {}]

Init ==
    /\ procs = [i \in Ids |-> NoProc]
    /\ lastSpecs = NoSpecs
    /\ op = Idle
    /\ os = [i \in Ids |-> [k \in Slots |-> None]]
    /\ links = [i \in Ids |-> None]
    /\ files = {}
    /\ bins \in SUBSET Used
    /\ stopped = FALSE
    /\ syncs = 0 /\ faults = 0 /\ changes = 0
    /\ waited = [i \in Ids |-> 0]

Fault == faults < MaxFaults /\ faults' = faults + 1

(* procDied: the exit goroutine has closed done. *)
Dead(i) == \A k \in Slots : procs[i].cmd = k => os[i][k] = None

(* launchProc puts config c into a fresh process. *)
Free(i, k) == os[i][k] = None /\ k # procs[i].cmd
Launch(i, k, c) == os' = [os EXCEPT ![i][k] = c]
-----------------------------------------------------------------------------
(* stop: kill and reap the process, delete the interface, remove the file.  *)
Killed(i) == [k \in Slots |-> IF k = procs[i].cmd THEN None ELSE os[i][k]]
Unlinked(i) == IF procs[i].eng = "awg" /\ procs[i].running THEN None ELSE links[i]
Stop(I) ==
    /\ os' = [i \in Ids |-> IF i \in I THEN Killed(i) ELSE os[i]]
    /\ links' = [i \in Ids |-> IF i \in I THEN Unlinked(i) ELSE links[i]]
    /\ files' = files \ {<<i, procs[i].eng>> : i \in I}
    /\ procs' = [i \in Ids |-> IF i \in I THEN NoProc ELSE procs[i]]
    /\ waited' = [i \in Ids |-> IF i \in I THEN 0 ELSE waited[i]]

(* Sync takes the lock and records the desired set. *)
SyncBegin(specs) ==
    /\ op.pc = "idle"
    /\ syncs < MaxSyncs
    /\ syncs' = syncs + 1
    /\ lastSpecs' = specs
    /\ op' = [pc |-> "stop", todo |-> {i \in Ids : procs[i].tracked}, failed |-> {}]
    /\ UNCHANGED <<procs, os, links, files, bins, stopped, faults, changes, waited>>

(* An unchanged plugin marked running is left alone. *)
Unchanged(i) == lastSpecs[i] # None /\ NativeConfig(lastSpecs[i]) = procs[i].config
Keeps_Present(i) == lastSpecs[i] # None /\ procs[i].running
Keeps_Down(i)    == Unchanged(i)
Keeps(i) == Unchanged(i) /\ procs[i].running

SyncStop(i) ==
    /\ op.pc = "stop" /\ i \in op.todo
    /\ op' = [op EXCEPT !.todo = @ \ {i}]
    /\ \/ /\ Keeps(i)
          /\ procs' = [procs EXCEPT ![i].restarts = 0, ![i].cooldown = 0]
          /\ UNCHANGED <<os, links, files, waited>>
       \/ ~Keeps(i) /\ Stop({i})
    /\ UNCHANGED <<lastSpecs, bins, stopped, bounds>>

SyncTurn ==
    /\ op.pc = "stop" /\ op.todo = {}
    /\ op' = [op EXCEPT !.pc = "start",
                        !.todo = {i \in Ids : lastSpecs[i] # None /\ ~procs[i].tracked}]
    /\ UNCHANGED <<procs, lastSpecs, os, links, files, bins, stopped, bounds, waited>>

(* start: render and write the config, resolve the binary, launch or bring  *)
(* the interface up.                                                        *)
Entry(s) == [NoProc EXCEPT !.tracked = TRUE, !.config = NativeConfig(s), !.eng = s.eng]
Started(i) == op' = [op EXCEPT !.todo = @ \ {i}]
NotStarted(i) ==
    /\ op' = [op EXCEPT !.todo = @ \ {i}, !.failed = @ \cup {i}]
    /\ UNCHANGED <<os, links>>

SyncStart(i) ==
    LET s == lastSpecs[i]  p == Entry(s) IN
    /\ op.pc = "start" /\ i \in op.todo
    /\ \/ /\ Fault                                 \* the config is not written
          /\ procs' = [procs EXCEPT ![i] = p]
          /\ UNCHANGED files
          /\ NotStarted(i)
       \/ /\ files' = files \cup {<<i, s.eng>>}
          /\ \/ /\ s.eng \notin bins
                /\ procs' = [procs EXCEPT ![i] = [p EXCEPT !.needsBin = TRUE]]
                /\ NotStarted(i) /\ UNCHANGED faults
             \/ /\ s.eng \in bins /\ Fault         \* exec or interface fails
                /\ procs' = [procs EXCEPT ![i] = p]
                /\ NotStarted(i)
             \/ /\ s.eng \in bins \cap Long
                /\ \E k \in Slots :
                      /\ Free(i, k) /\ Launch(i, k, p.config)
                      /\ procs' = [procs EXCEPT ![i] = [p EXCEPT !.running = TRUE,
                                                           !.managed = TRUE, !.cmd = k]]
                /\ Started(i) /\ UNCHANGED <<links, faults>>
             \/ /\ s.eng \in bins \ Long
                /\ links' = [links EXCEPT ![i] = p.config]
                /\ procs' = [procs EXCEPT ![i] = [p EXCEPT !.running = TRUE]]
                /\ Started(i) /\ UNCHANGED <<os, faults>>
    /\ UNCHANGED <<lastSpecs, bins, stopped, syncs, changes, waited>>

SyncEnd ==
    /\ op.pc = "start" /\ op.todo = {}
    /\ op' = Idle
    /\ UNCHANGED <<procs, lastSpecs, os, links, files, bins, stopped, bounds, waited>>
-----------------------------------------------------------------------------
(* Supervise: TryLock; with a Sync in progress the tick is skipped, which   *)
(* changes nothing.                                                         *)
TickBegin ==
    /\ op.pc = "idle" /\ ~stopped
    /\ op' = [pc |-> "tick", todo |-> {i \in Ids : procs[i].managed}, failed |-> {}]
    /\ UNCHANGED <<procs, lastSpecs, os, links, files, bins, stopped, bounds, waited>>

Visited(i) == op.pc = "tick" /\ i \in op.todo /\ op' = [op EXCEPT !.todo = @ \ {i}]

(* Alive for a full tick: healthy again. *)
Healthy(i) ==
    /\ Visited(i)
    /\ procs[i].running /\ ~Dead(i)
    /\ procs' = [procs EXCEPT ![i].restarts = 0, ![i].cooldown = 0]
    /\ waited' = [waited EXCEPT ![i] = 0]
    /\ UNCHANGED <<lastSpecs, os, links, files, bins, stopped, bounds>>

Down_Unnoticed(i) == ~procs[i].running
Down(i) == ~procs[i].running \/ Dead(i)
Retired(i) == [procs[i] EXCEPT !.running = FALSE, !.cmd = 0]

Left_Stays(i) == procs[i].cooldown
Left(i) == procs[i].cooldown - 1

Throttle(i) ==
    /\ Visited(i)
    /\ Down(i) /\ procs[i].cooldown > 0
    /\ procs' = [procs EXCEPT ![i] = [Retired(i) EXCEPT !.cooldown = Left(i)]]
    /\ waited' = [waited EXCEPT ![i] = @ + 1]
    /\ UNCHANGED <<lastSpecs, os, links, files, bins, stopped, bounds>>

(* relaunchProc.  A failed Start stays managed; a vanished binary does not. *)
Counted(i) == IF procs[i].restarts < RestartCap THEN procs[i].restarts + 1 ELSE RestartCap
Relaunched_Unarmed(i) == [Retired(i) EXCEPT !.restarts = Counted(i)]
Relaunched(i) == [Retired(i) EXCEPT !.restarts = Counted(i),
                                    !.cooldown = Backoff(Counted(i))]

Relaunch(i) ==
    /\ Visited(i)
    /\ Down(i) /\ procs[i].cooldown = 0
    /\ \/ /\ procs[i].eng \notin bins
          /\ procs' = [procs EXCEPT ![i] = [Retired(i) EXCEPT !.needsBin = TRUE,
                                                              !.managed = FALSE]]
          /\ UNCHANGED <<os, faults>>
       \/ /\ procs[i].eng \in bins
          /\ \E k \in Slots :
                /\ os[i][k] = None /\ Launch(i, k, procs[i].config)
                /\ procs' = [procs EXCEPT ![i] = [Relaunched(i) EXCEPT !.running = TRUE,
                                                                       !.cmd = k]]
          /\ UNCHANGED faults
       \/ /\ procs[i].eng \in bins /\ Fault
          /\ procs' = [procs EXCEPT ![i] = Relaunched(i)]
          /\ UNCHANGED os
    /\ waited' = [waited EXCEPT ![i] = 0]
    /\ UNCHANGED <<lastSpecs, links, files, bins, stopped, syncs, changes>>

TickEnd ==
    /\ op.pc = "tick" /\ op.todo = {}
    /\ op' = Idle
    /\ UNCHANGED <<procs, lastSpecs, os, links, files, bins, stopped, bounds, waited>>

(* StopAll, at daemon shutdown, after the watchdog's last tick.             *)
StopAll ==
    /\ op.pc = "idle" /\ ~stopped
    /\ stopped' = TRUE
    /\ Stop(Ids)
    /\ UNCHANGED <<lastSpecs, op, bins, bounds>>
-----------------------------------------------------------------------------
(* external: a process exits, a binary is installed or removed. *)
Exit(i, k) ==
    /\ os[i][k] # None
    /\ os' = [os EXCEPT ![i][k] = None]
    /\ UNCHANGED <<procs, lastSpecs, op, links, files, bins, stopped, bounds, waited>>

BinChange(e) ==
    /\ changes < MaxBinChanges
    /\ changes' = changes + 1
    /\ bins' = IF e \in bins THEN bins \ {e} ELSE bins \cup {e}
    /\ UNCHANGED <<procs, lastSpecs, op, os, links, files, stopped, syncs, faults, waited>>

Syncing ==
    \/ \E i \in Ids : SyncStop(i) \/ SyncStart(i)
    \/ SyncTurn \/ SyncEnd
Supervise ==
    \/ TickBegin \/ TickEnd
    \/ \E i \in Ids : Healthy(i) \/ Throttle(i) \/ Relaunch(i)

Next ==
    \/ \E specs \in SpecSets : SyncBegin(specs)
    \/ Syncing \/ Supervise \/ StopAll
    \/ \E i \in Ids, k \in Slots : Exit(i, k)
    \/ \E e \in Used : BinChange(e)

Spec == Init /\ [][Next]_vars
-----------------------------------------------------------------------------
Proc == [tracked : BOOLEAN, config : Configs \cup {None}, eng : Engines,
         running : BOOLEAN, managed : BOOLEAN, needsBin : BOOLEAN,
         restarts : 0..RestartCap, cooldown : 0..MaxCooldown, cmd : {0} \cup Slots]

TypeOK ==
    /\ procs \in [Ids -> Proc]
    /\ lastSpecs \in SpecSets
    /\ op \in [pc : {"idle", "stop", "start", "tick"}, todo : SUBSET Ids,
               failed : SUBSET Ids]
    /\ os \in [Ids -> [Slots -> Configs \cup {None}]]
    /\ links \in [Ids -> Configs \cup {None}]
    /\ files \subseteq Ids \X Engines
    /\ bins \subseteq Engines
    /\ stopped \in BOOLEAN
    /\ syncs \in Nat /\ faults \in Nat /\ changes \in Nat
    /\ waited \in [Ids -> Nat]

Tracked ==
    /\ \A i \in Ids, k \in Slots : os[i][k] # None => procs[i].cmd = k
    /\ \A i \in Ids : links[i] # None => procs[i].eng = "awg" /\ procs[i].running

(* Nothing runs that the Manager has lost sight of: every engine process is *)
(* the one its entry holds the handle of, and every interface is one an     *)
(* entry would delete ("so they don't orphan", main).  With no Sync in      *)
(* progress, what runs is what the last Sync asked for, down to the SOCKS   *)
(* port sing-box was told to dial, and no file with keys is left of anything*)
(* else ("would otherwise linger", stop), through crashes, relaunches and   *)
(* engines that change under one id.                                        *)
Serves ==
    /\ Tracked
    /\ op.pc \in {"idle", "tick"} =>
         \A i \in Ids :
           /\ \A k \in Slots : os[i][k] # None => lastSpecs[i] # None
                                                   /\ os[i][k] = NativeConfig(lastSpecs[i])
           /\ links[i] # None => lastSpecs[i] # None /\ links[i] = NativeConfig(lastSpecs[i])
           /\ \A e \in Engines : <<i, e>> \in files =>
                  lastSpecs[i] # None /\ e = lastSpecs[i].eng

(* "a deliberate re-Apply actually re-resolves the binary and restarts it"  *)
(* (Sync): when a Sync is done, each plugin it asked for is marked running  *)
(* or was tried, without success, by this very Sync.                        *)
Resolved ==
    [][op.pc = "start" /\ op'.pc = "idle" =>
       \A i \in Ids : lastSpecs[i] # None => procs[i].running \/ i \in op.failed]_vars

(* "It never permanently gives up" (pluginMaxCooldown): a crashed process   *)
(* is passed over by at most MaxCooldown Supervise passes in a row.         *)
PassedOver == \A i \in Ids : waited[i] <= MaxCooldown

(* "a plugin that dies every tick is throttled" (Supervise): it is not      *)
(* relaunched before the cooldown charged for its restarts is over.         *)
Throttled ==
    [][op.pc = "tick" =>
         \A i \in Ids :
            procs[i].managed /\ waited[i] < Backoff(procs[i].restarts) =>
               \A k \in Slots : os'[i][k] # None => os[i][k] # None]_vars

(* What both follow from: the passes waited and the passes left make up the *)
(* cooldown that was charged.                                               *)
Paced(i) ==
    /\ procs[i].managed => waited[i] + procs[i].cooldown = Backoff(procs[i].restarts)
    /\ ~procs[i].managed => waited[i] = 0
    /\ procs[i].running => waited[i] = 0
PaceInv ==
    /\ \A i \in Ids : Paced(i)
    /\ \A i \in Ids : procs[i].managed => procs[i].tracked
    /\ op.pc = "tick" => \A i \in op.todo : procs[i].managed
    /\ op.pc = "start" => \A i \in op.todo : lastSpecs[i] # None /\ ~procs[i].tracked

(* A supervised process that is down comes up again, or its binary is gone, *)
(* or a Sync or the shutdown took it away: a skipped tick (TryLock) only    *)
(* delays it.                                                               *)
Recovers == \A i \in Ids : procs[i].managed /\ Dead(i) ~> ~(procs[i].managed /\ Dead(i)) \/ stopped
=============================================================================
