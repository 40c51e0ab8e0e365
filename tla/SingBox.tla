------------------------------ MODULE SingBox ------------------------------
(***************************************************************************)
(* internal/core and internal/watchdog: the sing-box process, the callers   *)
(* that start, stop and reload it, and the watchdog that restarts it after  *)
(* a crash.  Every section under SingBox.mu is one action; a caller is      *)
(* interrupted wherever the code drops the lock (Stop drains the old        *)
(* process unlocked, Reload is a Stop followed by a Start).                 *)
(*                                                                          *)
(* Callers: "apply" (handleApply and the rollback closure) and "update"     *)
(* (the engine updater) hold applyMu; "main" (daemon shutdown) does not.    *)
(* The Stop of the boot sync is in Apply.tla.                               *)
(***************************************************************************)
EXTENDS Naturals

CONSTANTS
    Procs,      \* process slots; a reaped, forgotten one is reused
    Nil,
    Callers,    \* which of the callers take part
    MaxFails    \* bound: spawns that fail

AllCallers == {"apply", "update", "main"}
Locking    == {"apply", "update"}
Outside    == {"main"}

ASSUME SingBoxAssumption ==
    /\ Nil \notin Procs \cup AllCallers
    /\ Callers \subseteq AllCallers
    /\ MaxFails \in Nat

VARIABLES
    proc,     \* state of each process: up, term (SIGTERM pending), dead, reaped
    cmd,      \* SingBox.cmd / done
    desired,  \* SingBox.desired
    call,     \* progress of each caller
    applyMu,  \* who holds applyMu
    wd,       \* the watchdog's tick
    fails,    \* failed spawns so far
    exited,   \* the daemon has exited
    intent,   \* history: what the last completed order asked for
    overlap   \* history: a caller outside applyMu ran alongside another one

coreVars == <<proc, cmd, desired, call, applyMu, wd, fails, exited, intent, overlap>>

AtRest == [pc |-> "idle", goal |-> "none", p |-> Nil]

(* main's autostart has launched the core, or had no reason to. *)
CoreInit ==
    /\ \/ /\ cmd = Nil /\ intent = "down"
          /\ proc = [p \in Procs |-> "reaped"]
       \/ /\ cmd \in Procs /\ intent = "up"
          /\ proc = [p \in Procs |-> IF p = cmd THEN "up" ELSE "reaped"]
    /\ desired = (intent = "up")
    /\ call = [a \in Callers |-> AtRest]
    /\ applyMu = Nil
    /\ wd = "idle"
    /\ fails = 0
    /\ exited = FALSE
    /\ overlap = FALSE

(* aliveLocked: the exit goroutine has not closed done yet. *)
Alive == cmd # Nil /\ proc[cmd] # "reaped"
Live  == {p \in Procs : proc[p] \in {"up", "term"}}
FreeSlot(p) == proc[p] = "reaped" /\ p # cmd /\ \A a \in Callers : call[a].p # p

(* startLocked: desired is set only by a successful spawn. *)
Spawn ==
    /\ \E p \in Procs : FreeSlot(p) /\ proc' = [proc EXCEPT ![p] = "up"] /\ cmd' = p
    /\ desired' = TRUE
    /\ UNCHANGED fails

SpawnFails ==
    /\ fails < MaxFails
    /\ fails' = fails + 1
    /\ UNCHANGED <<proc, cmd, desired>>
-----------------------------------------------------------------------------
Goals(a) == CASE a = "apply"  -> {"bring", "stop"}
              [] a = "update" -> {"refresh"}
              [] OTHER        -> {"stop"}

(* Callers are goroutines of the daemon: they end with it. *)
At(a, pc)   == ~exited /\ call[a].pc = pc
StepTo(a, pc) == call' = [call EXCEPT ![a].pc = pc]
Released(a)   == /\ call' = [call EXCEPT ![a] = IF a \in Locking THEN AtRest
                                              ELSE [AtRest EXCEPT !.pc = "gone"]]
               /\ applyMu' = IF applyMu = a THEN Nil ELSE applyMu

(* The lock both the apply path and the updater hold end to end. *)
NeedsLock(a) == a \in Locking

(* main waits for the watchdog's last tick (<-wdDone) before its Stop. *)
MayBegin(a) == a = "main" => wd = "idle"

Busy(a) == call[a].pc \notin {"idle", "gone"}
Overlaps(a, b) == b # a /\ Busy(b) /\ {a, b} \cap Outside # {}

Begin(a) ==
    /\ At(a, "idle")
    /\ NeedsLock(a) => applyMu = Nil
    /\ applyMu' = IF NeedsLock(a) THEN a ELSE applyMu
    /\ MayBegin(a)
    /\ wd' = IF a = "main" THEN "halted" ELSE wd
    /\ \E g \in Goals(a) :
          call' = [call EXCEPT ![a] = [pc |-> IF g = "stop" THEN "stop" ELSE "look",
                                       goal |-> g, p |-> Nil]]
    /\ overlap' = (overlap \/ \E b \in Callers : Overlaps(a, b))
    /\ UNCHANGED <<proc, cmd, desired, fails, exited, intent>>

(* if Running() Reload() else Start(); the updater only reloads. *)
Refreshes == Alive

Look(a) ==
    /\ At(a, "look")
    /\ \/ Refreshes /\ StepTo(a, "stop") /\ UNCHANGED applyMu
       \/ ~Refreshes /\ call[a].goal = "bring" /\ StepTo(a, "start") /\ UNCHANGED applyMu
       \/ ~Refreshes /\ call[a].goal = "refresh" /\ Released(a)
    /\ UNCHANGED <<proc, cmd, desired, wd, fails, exited, intent, overlap>>

(* Stop: take the process away under the lock ... *)
StopTake(a) ==
    /\ At(a, "stop")
    /\ desired' = FALSE
    /\ cmd' = Nil
    /\ call' = [call EXCEPT ![a].p = cmd,
                            ![a].pc = IF Alive THEN "signal" ELSE "stopped"]
    /\ intent' = IF call[a].goal = "stop" THEN "down" ELSE intent
    /\ UNCHANGED <<proc, applyMu, wd, fails, exited, overlap>>

(* ... and drain it unlocked: SIGTERM, a grace period, SIGKILL. *)
StopSignal(a) ==
    /\ At(a, "signal")
    /\ \/ /\ proc[call[a].p] # "reaped"
          /\ proc' = [proc EXCEPT ![call[a].p] = IF @ = "up" THEN "term" ELSE @]
          /\ StepTo(a, "wait")
       \/ /\ proc[call[a].p] = "reaped"     \* Signal: process already finished
          /\ StepTo(a, "kill")
          /\ UNCHANGED proc
    /\ UNCHANGED <<cmd, desired, applyMu, wd, fails, exited, intent, overlap>>

GraceOver_Never(a) == FALSE
GraceOver(a) == TRUE

AfterGrace_GivesUp == "stopped"
AfterGrace == "kill"

StopWait(a) ==
    /\ At(a, "wait")
    /\ \/ proc[call[a].p] = "reaped" /\ StepTo(a, "stopped")
       \/ GraceOver(a) /\ StepTo(a, AfterGrace)
    /\ UNCHANGED <<proc, cmd, desired, applyMu, wd, fails, exited, intent, overlap>>

StopKill(a) ==
    /\ At(a, "kill")
    /\ proc' = [proc EXCEPT ![call[a].p] = IF @ = "reaped" THEN @ ELSE "dead"]
    /\ StepTo(a, "drain")
    /\ UNCHANGED <<cmd, desired, applyMu, wd, fails, exited, intent, overlap>>

StopDrain(a) ==
    /\ At(a, "drain")
    /\ proc[call[a].p] = "reaped"
    /\ StepTo(a, "stopped")
    /\ UNCHANGED <<proc, cmd, desired, applyMu, wd, fails, exited, intent, overlap>>

(* Stop returns: to its caller, or to Reload, which goes on to Start. *)
Stopped(a) ==
    /\ At(a, "stopped")
    /\ \/ /\ call[a].goal = "stop"
          /\ Released(a)
          /\ exited' = (a = "main")
       \/ /\ call[a].goal # "stop"
          /\ call' = [call EXCEPT ![a].pc = "restart", ![a].p = Nil]
          /\ UNCHANGED <<applyMu, exited>>
    /\ UNCHANGED <<proc, cmd, desired, wd, fails, intent, overlap>>

(* Start, on its own or inside Reload.  A Reload whose Start failed        *)
(* re-asserts desired in a section of its own.                             *)
Ordered(a) == intent' = IF call[a].goal = "bring" THEN "up" ELSE intent

Start(a) ==
    /\ At(a, "start") \/ At(a, "restart")
    /\ \/ /\ Alive
          /\ desired' = TRUE
          /\ Ordered(a)
          /\ Released(a)
          /\ UNCHANGED <<proc, cmd, fails>>
       \/ ~Alive /\ Spawn /\ Ordered(a) /\ Released(a)
       \/ /\ ~Alive /\ SpawnFails
          /\ IF call[a].pc = "restart"
               THEN StepTo(a, "reassert") /\ Ordered(a) /\ UNCHANGED applyMu
               ELSE Released(a) /\ UNCHANGED intent
    /\ UNCHANGED <<wd, exited, overlap>>

Reasserted_No == desired
Reasserted == TRUE

Reassert(a) ==
    /\ At(a, "reassert")
    /\ desired' = Reasserted
    /\ Released(a)
    /\ UNCHANGED <<proc, cmd, wd, fails, exited, intent, overlap>>
-----------------------------------------------------------------------------
(* One tick: Desired(), Alive() and the restart are three sections. *)
WdDesired ==
    /\ wd = "idle" /\ desired
    /\ wd' = "alive"
    /\ UNCHANGED <<proc, cmd, desired, call, applyMu, fails, exited, intent, overlap>>

WdAlive ==
    /\ wd = "alive"
    /\ wd' = IF Alive THEN "idle" ELSE "restart"
    /\ UNCHANGED <<proc, cmd, desired, call, applyMu, fails, exited, intent, overlap>>

(* StartIfDesiredDead: decides again under the lock. *)
StillDesiredDead == desired /\ ~Alive

WdRestart ==
    /\ wd = "restart"
    /\ \/ StillDesiredDead /\ (Spawn \/ SpawnFails)
       \/ ~StillDesiredDead /\ UNCHANGED <<proc, cmd, desired, fails>>
    /\ wd' = "idle"
    /\ UNCHANGED <<call, applyMu, exited, intent, overlap>>

(* The process exits: a crash, or SIGTERM taking effect. *)
CoreExit(p) ==
    /\ proc[p] \in {"up", "term"}
    /\ proc' = [proc EXCEPT ![p] = "dead"]
    /\ UNCHANGED <<cmd, desired, call, applyMu, wd, fails, exited, intent, overlap>>

(* The exit goroutine: Wait() returns and done is closed. *)
Reap(p) ==
    /\ proc[p] = "dead"
    /\ proc' = [proc EXCEPT ![p] = "reaped"]
    /\ UNCHANGED <<cmd, desired, call, applyMu, wd, fails, exited, intent, overlap>>

Proceed(a) ==
    \/ Look(a) \/ StopTake(a) \/ StopSignal(a) \/ StopWait(a) \/ StopKill(a)
    \/ StopDrain(a) \/ Stopped(a) \/ Start(a) \/ Reassert(a)
WdTick == WdDesired \/ WdAlive \/ WdRestart

CoreNext ==
    \/ \E a \in Callers : Begin(a) \/ Proceed(a)
    \/ WdTick
    \/ \E p \in Procs : CoreExit(p) \/ Reap(p)

CoreSpec == CoreInit /\ [][CoreNext]_coreVars
-----------------------------------------------------------------------------
CoreTypeOK ==
    /\ proc \in [Procs -> {"up", "term", "dead", "reaped"}]
    /\ cmd \in Procs \cup {Nil}
    /\ desired \in BOOLEAN
    /\ call \in [Callers ->
         [pc : {"idle", "look", "stop", "signal", "wait", "kill", "drain", "stopped",
                "start", "restart", "reassert", "gone"},
          goal : {"none", "bring", "stop", "refresh"},
          p : Procs \cup {Nil}]]
    /\ applyMu \in AllCallers \cup {Nil}
    /\ wd \in {"idle", "alive", "restart", "halted"}
    /\ fails \in 0..MaxFails
    /\ exited \in BOOLEAN
    /\ intent \in {"up", "down"} /\ overlap \in BOOLEAN

(* "two instances both installing TUN auto_route / auto_redirect kernel    *)
(* rules" (handleUpdaterInstall) never happens, and "an in-flight tick      *)
(* could otherwise (re)start sing-box right after we Stop it, orphaning a   *)
(* process" (main) neither: at most one sing-box runs, none is left behind  *)
(* at exit, and one that no field and no Stop call refers to any more does  *)
(* not run.  And whenever no order is in progress the supervisor's intent   *)
(* is the last order's: a deliberately stopped core is never resurrected    *)
(* (the TOCTOU of StartIfDesiredDead, the Running() re-check of the         *)
(* updater) and a failed reload stays supervised (Reload).  All but the     *)
(* third as long as no Stop outside applyMu overlaps another order.         *)
CoreAsOrdered ==
    /\ ~overlap => \A p, q \in Live : p = q
    /\ exited /\ ~overlap => Live = {}
    /\ \A p \in Live : p = cmd \/ \E a \in Callers : call[a].p = p
    /\ applyMu = Nil /\ ~overlap => (desired <=> intent = "up")

(* Supervision: a core that should be up comes back, or the order changes. *)
ComesBack == intent = "up" ~> Alive \/ intent = "down" \/ exited \/ overlap

(* Every Stop and Reload returns, even if sing-box ignores SIGTERM. *)
CallsReturn == \A a \in Callers : call[a].pc = "stop" ~> ~Busy(a) \/ exited
=============================================================================
