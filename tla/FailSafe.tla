------------------------------ MODULE FailSafe ------------------------------
(***************************************************************************)
(* internal/failsafe: the rollback window after a non-saved Apply.  Each    *)
(* Arm starts a run() goroutine; every section under Manager.mu is one      *)
(* action, so a superseded goroutine, an operator's RollbackNow, Confirm    *)
(* and the next Arm interleave exactly where the lock is free.  The wall    *)
(* clock (nowMS) and the monotonic clock of the timers are kept apart.      *)
(***************************************************************************)
EXTENDS Integers

CONSTANTS
    Grace, Interval, RollbackAfter, RebootAfter, KeepWindow, \* Durations
    CheckTimeout,   \* a connectivity check returns within this time
    RollbackTime,   \* bound: a rollback() call returns within this time
    AllowReboot,    \* FailSafe.AutoReboot is on (and the daemon is not a demo)
    MaxArms,        \* bound: windows opened
    Operators,      \* concurrent callers of RollbackNow
    MaxTime,        \* bound: monotonic time explored
    LastArm,        \* bound: no window is opened after this time
    ClockSteps,     \* sizes of the wall-clock steps NTP may make
    MaxSteps        \* bound: how many steps it makes

ASSUME DurationsAssumption ==
    /\ {Grace, Interval, RollbackAfter, RebootAfter, KeepWindow} \subseteq Nat \ {0}
    /\ RollbackAfter < RebootAfter
    /\ CheckTimeout \in Nat /\ CheckTimeout < Grace
ASSUME BoundsAssumption ==
    /\ {MaxArms, MaxTime, LastArm, RollbackTime, MaxSteps} \subseteq Nat
    /\ AllowReboot \in BOOLEAN
    /\ ClockSteps \subseteq Nat

Windows == 1..MaxArms
Phases  == {"idle", "armed", "degraded", "rolled_back", "rollback_failed",
            "committed", "live_unsaved", "reboot"}
Pcs     == {"absent", "grace", "loop", "peek", "check", "claim", "reboot",
            "firing", "failed", "wait", "done"}
Call    == {"idle", "decided", "firing", "failed"}

VARIABLES
    m,         \* the Manager's fields, guarded by Manager.mu
    pc,        \* run() goroutine of each window
    ctx,       \* its context is cancelled
    wake,      \* monotonic time of its next timer
    started,   \* monotonic time its current check / rollback began
    sampled,   \* the nowMS() it took before calling check()
    manual,    \* progress of each operator's RollbackNow
    target,    \* the window whose closure that operator took
    now,       \* monotonic clock
    skew,      \* wall clock minus monotonic clock
    steps,     \* wall-clock steps made
    fired,     \* history: rollback() invocations per window
    failedW,   \* history: windows whose rollback() returned an error
    reboots    \* history: windows that called reboot()

goVars   == <<pc, ctx, wake, started, sampled>>
opVars   == <<manual, target>>
timeVars == <<now, skew, steps>>
histVars == <<fired, failedW, reboots>>
vars     == <<m, goVars, opVars, timeVars, histVars>>

nowMS == now + skew

Init ==
    /\ m = [pending |-> FALSE, phase |-> "idle", armedAt |-> 0, deadline |-> 0,
            bad |-> FALSE, badSince |-> 0, rolledBack |-> FALSE,
            dispatched |-> FALSE, epoch |-> 0]
    /\ pc = [w \in Windows |-> "absent"]
    /\ ctx = [w \in Windows |-> FALSE]
    /\ wake = [w \in Windows |-> 0]
    /\ started = [w \in Windows |-> 0]
    /\ sampled = [w \in Windows |-> 0]
    /\ manual = [o \in Operators |-> "idle"]
    /\ target = [o \in Operators |-> 0]
    /\ now = 0 /\ skew = 0 /\ steps = 0
    /\ fired = [w \in Windows |-> 0]
    /\ failedW = {}
    /\ reboots = {}
-----------------------------------------------------------------------------
(* What Arm writes into the Manager for the window it opens.  (The        *)
(* definitions named X_Word here and below are X with a plausible slip.)  *)
Armed_KeepsRolledBack(w) ==
    [pending |-> TRUE, phase |-> "armed", armedAt |-> nowMS,
     deadline |-> nowMS + KeepWindow, bad |-> FALSE, badSince |-> 0,
     rolledBack |-> m.rolledBack, dispatched |-> FALSE, epoch |-> w]
Armed(w) ==
    [pending |-> TRUE, phase |-> "armed", armedAt |-> nowMS,
     deadline |-> nowMS + KeepWindow, bad |-> FALSE, badSince |-> 0,
     rolledBack |-> FALSE, dispatched |-> FALSE, epoch |-> w]

(* Cancelling m.cancel: the context of the window armed last. *)
CancelCurrent == ctx' = [x \in Windows |-> ctx[x] \/ x = m.epoch]

(* Arm: cancel the previous goroutine, open window epoch + 1, start its    *)
(* goroutine (which first waits out the grace timer).                      *)
Arm ==
    LET w == m.epoch + 1 IN
    /\ m.epoch < MaxArms
    /\ now <= LastArm
    /\ m' = Armed(w)
    /\ CancelCurrent
    /\ pc' = [pc EXCEPT ![w] = "grace"]
    /\ wake' = [wake EXCEPT ![w] = now + Grace]
    /\ UNCHANGED <<started, sampled, opVars, timeVars, histVars>>

(* Confirm: the operator keeps the live config. *)
Confirmed == [m EXCEPT !.pending = FALSE, !.phase = "committed"]

Confirm ==
    /\ m' = Confirmed
    /\ CancelCurrent
    /\ UNCHANGED <<pc, wake, started, sampled, opVars, timeVars, histVars>>

(* RollbackNow: close the window and, unless the rollback is already        *)
(* claimed, claim it; the closure then runs unlocked.                       *)
RollbackNow(o) ==
    /\ manual[o] = "idle"
    /\ m' = [m EXCEPT !.pending = FALSE, !.phase = "rolled_back",
                      !.rolledBack = TRUE, !.dispatched = TRUE]
    /\ CancelCurrent
    /\ IF m.dispatched \/ m.epoch = 0
         THEN UNCHANGED <<opVars, fired>>
         ELSE /\ manual' = [manual EXCEPT ![o] = "firing"]
              /\ target' = [target EXCEPT ![o] = m.epoch]
              /\ fired' = [fired EXCEPT ![m.epoch] = @ + 1]
    /\ UNCHANGED <<pc, wake, started, sampled, timeVars, failedW, reboots>>

ManualReturns(o) ==
    /\ manual[o] = "firing"
    /\ \/ /\ manual' = [manual EXCEPT ![o] = "idle"]
          /\ UNCHANGED failedW
       \/ /\ manual' = [manual EXCEPT ![o] = "failed"]
          /\ failedW' = failedW \cup {target[o]}
    /\ UNCHANGED <<m, goVars, target, timeVars, fired, reboots>>

(* markRollbackFailed, from RollbackNow and from run(). *)
ManualMarks(o) ==
    /\ manual[o] = "failed"
    /\ manual' = [manual EXCEPT ![o] = "idle"]
    /\ m' = [m EXCEPT !.phase = "rollback_failed"]
    /\ UNCHANGED <<goVars, target, timeVars, histVars>>
-----------------------------------------------------------------------------
(* run(): the select on the grace timer and the context.                   *)
GraceEnds(w) ==
    /\ pc[w] = "grace"
    /\ \/ /\ now >= wake[w]
          /\ pc' = [pc EXCEPT ![w] = "loop"]
          /\ wake' = [wake EXCEPT ![w] = now + Interval]
       \/ /\ ctx[w]
          /\ pc' = [pc EXCEPT ![w] = "done"]
          /\ UNCHANGED wake
    /\ UNCHANGED <<m, ctx, started, sampled, opVars, timeVars, histVars>>

(* Top of the loop: ctx.Err(), then a locked read of pending, then nowMS() *)
(* is evaluated and check() starts.                                        *)
LoopTop(w) ==
    /\ pc[w] = "loop"
    /\ pc' = [pc EXCEPT ![w] = IF ctx[w] THEN "done" ELSE "peek"]
    /\ UNCHANGED <<m, ctx, wake, started, sampled, opVars, timeVars, histVars>>

PeekPending(w) ==
    /\ pc[w] = "peek"
    /\ pc' = [pc EXCEPT ![w] = IF m.pending THEN "check" ELSE "done"]
    /\ started' = [started EXCEPT ![w] = now]
    /\ sampled' = [sampled EXCEPT ![w] = nowMS]
    /\ UNCHANGED <<m, ctx, wake, opVars, timeVars, histVars>>

(* The window of a Manager ends: recovered after a rollback. *)
Recovered_StaysPending(g) == g
Recovered(g) == [g EXCEPT !.pending = FALSE]

(* check() has returned ok: the locked part of tick(), good branch.  The   *)
(* goroutine then waits (ActNone) or stops (ActDone).                      *)
TickGood(w) ==
    LET g == [m EXCEPT !.bad = FALSE, !.badSince = 0] IN
    /\ pc[w] = "check"
    /\ m.pending
    /\ \/ /\ m.rolledBack                       \* recovered after the rollback
          /\ m' = Recovered(g)
          /\ pc' = [pc EXCEPT ![w] = "done"]
       \/ /\ ~m.rolledBack /\ sampled[w] >= m.deadline
          /\ m' = [g EXCEPT !.pending = FALSE, !.phase = "live_unsaved"]
          /\ pc' = [pc EXCEPT ![w] = "done"]
       \/ /\ ~m.rolledBack /\ sampled[w] < m.deadline
          /\ m' = [g EXCEPT !.phase = "armed"]
          /\ pc' = [pc EXCEPT ![w] = "wait"]
    /\ UNCHANGED <<ctx, wake, started, sampled, opVars, timeVars, histVars>>

(* check() has failed: the bad branch of tick(). *)
TickBad(w) ==
    LET b == IF m.bad THEN m ELSE [m EXCEPT !.bad = TRUE, !.badSince = sampled[w]]
        badFor == sampled[w] - b.badSince
    IN
    /\ pc[w] = "check"
    /\ m.pending
    /\ \/ /\ badFor >= RebootAfter
          /\ m' = [b EXCEPT !.pending = FALSE, !.phase = "reboot"]
          /\ pc' = [pc EXCEPT ![w] = "reboot"]
       \/ /\ badFor < RebootAfter /\ badFor >= RollbackAfter /\ ~m.rolledBack
          /\ m' = [b EXCEPT !.rolledBack = TRUE, !.phase = "rolled_back"]
          /\ pc' = [pc EXCEPT ![w] = "claim"]
       \/ /\ badFor < RebootAfter /\ badFor < RollbackAfter /\ ~m.rolledBack
          /\ m' = [b EXCEPT !.phase = "degraded"]
          /\ pc' = [pc EXCEPT ![w] = "wait"]
       \/ /\ badFor < RebootAfter /\ m.rolledBack
          /\ m' = b
          /\ pc' = [pc EXCEPT ![w] = "wait"]
    /\ UNCHANGED <<ctx, wake, started, sampled, opVars, timeVars, histVars>>

(* tick() on a window that was closed during the check: ActNone. *)
TickIdle(w) ==
    /\ pc[w] = "check"
    /\ ~m.pending
    /\ pc' = [pc EXCEPT ![w] = "wait"]
    /\ UNCHANGED <<m, ctx, wake, started, sampled, opVars, timeVars, histVars>>

(* claimRollback, then rollback() outside the lock. *)
MayClaim_NoFlag(w)  == m.epoch = w
MayClaim_NoEpoch(w) == ~m.dispatched
MayClaim(w) == m.epoch = w /\ ~m.dispatched

ClaimRollback(w) ==
    /\ pc[w] = "claim"
    /\ \/ /\ MayClaim(w)
          /\ m' = [m EXCEPT !.dispatched = TRUE]
          /\ pc' = [pc EXCEPT ![w] = "firing"]
          /\ started' = [started EXCEPT ![w] = now]
          /\ fired' = [fired EXCEPT ![w] = @ + 1]
       \/ /\ ~MayClaim(w)
          /\ pc' = [pc EXCEPT ![w] = "wait"]
          /\ UNCHANGED <<m, started, fired>>
    /\ UNCHANGED <<ctx, wake, sampled, opVars, timeVars, failedW, reboots>>

RollbackReturns(w) ==
    /\ pc[w] = "firing"
    /\ \/ /\ pc' = [pc EXCEPT ![w] = "wait"]
          /\ UNCHANGED failedW
       \/ /\ pc' = [pc EXCEPT ![w] = "failed"]
          /\ failedW' = failedW \cup {w}
    /\ UNCHANGED <<m, ctx, wake, started, sampled, opVars, timeVars, fired, reboots>>

MarkFailed(w) ==
    /\ pc[w] = "failed"
    /\ pc' = [pc EXCEPT ![w] = "wait"]
    /\ m' = [m EXCEPT !.phase = "rollback_failed"]
    /\ UNCHANGED <<ctx, wake, started, sampled, opVars, timeVars, histVars>>

(* claimReboot, then reboot(), then return. *)
ClaimReboot(w) ==
    /\ pc[w] = "reboot"
    /\ pc' = [pc EXCEPT ![w] = "done"]
    /\ reboots' = IF AllowReboot /\ m.epoch = w THEN reboots \cup {w} ELSE reboots
    /\ UNCHANGED <<m, ctx, wake, started, sampled, opVars, timeVars, fired, failedW>>

(* The select on the ticker and the context; the ticker drops ticks a slow *)
(* loop missed, so the next one is at most Interval away.                  *)
WaitEnds(w) ==
    /\ pc[w] = "wait"
    /\ \/ /\ now >= wake[w]
          /\ pc' = [pc EXCEPT ![w] = "loop"]
          /\ \E d \in 1..Interval : wake' = [wake EXCEPT ![w] = now + d]
       \/ /\ ctx[w]
          /\ pc' = [pc EXCEPT ![w] = "done"]
          /\ UNCHANGED wake
    /\ UNCHANGED <<m, ctx, started, sampled, opVars, timeVars, histVars>>
-----------------------------------------------------------------------------
(* A goroutine that can run does so before time passes: timers are prompt  *)
(* on the scale of the durations, a check and a rollback are bounded.      *)
Due(w) ==
    \/ pc[w] \in {"loop", "peek", "claim", "reboot", "failed"}
    \/ pc[w] \in {"grace", "wait"} /\ (ctx[w] \/ now >= wake[w])
    \/ pc[w] = "check"  /\ now >= started[w] + CheckTimeout
    \/ pc[w] = "firing" /\ now >= started[w] + RollbackTime

Advance ==
    /\ now < MaxTime
    /\ \A w \in Windows : ~Due(w)
    /\ now' = now + 1
    /\ UNCHANGED <<m, goVars, opVars, skew, steps, histVars>>

(* NTP steps the wall clock; the timers do not notice. *)
ClockStep ==
    /\ steps < MaxSteps
    /\ \E d \in ClockSteps : skew' = skew + d
    /\ steps' = steps + 1
    /\ UNCHANGED <<m, goVars, opVars, now, histVars>>

Run(w) ==
    \/ GraceEnds(w) \/ LoopTop(w) \/ PeekPending(w)
    \/ TickGood(w) \/ TickBad(w) \/ TickIdle(w)
    \/ ClaimRollback(w) \/ RollbackReturns(w) \/ MarkFailed(w)
    \/ ClaimReboot(w) \/ WaitEnds(w)

Operate(o) == RollbackNow(o) \/ ManualReturns(o) \/ ManualMarks(o)

Next ==
    \/ Arm \/ Confirm
    \/ \E o \in Operators : Operate(o)
    \/ \E w \in Windows : Run(w)
    \/ Advance \/ ClockStep

Spec == Init /\ [][Next]_vars

(* Goroutines are scheduled and time passes; operators need not act. *)
FairSpec ==
    /\ Spec
    /\ \A w \in Windows : WF_vars(Run(w))
    /\ \A o \in Operators : WF_vars(ManualReturns(o) \/ ManualMarks(o))
    /\ WF_vars(Advance)
-----------------------------------------------------------------------------
Manager == [pending : BOOLEAN, phase : Phases, armedAt : Nat, deadline : Nat,
            bad : BOOLEAN, badSince : Nat, rolledBack : BOOLEAN,
            dispatched : BOOLEAN, epoch : 0..MaxArms]

TypeOK ==
    /\ m \in Manager
    /\ pc \in [Windows -> Pcs]
    /\ ctx \in [Windows -> BOOLEAN]
    /\ wake \in [Windows -> Nat]
    /\ started \in [Windows -> Nat]
    /\ sampled \in [Windows -> Nat]
    /\ manual \in [Operators -> Call]
    /\ target \in [Operators -> 0..MaxArms]
    /\ now \in Nat /\ skew \in Nat /\ steps \in Nat
    /\ fired \in [Windows -> Nat]
    /\ failedW \subseteq 0..MaxArms
    /\ reboots \subseteq Windows

(* The window machine this module implements: a goroutine's claim, call and *)
(* error mark are the abstract Call; clocks and checks disappear.           *)
AutoOf(w) == CASE pc[w] = "claim" -> "decided"
               [] pc[w] \in {"firing", "failed"} -> pc[w]
               [] OTHER -> "idle"

W == INSTANCE FailSafeWindow WITH
        epoch <- m.epoch, pending <- m.pending, phase <- m.phase,
        dispatched <- m.dispatched, auto <- [w \in Windows |-> AutoOf(w)],
        manual <- manual, target <- target, fired <- fired

(* Implements the abstract window machine: every locked section of the     *)
(* manager is one step of it or a stutter.                                 *)
ImplementsWindow == W!WSpec

(* "Fire at most once per window even though rb() is invoked unlocked"     *)
(* (claimRollback): over all interleavings of run(), RollbackNow and Arm.  *)
FireOnce == \A w \in Windows : fired[w] <= 1

(* A window that considers itself rolled back really has a rollback behind *)
(* it, or a goroutine of that very window is about to claim it.  A late    *)
(* tick of a superseded goroutine would break this: it sets rolledBack in  *)
(* the new window but its own claim is refused, and nobody rolls back.     *)
(* And reboot is the last resort (ActReboot; "still no connectivity after  *)
(* rollback"): as long as the wall clock is not stepped, a window reboots  *)
(* the router only after its rollback was invoked.                         *)
RollbackIsReal ==
    /\ m.rolledBack => m.dispatched \/ \E w \in Windows : w = m.epoch /\ pc[w] = "claim"
    /\ steps = 0 => \A w \in reboots : fired[w] = 1

(* Every window is eventually closed: kept, recovered, rebooted, confirmed *)
(* or rolled back by hand, however connectivity behaves.                   *)
WindowCloses == m.pending ~> ~m.pending
=============================================================================
