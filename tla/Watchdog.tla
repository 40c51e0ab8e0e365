----------------------------- MODULE Watchdog -----------------------------
(***************************************************************************)
(* internal/watchdog: when a crashed sing-box is restarted.  The core is    *)
(* seen through Desired() and Alive(); SingBox.tla models it in detail.     *)
(* Times are kept relative to now, so a behaviour is not bounded: wait is   *)
(* nextAttempt minus now (0 when due or unset), since is now minus          *)
(* lastRestart, capped where larger values make no difference.              *)
(***************************************************************************)
EXTENDS Naturals

CONSTANTS
    Interval,                \* ticker period
    MinBackoff, MaxBackoff,  \* restart backoff, doubling
    Stable                   \* uptime that clears the backoff

ASSUME WatchdogAssumption ==
    /\ {Interval, MinBackoff, MaxBackoff, Stable} \subseteq Nat \ {0}
    /\ MinBackoff <= MaxBackoff

VARIABLES
    wanted, alive,   \* the supervised core
    backoff,          \* Watchdog.backoff, 0 when clear
    wait,             \* time to nextAttempt
    since,            \* time since lastRestart
    tickIn,           \* time to the next tick
    down              \* history: time since the crash or the last attempt

wdVars == <<wanted, alive, backoff, wait, since, tickIn, down>>

Least(a, b) == IF a <= b THEN a ELSE b
Longest == IF Stable >= MaxBackoff THEN Stable ELSE MaxBackoff

WdInit ==
    /\ wanted \in BOOLEAN /\ alive = wanted   \* autostart
    /\ backoff = 0 /\ wait = 0 /\ since = Longest
    /\ tickIn = Interval
    /\ down = 0

(* Time passes until the next tick is due. *)
Elapse ==
    /\ tickIn > 0
    /\ tickIn' = tickIn - 1
    /\ wait' = IF wait > 0 THEN wait - 1 ELSE 0
    /\ since' = Least(since + 1, Longest)
    /\ down' = IF wanted /\ ~alive THEN down + 1 ELSE 0
    /\ UNCHANGED <<wanted, alive, backoff>>

Grown_Uncapped == IF backoff = 0 THEN MinBackoff ELSE 2 * backoff
Grown == IF backoff = 0 THEN MinBackoff ELSE Least(2 * backoff, MaxBackoff)

(* Not wanted: nothing to do, and the backoff is forgotten. *)
TickIdle ==
    /\ tickIn = 0 /\ ~wanted
    /\ tickIn' = Interval
    /\ backoff' = 0 /\ wait' = 0
    /\ UNCHANGED <<wanted, alive, since, down>>

Clears == backoff > 0 /\ since >= Stable

TickAlive ==
    /\ tickIn = 0 /\ wanted /\ alive
    /\ tickIn' = Interval
    /\ IF Clears THEN backoff' = 0 /\ wait' = 0 ELSE UNCHANGED <<backoff, wait>>
    /\ UNCHANGED <<wanted, alive, since, down>>

(* Crashed, still inside the backoff window. *)
TickWaits ==
    /\ tickIn = 0 /\ wanted /\ ~alive /\ wait > 0
    /\ tickIn' = Interval
    /\ UNCHANGED <<wanted, alive, backoff, wait, since, down>>

(* Crashed and due: the backoff is charged and the core restarted, which    *)
(* may fail.                                                                *)
Charged == Grown

TickRestarts ==
    /\ tickIn = 0 /\ wanted /\ ~alive /\ wait = 0
    /\ tickIn' = Interval
    /\ backoff' = Grown /\ wait' = Charged
    /\ since' = 0
    /\ alive' \in BOOLEAN
    /\ down' = 0
    /\ UNCHANGED wanted

(* A deliberate Stop, or another caller's Start, got in between Alive() and  *)
(* the restart decision: the charge is undone.                              *)
TickRaced ==
    /\ tickIn = 0 /\ wanted /\ ~alive /\ wait = 0
    /\ tickIn' = Interval
    /\ \/ wanted' = FALSE /\ UNCHANGED alive
       \/ alive' = TRUE /\ UNCHANGED wanted
    /\ down' = 0
    /\ UNCHANGED <<backoff, wait, since>>

Crash ==
    /\ alive
    /\ alive' = FALSE
    /\ down' = 0
    /\ UNCHANGED <<wanted, backoff, wait, since, tickIn>>

(* Start, Reload and Stop called by handleApply, a rollback or the updater. *)
OrderUp ==
    /\ wanted' = TRUE
    /\ alive' \in BOOLEAN     \* a failed Reload stays wanted
    /\ down' = 0
    /\ UNCHANGED <<backoff, wait, since, tickIn>>

OrderDown ==
    /\ wanted' = FALSE /\ alive' = FALSE
    /\ down' = 0
    /\ UNCHANGED <<backoff, wait, since, tickIn>>

Tick == TickIdle \/ TickAlive \/ TickWaits \/ TickRestarts \/ TickRaced

WdNext == Elapse \/ Tick \/ Crash \/ OrderUp \/ OrderDown

WdSpec == WdInit /\ [][WdNext]_wdVars
-----------------------------------------------------------------------------
WdTypeOK ==
    /\ wanted \in BOOLEAN /\ alive \in BOOLEAN
    /\ backoff \in Nat /\ wait \in Nat
    /\ since \in 0..Longest
    /\ tickIn \in 0..Interval
    /\ down \in Nat

(* The backoff never costs more than one full window plus one tick: a core  *)
(* that should be up is dead for at most that long before the next attempt, *)
(* whatever crashes, stops, races and clears came before.                   *)
AttemptBound == down <= MaxBackoff + Interval

(* The strengthening that makes it inductive: what is left of the wait, or  *)
(* of the current tick once the wait is over, was not used up yet.          *)
AttemptInv ==
    /\ WdTypeOK
    /\ backoff <= MaxBackoff
    /\ ~wanted \/ alive => down = 0
    /\ wait > 0 => down + wait <= MaxBackoff
    /\ wait = 0 => down + tickIn <= MaxBackoff + Interval
=============================================================================
