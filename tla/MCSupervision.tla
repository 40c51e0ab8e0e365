--------------------------- MODULE MCSupervision ----------------------------
(* The processes the daemon keeps alive: the engine plugins, the sing-box   *)
(* core, and the watchdog's backoff.  The models share no state; part says  *)
(* which of them a behaviour is about.                                      *)
EXTENDS Plugins, SingBox, Watchdog

CONSTANT x

VARIABLE part

mcVars == <<part, vars, coreVars, wdVars>>

(* Plugin entries do not touch each other, so one endpoint is enough: it    *)
(* changes its SOCKS port and its engine between Syncs, or goes away.       *)
MCSpecs == {[eng |-> "olc", par |-> x, port |-> 1], [eng |-> "olc", par |-> x, port |-> 2],
            [eng |-> "nfqws", par |-> x, port |-> 1],
            [eng |-> "awg", par |-> x, port |-> 1], [eng |-> "awg", par |-> x, port |-> 2]}

InPlugins  == part = "plugins"  /\ UNCHANGED <<part, coreVars, wdVars>>
InCore     == part = "core"     /\ UNCHANGED <<part, vars, wdVars>>
InWatchdog == part = "watchdog" /\ UNCHANGED <<part, vars, coreVars>>

MCInit ==
    /\ part \in {"plugins", "core", "watchdog"}
    /\ Init /\ CoreInit /\ WdInit
    /\ part # "plugins" => bins = {}
    /\ part # "core" => cmd = Nil
    /\ part # "watchdog" => wanted = FALSE
MCNext == (InPlugins /\ Next) \/ (InCore /\ CoreNext) \/ (InWatchdog /\ WdNext)

(* A Sync runs to its end and the watchdog keeps ticking; callers are       *)
(* goroutines that run on, the grace timer fires, and an exited process is  *)
(* reaped.  Nothing obliges sing-box to exit on SIGTERM, or ever to crash.  *)
MCSpec ==
    /\ MCInit /\ [][MCNext]_mcVars
    /\ WF_mcVars(InPlugins /\ Syncing) /\ WF_mcVars(InPlugins /\ Supervise)
    /\ \A a \in Callers : WF_mcVars(InCore /\ Proceed(a))
    /\ WF_mcVars(InCore /\ WdTick)
    /\ \A p \in Procs : WF_mcVars(InCore /\ Reap(p))
=============================================================================
