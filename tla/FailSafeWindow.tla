--------------------------- MODULE FailSafeWindow ---------------------------
(***************************************************************************)
(* What failsafe.Manager promises to the rest of the daemon, without       *)
(* clocks, connectivity checks or goroutine program counters.  A window is *)
(* opened by every non-saved Apply (Arm); its rollback closure may be      *)
(* invoked by the window's own run() goroutine or by an operator's         *)
(* RollbackNow, unlocked, and is invoked at most once.                     *)
(*                                                                         *)
(* FailSafe.tla refines this module; Apply.tla composes with it.           *)
(***************************************************************************)
EXTENDS Naturals

CONSTANTS MaxArms,    \* bound: windows opened in one run of the daemon
          Operators   \* concurrent callers of POST /api/apply/rollback

ASSUME MaxArmsAssumption == MaxArms \in Nat

Windows == 1..MaxArms
Phases  == {"idle", "armed", "degraded", "rolled_back", "rollback_failed",
            "committed", "live_unsaved", "reboot"}
Call    == {"idle", "decided", "firing", "failed"}  \* progress of a rollback() call

VARIABLES
    epoch,       \* the current window, 0 before the first Arm
    pending,     \* the current window is being watched
    phase,       \* what Status() reports
    dispatched,  \* rollback() of the current window has been claimed
    auto,        \* Call state of each window's run() goroutine
    manual,      \* Call state of each operator's RollbackNow ...
    target,      \* ... and the window whose closure it took
    fired        \* history: how often each window's rollback() was invoked

wvars == <<epoch, pending, phase, dispatched, auto, manual, target, fired>>

WInit ==
    /\ epoch = 0
    /\ pending = FALSE
    /\ phase = "idle"
    /\ dispatched = FALSE
    /\ auto = [w \in Windows |-> "idle"]
    /\ manual = [o \in Operators |-> "idle"]
    /\ target = [o \in Operators |-> 0]
    /\ fired = [w \in Windows |-> 0]

(* Arm supersedes any prior window. *)
WArm ==
    /\ epoch < MaxArms
    /\ epoch' = epoch + 1
    /\ pending' = TRUE
    /\ phase' = "armed"
    /\ dispatched' = FALSE
    /\ UNCHANGED <<auto, manual, target, fired>>

(* Any tick of any run() goroutine moves the phase of an open window ...   *)
WTick ==
    /\ pending
    /\ phase' \in {phase, "armed", "degraded"}
    /\ UNCHANGED <<epoch, pending, dispatched, auto, manual, target, fired>>

(* ... or closes it: recovered, kept live, or reboot ...                   *)
WExpire ==
    /\ pending
    /\ pending' = FALSE
    /\ phase' \in {phase, "live_unsaved", "reboot"}
    /\ UNCHANGED <<epoch, dispatched, auto, manual, target, fired>>

(* ... or decides to roll back (ActRollback).  The decision is taken on    *)
(* the current window, whoever's goroutine ticks.                          *)
WDecide(w) ==
    /\ pending
    /\ auto[w] = "idle"
    /\ auto' = [auto EXCEPT ![w] = "decided"]
    /\ phase' = "rolled_back"
    /\ UNCHANGED <<epoch, pending, dispatched, manual, target, fired>>

(* claimRollback: the decision of goroutine w is carried out only if w is  *)
(* still the current window and nobody claimed its rollback.               *)
WClaim(w) ==
    /\ auto[w] = "decided"
    /\ \/ /\ w = epoch /\ ~dispatched
          /\ dispatched' = TRUE
          /\ auto' = [auto EXCEPT ![w] = "firing"]
          /\ fired' = [fired EXCEPT ![w] = @ + 1]
       \/ /\ w # epoch \/ dispatched
          /\ auto' = [auto EXCEPT ![w] = "idle"]
          /\ UNCHANGED <<dispatched, fired>>
    /\ UNCHANGED <<epoch, pending, phase, manual, target>>

WConfirm ==
    /\ pending' = FALSE
    /\ phase' = "committed"
    /\ UNCHANGED <<epoch, dispatched, auto, manual, target, fired>>

(* RollbackNow closes the window and claims its rollback, unless it is     *)
(* already claimed or no window was ever armed (no closure).               *)
WRollbackNow(o) ==
    /\ manual[o] = "idle"
    /\ pending' = FALSE
    /\ phase' = "rolled_back"
    /\ dispatched' = TRUE
    /\ IF dispatched \/ epoch = 0
         THEN UNCHANGED <<manual, target, fired>>
         ELSE /\ manual' = [manual EXCEPT ![o] = "firing"]
              /\ target' = [target EXCEPT ![o] = epoch]
              /\ fired' = [fired EXCEPT ![epoch] = @ + 1]
    /\ UNCHANGED <<epoch, auto>>

(* rollback() returns, with or without an error; an error is recorded in a *)
(* separate critical section (markRollbackFailed).                         *)
WAutoReturns(w) ==
    /\ auto[w] = "firing"
    /\ \E r \in {"idle", "failed"} : auto' = [auto EXCEPT ![w] = r]
    /\ UNCHANGED <<epoch, pending, phase, dispatched, manual, target, fired>>

WAutoMarks(w) ==
    /\ auto[w] = "failed"
    /\ auto' = [auto EXCEPT ![w] = "idle"]
    /\ phase' = "rollback_failed"
    /\ UNCHANGED <<epoch, pending, dispatched, manual, target, fired>>

WManualReturns(o) ==
    /\ manual[o] = "firing"
    /\ \E r \in {"idle", "failed"} : manual' = [manual EXCEPT ![o] = r]
    /\ UNCHANGED <<epoch, pending, phase, dispatched, auto, target, fired>>

WManualMarks(o) ==
    /\ manual[o] = "failed"
    /\ manual' = [manual EXCEPT ![o] = "idle"]
    /\ phase' = "rollback_failed"
    /\ UNCHANGED <<epoch, pending, dispatched, auto, target, fired>>

WNext ==
    \/ WArm \/ WTick \/ WExpire \/ WConfirm
    \/ \E w \in Windows : WDecide(w) \/ WClaim(w) \/ WAutoReturns(w) \/ WAutoMarks(w)
    \/ \E o \in Operators : WRollbackNow(o) \/ WManualReturns(o) \/ WManualMarks(o)

WSpec == WInit /\ [][WNext]_wvars
-----------------------------------------------------------------------------
WTypeOK ==
    /\ epoch \in 0..MaxArms
    /\ pending \in BOOLEAN
    /\ phase \in Phases
    /\ dispatched \in BOOLEAN
    /\ auto \in [Windows -> Call]
    /\ manual \in [Operators -> Call]
    /\ target \in [Operators -> 0..MaxArms]
    /\ fired \in [Windows -> Nat]

(* "Fire at most once per window" (failsafe.go run, claimRollback,         *)
(* RollbackNow): whatever the interleaving of the auto path, operators and *)
(* re-arms, rollback() of one window is invoked at most once.              *)
FireOnce == \A w \in Windows : fired[w] <= 1

(* The strengthening that makes FireOnce inductive: an invocation can only *)
(* have happened in a window already opened, and in the current one only   *)
(* behind the dispatched flag.                                             *)
FireInv ==
    /\ FireOnce
    /\ \A w \in Windows : w > epoch => fired[w] = 0
    /\ epoch > 0 /\ ~dispatched => fired[epoch] = 0
=============================================================================
