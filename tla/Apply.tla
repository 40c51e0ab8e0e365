-------------------------------- MODULE Apply --------------------------------
(***************************************************************************)
(* The Apply pipeline of the daemon: handleApply, the fail-safe rollback    *)
(* closure, confirm, manual rollback, the boot SyncPlugins goroutine, the   *)
(* watchdog and power loss, over the three planes an Apply rewrites: the    *)
(* sing-box config and core, the kernel PBR plane, the engine plugins.      *)
(*                                                                          *)
(* A profile stands for everything generated from it: its singbox.json, its *)
(* PBR plan and its plugin specs.  The fail-safe manager is the abstract    *)
(* window machine (implemented by FailSafe.tla).                            *)
(***************************************************************************)
EXTENDS FailSafeWindow

CONSTANTS
    Profiles,     \* profiles the user edits between
    Native,       \* those whose datapath is native-only (no sing-box needed)
    Planned,      \* those that compile to a kernel plan (hybrid or fast mode)
    None,         \* absent file, no plan, no plugins, core down
    Faults,       \* which faults may happen (see Fault)
    MaxFaults,    \* bound: how many
    MaxApplies,   \* bound: Apply requests
    MaxReboots,   \* bound: power cycles
    BootRace      \* edits and requests may arrive before the boot sync is done

FaultKinds == {"check", "backup", "rename", "spawn", "restore", "pbr", "crash"}

ASSUME ApplyAssumption ==
    /\ Native \subseteq Planned /\ Planned \subseteq Profiles
    /\ None \notin Profiles
    /\ Faults \subseteq FaultKinds
    /\ {MaxFaults, MaxApplies, MaxReboots} \subseteq Nat
    /\ BootRace \in BOOLEAN

Maybe == Profiles \cup {None}

VARIABLES
    prof,        \* store.Profile()
    live, bak, good,  \* singbox.json, .bak, .good: whose config they hold
    core,        \* config the running sing-box was started on, or None
    desired,     \* SingBox.desired
    kplane,      \* plan installed in the kernel
    pbrPlan,     \* plan the server believes installed
    pbrBaseline, \* rollback target of the plane
    plug,        \* profile whose plugins run
    plugBaseline,\* rollback target of the plugins
    lock,        \* holder of applyMu: "free", "apply" or "rollback"
    ap,          \* the handleApply in progress
    rb,          \* the rollback closure in progress
    winNative,   \* nativeOnly captured by each window's closures
    boot,        \* the SyncPlugins goroutine
    faults, applies, reboots,  \* bounds
    pre,         \* history: the planes before the first Apply of the window
    keep,        \* history: config last saved, None once the user moves on
    stuck        \* history: the planes may be apart, because an Apply or a
                 \* rollback reported an error, a rollback overreached, or the
                 \* router rebooted on an edited profile

files  == <<live, bak, good>>
planes == <<kplane, pbrPlan, pbrBaseline, plug, plugBaseline>>
bounds == <<faults, applies, reboots>>
hist   == <<pre, keep, stuck>>
vars   == <<wvars, prof, files, core, desired, planes, lock, ap, rb, winNative,
            boot, bounds, hist>>

PlanOf(p) == IF p \in Planned THEN p ELSE None

Idle    == [pc |-> "idle", save |-> FALSE, p |-> None, pbrErr |-> FALSE]
RbIdle  == [pc |-> "idle", w |-> 0, op |-> None, err |-> FALSE]
Standing == [live |-> live, desired |-> desired, kplane |-> kplane, plug |-> plug,
             stuck |-> stuck]

(* Autostart (main): the core comes up on singbox.json unless the stored   *)
(* profile is native-only; SyncPlugins then starts in its own goroutine.   *)
Autostart(p, l) == IF p \in Native THEN None ELSE l

Init ==
    /\ WInit
    /\ prof \in Profiles
    /\ live \in {None} \cup (IF prof \in Native THEN Profiles \ Native ELSE {prof})
    /\ bak = None /\ good = live
    /\ core = Autostart(prof, live)
    /\ desired = (core # None)
    /\ kplane = None /\ pbrPlan = None /\ pbrBaseline = None
    /\ plug = None /\ plugBaseline = None
    /\ lock = "free" /\ ap = Idle /\ rb = RbIdle
    /\ winNative = [w \in Windows |-> FALSE]
    /\ boot = [pc |-> "read", p |-> None]
    /\ faults = 0 /\ applies = 0 /\ reboots = 0
    /\ stuck = FALSE /\ pre = Standing /\ keep = None

(* A fault of kind k happens, or it does not. *)
Fault(k)   == k \in Faults /\ faults < MaxFaults /\ faults' = faults + 1
NoFault    == UNCHANGED faults
-----------------------------------------------------------------------------
(* core.SingBox as its callers under applyMu see it. *)
Stop == core' = None /\ desired' = FALSE

StartOn(c) ==
    \/ core' = c /\ desired' = TRUE /\ NoFault
    \/ core' = None /\ UNCHANGED desired /\ Fault("spawn")

(* Reload stops, then starts; when the start fails it re-asserts desired.  *)
ReloadOn(c) ==
    \/ core' = c /\ desired' = TRUE /\ NoFault
    \/ core' = None /\ desired' = TRUE /\ Fault("spawn")

ReloadOrStart(c) == IF core # None THEN ReloadOn(c) ELSE StartOn(c)

(* Restore copies .bak over singbox.json; it needs a .bak. *)
RestoreOK    == bak # None /\ live' = bak
RestoreFails == /\ \/ bak = None /\ NoFault
                   \/ bak # None /\ Fault("restore")
                /\ UNCHANGED live

(* applyPBR and restorePBRBaseline: skip an unchanged plan, install, or    *)
(* fail and clean up.                                                      *)
ApplyPBR(q, err) ==
    \/ /\ q = pbrPlan
       /\ UNCHANGED <<kplane, pbrPlan>> /\ NoFault /\ err = FALSE
    \/ /\ q # pbrPlan
       /\ kplane' = q /\ pbrPlan' = q /\ NoFault /\ err = FALSE
    \/ /\ q # pbrPlan /\ q # None
       /\ kplane' = None /\ pbrPlan' = None /\ Fault("pbr") /\ err = TRUE

RestorePBRBaseline ==
    \/ kplane' = pbrBaseline /\ pbrPlan' = pbrBaseline
    \/ /\ pbrBaseline # None /\ "pbr" \in Faults
       /\ kplane' = None /\ pbrPlan' = None
-----------------------------------------------------------------------------
(* The user edits the profile (routing mode included). *)
Edit ==
    /\ BootRace \/ boot.pc = "done"
    /\ \E p \in Profiles \ {prof} : prof' = p
    /\ UNCHANGED <<wvars, files, core, desired, planes, lock, ap, rb, winNative,
                   boot, bounds, hist>>

(* handleApply, step by step under applyMu. *)
ApplyBegin(save) ==
    /\ lock = "free"
    /\ applies < MaxApplies /\ (~save => epoch < MaxArms)
    /\ BootRace \/ boot.pc = "done"
    /\ lock' = "apply"
    /\ ap' = [pc |-> "check", save |-> save, p |-> prof, pbrErr |-> FALSE]
    /\ applies' = applies + 1
    /\ keep' = None
    /\ UNCHANGED <<wvars, prof, files, core, desired, planes, rb, winNative,
                   boot, faults, reboots, pre, stuck>>

Release == lock' = "free" /\ ap' = Idle

(* Generation or sing-box check fails: nothing was touched. *)
ApplyReject ==
    /\ ap.pc = "check"
    /\ Fault("check")
    /\ Release
    /\ UNCHANGED <<wvars, prof, files, core, desired, planes, rb, winNative,
                   boot, applies, reboots, hist>>

(* The rollback baseline, only at the first Apply of a window. *)
TakesBaseline_Always == TRUE
TakesBaseline == ~pending

Backup ==
    \/ bak' = (IF live = None THEN bak ELSE live) /\ NoFault
    \/ live # None /\ UNCHANGED bak /\ Fault("backup")

ApplySnapshot ==
    /\ ap.pc = "check"
    /\ ap' = [ap EXCEPT !.pc = "swap"]
    /\ IF TakesBaseline
         THEN Backup /\ pbrBaseline' = pbrPlan /\ plugBaseline' = plug
         ELSE UNCHANGED <<bak, pbrBaseline, plugBaseline, faults>>
    /\ pre' = IF pending THEN pre ELSE Standing
    /\ UNCHANGED <<wvars, prof, live, good, core, desired, kplane, pbrPlan, plug,
                   lock, rb, winNative, boot, applies, reboots, keep, stuck>>

(* Rename the checked config in and reload or start the core; a native-    *)
(* only Apply leaves both alone.                                           *)
ApplySwap ==
    /\ ap.pc = "swap"
    /\ \/ /\ ap.p \in Native
          /\ ap' = [ap EXCEPT !.pc = "plugins"]
          /\ UNCHANGED <<live, core, desired, lock, faults>>
       \/ /\ ap.p \notin Native
          /\ live' = ap.p
          /\ ReloadOrStart(ap.p)
          /\ ap' = [ap EXCEPT !.pc = "plugins"]
          /\ UNCHANGED lock
       \/ /\ ap.p \notin Native          \* rename fails: early return
          /\ Fault("rename")
          /\ Release
          /\ UNCHANGED <<live, core, desired>>
    /\ UNCHANGED <<wvars, prof, bak, good, planes, rb, winNative, boot, applies,
                   reboots, hist>>

ApplyPlugins ==
    /\ ap.pc = "plugins"
    /\ plug' = ap.p
    /\ ap' = [ap EXCEPT !.pc = "plane"]
    /\ UNCHANGED <<wvars, prof, files, core, desired, kplane, pbrPlan, pbrBaseline,
                   plugBaseline, lock, rb, winNative, boot, bounds, hist>>

ApplyPlane ==
    /\ ap.pc = "plane"
    /\ \E err \in BOOLEAN :
          /\ ApplyPBR(PlanOf(ap.p), err)
          /\ ap' = [ap EXCEPT !.pbrErr = err,
                              !.pc = IF err /\ ~ap.save THEN "abort" ELSE "stop"]
    /\ UNCHANGED <<wvars, prof, files, core, desired, pbrBaseline, plug,
                   plugBaseline, lock, rb, winNative, boot, applies, reboots, hist>>

(* The kernel plane of a non-saved Apply failed: back to the baseline.     *)
ApplyAbort ==
    /\ ap.pc = "abort"
    /\ \/ RestoreOK /\ ReloadOrStart(bak)
       \/ /\ RestoreFails                    \* no rollback target: plain WAN
          /\ IF core # None THEN Stop ELSE UNCHANGED <<core, desired>>
    /\ RestorePBRBaseline
    /\ Release
    /\ stuck' = TRUE       \* the plugins stay on the failed profile
    /\ UNCHANGED <<wvars, prof, bak, good, pbrBaseline, plug, plugBaseline, rb,
                   winNative, boot, applies, reboots, pre, keep>>

(* A native-only Apply stops the core once the kernel plane is up. *)
DropsCore_NeverSaved == ap.p \in Native /\ ~ap.pbrErr /\ ~ap.save
DropsCore == ap.p \in Native /\ ~ap.pbrErr

ApplyStop ==
    /\ ap.pc = "stop"
    /\ IF DropsCore THEN Stop ELSE UNCHANGED <<core, desired>>
    /\ ap' = [ap EXCEPT !.pc = "finish"]
    /\ UNCHANGED <<wvars, prof, files, planes, lock, rb, winNative, boot, bounds, hist>>

(* Commit: the live config becomes .good. *)
Commit == good' = IF live = None THEN good ELSE live

ApplySave ==
    /\ ap.pc = "finish" /\ ap.save
    /\ Commit
    /\ WConfirm
    /\ keep' = live /\ stuck' = ap.pbrErr
    /\ Release
    /\ UNCHANGED <<prof, live, bak, core, desired, planes, rb, winNative, boot,
                   bounds, pre>>

(* armFailSafe does not wait for a rollback of the superseded window. *)
MayArm_WaitsForRollback == \A w \in Windows : auto[w] # "firing"
MayArm == TRUE

ApplyArm ==
    /\ ap.pc = "finish" /\ ~ap.save
    /\ MayArm
    /\ WArm
    /\ winNative' = [winNative EXCEPT ![epoch + 1] = ap.p \in Native]
    /\ stuck' = FALSE
    /\ Release
    /\ UNCHANGED <<prof, files, core, desired, planes, rb, boot, bounds, pre, keep>>

(* handleApplyConfirm takes no applyMu. *)
Confirm ==
    /\ Commit
    /\ WConfirm
    /\ UNCHANGED <<prof, live, bak, core, desired, planes, lock, ap, rb, winNative,
                   boot, bounds, hist>>
-----------------------------------------------------------------------------
(* The fail-safe manager.  A claimed rollback calls the closure, which     *)
(* waits for applyMu.                                                      *)
rest == <<prof, files, core, desired, planes, lock, ap, rb, winNative, boot, bounds>>

FailSafeStep ==
    /\ \/ WTick \/ WExpire
       \/ \E w \in Windows : WDecide(w) \/ WClaim(w) \/ WAutoMarks(w)
       \/ \E o \in Operators : WManualMarks(o)
    /\ UNCHANGED <<rest, hist>>

(* handleApplyRollback: the operator no longer insists on the saved config. *)
Rollback(o) ==
    /\ WRollbackNow(o)
    /\ keep' = None
    /\ UNCHANGED <<rest, pre, stuck>>

(* Who is inside a closure: the goroutine of window w, or operator o.      *)
Caller(w, o) == \/ o = None /\ auto[w] = "firing"
                \/ o # None /\ manual[o] = "firing" /\ target[o] = w

Returns(w, o, failed) ==
    IF o = None
      THEN WAutoReturns(w) /\ auto'[w] = (IF failed THEN "failed" ELSE "idle")
      ELSE WManualReturns(o) /\ manual'[o] = (IF failed THEN "failed" ELSE "idle")

(* The closure gets applyMu; a superseded window's closure gives up.       *)
Superseded(w) == w # epoch

RbSkip(w, o) ==
    /\ lock = "free" /\ Caller(w, o) /\ Superseded(w)
    /\ Returns(w, o, FALSE)
    /\ UNCHANGED <<rest, hist>>

RbBegin(w, o) ==
    /\ lock = "free" /\ Caller(w, o) /\ ~Superseded(w)
    /\ lock' = "rollback"
    /\ rb' = [pc |-> "core", w |-> w, op |-> o, err |-> FALSE]
    /\ UNCHANGED <<wvars, prof, files, core, desired, planes, ap, winNative, boot,
                   bounds, hist>>

(* The core: kept down if the window is native-only, else restored.        *)
RbCore ==
    /\ rb.pc = "core"
    /\ \/ /\ winNative[rb.w]
          /\ IF core # None THEN Stop ELSE UNCHANGED <<core, desired>>
          /\ rb' = [rb EXCEPT !.pc = "planes"]
          /\ UNCHANGED <<live, faults>>
       \/ /\ ~winNative[rb.w]
          /\ RestoreOK /\ ReloadOrStart(bak)
          /\ rb' = [rb EXCEPT !.pc = "planes", !.err = (core' = None)]
       \/ /\ ~winNative[rb.w]
          /\ RestoreFails
          /\ rb' = [rb EXCEPT !.pc = "planes", !.err = TRUE]
          /\ UNCHANGED <<core, desired>>
    /\ UNCHANGED <<wvars, prof, bak, good, planes, lock, ap, winNative, boot,
                   applies, reboots, hist>>

(* The kernel plane (best-effort), then the plugins; applyMu is released.  *)
PluginTarget_Skipped == plug
PluginTarget == plugBaseline

(* The rollback undoes an Apply & Save, or brings a core back over a        *)
(* native-only baseline (see SavedSticks and RollbackAvoidsBlackHole).      *)
Overreaches == keep # None \/ (pre.plug \in Native /\ ~winNative[rb.w])

RbPlanes ==
    /\ rb.pc = "planes"
    /\ RestorePBRBaseline
    /\ plug' = PluginTarget
    /\ Returns(rb.w, rb.op, rb.err)
    /\ lock' = "free" /\ rb' = RbIdle
    /\ stuck' = (rb.err \/ pre.stuck \/ Overreaches)
    /\ UNCHANGED <<prof, files, core, desired, pbrBaseline, plugBaseline, ap,
                   winNative, boot, bounds, pre, keep>>
-----------------------------------------------------------------------------
(* SyncPlugins at boot, in its own goroutine, without applyMu.             *)
BootRead ==
    /\ boot.pc = "read"
    /\ boot' = [pc |-> "plugins", p |-> prof]
    /\ UNCHANGED <<wvars, prof, files, core, desired, planes, lock, ap, rb,
                   winNative, bounds, hist>>

BootPlugins ==
    /\ boot.pc = "plugins"
    /\ plug' = boot.p
    /\ boot' = [boot EXCEPT !.pc = "plane"]
    /\ UNCHANGED <<wvars, prof, files, core, desired, kplane, pbrPlan, pbrBaseline,
                   plugBaseline, lock, ap, rb, winNative, bounds, hist>>

(* A plan is installed; without one a stale table is deleted, behind       *)
(* pbrPlan's back.                                                         *)
BootPlane ==
    /\ boot.pc = "plane"
    /\ \/ /\ PlanOf(boot.p) # None
          /\ \E err \in BOOLEAN :
                /\ ApplyPBR(PlanOf(boot.p), err)
                /\ boot' = [boot EXCEPT !.pc = IF boot.p \in Native /\ ~err
                                               THEN "stop" ELSE "done"]
       \/ /\ PlanOf(boot.p) = None
          /\ kplane' = None /\ UNCHANGED pbrPlan /\ NoFault
          /\ boot' = [boot EXCEPT !.pc = "done"]
    /\ UNCHANGED <<wvars, prof, files, core, desired, pbrBaseline, plug, plugBaseline,
                   lock, ap, rb, winNative, applies, reboots, hist>>

BootStop ==
    /\ boot.pc = "stop"
    /\ Stop
    /\ boot' = [boot EXCEPT !.pc = "done"]
    /\ UNCHANGED <<wvars, prof, files, planes, lock, ap, rb, winNative, bounds, hist>>

(* sing-box dies; the watchdog restarts a desired core on singbox.json.    *)
Crash ==
    /\ core # None
    /\ Fault("crash")
    /\ core' = None
    /\ UNCHANGED <<wvars, prof, files, desired, planes, lock, ap, rb, winNative,
                   boot, applies, reboots, hist>>

WatchdogRestart ==
    /\ desired /\ core = None
    /\ core' = live
    /\ UNCHANGED <<wvars, prof, files, desired, planes, lock, ap, rb, winNative,
                   boot, bounds, hist>>

(* Power cycle: files survive, the rest starts over (atomicfile: no torn   *)
(* file).                                                                  *)
Reboot ==
    /\ reboots < MaxReboots
    /\ reboots' = reboots + 1
    /\ epoch' = 0 /\ pending' = FALSE /\ phase' = "idle" /\ dispatched' = FALSE
    /\ auto' = [w \in Windows |-> "idle"]
    /\ manual' = [o \in Operators |-> "idle"]
    /\ target' = [o \in Operators |-> 0]
    /\ fired' = [w \in Windows |-> 0]
    /\ core' = Autostart(prof, live)
    /\ desired' = (core' # None)
    /\ kplane' = None /\ pbrPlan' = None /\ pbrBaseline' = None
    /\ plug' = None /\ plugBaseline' = None
    /\ lock' = "free" /\ ap' = Idle /\ rb' = RbIdle
    /\ winNative' = [w \in Windows |-> FALSE]
    /\ boot' = [pc |-> "read", p |-> None]
    /\ stuck' = (live # prof)
    /\ UNCHANGED <<prof, files, faults, applies, pre, keep>>

ApplyStep ==
    \/ \E save \in BOOLEAN : ApplyBegin(save)
    \/ ApplyReject \/ ApplySnapshot \/ ApplySwap \/ ApplyPlugins \/ ApplyPlane
    \/ ApplyAbort \/ ApplyStop \/ ApplySave \/ ApplyArm

Closure ==
    \/ \E w \in Windows, o \in Operators \cup {None} : RbSkip(w, o) \/ RbBegin(w, o)
    \/ RbCore \/ RbPlanes

BootSync == BootRead \/ BootPlugins \/ BootPlane \/ BootStop

Next ==
    \/ Edit \/ ApplyStep \/ Confirm \/ FailSafeStep
    \/ \E o \in Operators : Rollback(o)
    \/ Closure \/ BootSync \/ Crash \/ WatchdogRestart \/ Reboot

Spec == Init /\ [][Next]_vars

(* A request that holds applyMu runs on, a closure that waits for applyMu  *)
(* gets it in turn (Go mutexes do not starve), and the boot sync runs.     *)
FairSpec ==
    /\ Spec
    /\ WF_vars(ApplyStep /\ lock = "apply")
    /\ WF_vars(RbCore \/ RbPlanes)
    /\ \A w \in Windows, o \in Operators \cup {None} :
          SF_vars(RbSkip(w, o) \/ RbBegin(w, o))
    /\ WF_vars(BootSync)
-----------------------------------------------------------------------------
TypeOK ==
    /\ WTypeOK
    /\ prof \in Profiles
    /\ {live, bak, good, core, kplane, pbrPlan, pbrBaseline, plug, plugBaseline, keep}
         \subseteq Maybe
    /\ desired \in BOOLEAN
    /\ lock \in {"free", "apply", "rollback"}
    /\ ap \in [pc : {"idle", "check", "swap", "plugins", "plane", "abort", "stop", "finish"},
               save : BOOLEAN, p : Maybe, pbrErr : BOOLEAN]
    /\ rb \in [pc : {"idle", "core", "planes"}, w : 0..MaxArms,
               op : Operators \cup {None}, err : BOOLEAN]
    /\ winNative \in [Windows -> BOOLEAN]
    /\ boot \in [pc : {"read", "plugins", "plane", "stop", "done"}, p : Maybe]
    /\ {faults, applies, reboots} \subseteq Nat
    /\ pre \in [live : Maybe, desired : BOOLEAN, kplane : Maybe, plug : Maybe,
               stuck : BOOLEAN]
    /\ stuck \in BOOLEAN

(* The baseline is the user's, never an interim config: "A second apply     *)
(* while a window is still open must NOT overwrite the baseline with the    *)
(* interim config" (handleApply), so while a window is open .bak is what    *)
(* was live before the first Apply of the window; and "if a newer Apply     *)
(* superseded this window ... skip, or we'd restore a config the user just  *)
(* replaced" (rollback closure), so a closure that rewrites the planes is   *)
(* the current window's, whatever was armed while it waited for applyMu.    *)
BaselineKept ==
    /\ pending /\ lock = "free" => bak = pre.live
    /\ lock = "rollback" => rb.w = epoch

(* A rollback that reports success brings back all three planes as they    *)
(* were before the window: "so all three roll back together"               *)
(* (snapshotPluginBaseline, restorePBRBaseline, rollback closure).  The    *)
(* closure of a native-only Apply keeps the core down by design.           *)
RollbackRestores ==
    [][rb.pc = "planes" /\ rb'.pc = "idle" /\ ~rb.err /\ reboots' = reboots
       => /\ plug' = pre.plug
          /\ kplane' = pre.kplane
          /\ ~winNative[rb.w] => live' = pre.live /\ (pre.desired => desired')]_vars

(* Between requests the planes belong together: a running core is served   *)
(* by the plugins and the kernel plane of its own profile (handleApply:    *)
(* "never desync"), through faults, crashes, rollbacks and reboots.        *)
Coherent ==
    lock = "free" /\ boot.pc = "done" /\ core # None /\ ~stuck
    => plug = core /\ kplane = PlanOf(core)

(* A native-only profile is not left with a sing-box core over its kernel  *)
(* plane, nor with a watchdog that would start one ("capture-all TUN over  *)
(* the restored kernel plane is the exact black-hole", rollback closure).  *)
CoreOverNative == kplane \in Native /\ (core # None \/ desired)
NoCoreOverNative == lock = "free" /\ boot.pc = "done" /\ ~stuck => ~CoreOverNative

(* The same of every completed rollback, whatever kind of profile the       *)
(* window was opened over: "this window's nativeOnly verdict is the         *)
(* baseline's too" (rollback closure).                                      *)
RollbackAvoidsBlackHole ==
    [][rb.pc = "planes" /\ rb'.pc = "idle" /\ ~rb.err => ~CoreOverNative']_vars

(* An Apply & Save sticks: the saved config stays live until the user      *)
(* applies again or asks for a rollback (IsCurrent: "if a newer Apply has  *)
(* run ... a stale closure observes !IsCurrent and skips").                *)
SavedSticks == keep # None /\ lock = "free" => live = keep

(* "Apply is live-until-reboot unless you explicitly Save" (README): after  *)
(* a power cycle between two requests the core runs only a config the user  *)
(* saved or confirmed.                                                      *)
UnsavedGoneAfterReboot ==
    [][reboots' # reboots /\ lock = "free" => core' \in {None, good}]_vars

(* Every Apply and every started rollback completes: no cycle between      *)
(* applyMu and the fail-safe manager ("DEADLOCK-SAFE", rollback closure;   *)
(* Arm "deliberately does NOT wait").                                      *)
ApplyReturns ==
    /\ lock = "apply" ~> lock # "apply"
    /\ \A w \in Windows : auto[w] = "firing" ~> auto[w] # "firing"
=============================================================================
