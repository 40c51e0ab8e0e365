---------------------------- MODULE Apply_proofs ----------------------------
(***************************************************************************)
(* Proofs about Apply, for any profiles, windows, operators, applies,      *)
(* faults and power cycles.  Which faults a result excludes is said in its *)
(* statement: what those faults break is in the README.                    *)
(***************************************************************************)
EXTENDS Apply, TLAPS

(* First the abstract window machine alone: type correctness and fire-once, *)
(* for any number of windows and operators.                                 *)
LEMMA WInitInv == WInit => WTypeOK /\ FireInv
<1> SUFFICES ASSUME WInit
             PROVE  WTypeOK /\ FireInv
  OBVIOUS
<1>1. WTypeOK
  <2>1. 0 \in 0..MaxArms /\ 0 \in Nat
    BY MaxArmsAssumption
  <2>. QED
    BY <2>1, Zenon DEF WInit, WTypeOK, Phases, Call
<1>2. FireInv
  BY DEF WInit, FireInv, FireOnce
<1>. QED
  BY <1>1, <1>2

(* Every variable keeps its type, and FireInv is inductive: an invocation  *)
(* of rollback() (claimRollback, RollbackNow) happens in an opened window, *)
(* and in the current one only behind the dispatched flag.                 *)
LEMMA WStepInv == WTypeOK /\ FireInv /\ [WNext]_wvars => (WTypeOK /\ FireInv)'
<1> SUFFICES ASSUME WTypeOK, FireInv, [WNext]_wvars
             PROVE  WTypeOK' /\ FireInv'
  OBVIOUS
<1> USE MaxArmsAssumption DEF WTypeOK, FireInv, FireOnce
<1>1. CASE WArm
  <2>1. WTypeOK'
    <3>1. epoch + 1 \in 0..MaxArms
      BY <1>1 DEF WArm
    <3>. QED
      BY <1>1, <3>1, Zenon DEF WArm, Phases
  <2>2. epoch' = epoch + 1 /\ epoch' \in Windows /\ fired' = fired
    BY <1>1 DEF WArm, Windows
  <2>3. FireInv'
    BY <2>2 DEF Windows
  <2>. QED
    BY <2>1, <2>3
<1>2. CASE WTick \/ WExpire
  BY <1>2 DEF WTick, WExpire, Phases
<1>3. CASE WConfirm
  BY <1>3 DEF WConfirm, Phases
<1>4. ASSUME NEW w \in Windows, WClaim(w)
      PROVE  WTypeOK' /\ FireInv'
  <2>1. CASE w = epoch /\ ~dispatched
    <3>1. fired[w] = 0 /\ w > 0
      BY <2>1 DEF Windows
    <3>2. /\ UNCHANGED <<epoch, pending, phase, manual, target>>
          /\ dispatched' = TRUE
          /\ auto' = [auto EXCEPT ![w] = "firing"]
          /\ fired' = [fired EXCEPT ![w] = 1]
      <4>1. fired' = [fired EXCEPT ![w] = fired[w] + 1]
        BY <1>4, <2>1 DEF WClaim
      <4>. QED
        BY <1>4, <2>1, <3>1, <4>1 DEF WClaim
    <3>3. FireInv'
      BY <2>1, <3>2 DEF Windows
    <3>4. WTypeOK'
      BY <3>2 DEF Call
    <3>. QED
      BY <3>3, <3>4
  <2>2. CASE ~(w = epoch /\ ~dispatched)
    BY <1>4, <2>2 DEF WClaim, Call
  <2>. QED
    BY <2>1, <2>2
<1>11. ASSUME NEW w \in Windows, WDecide(w)
       PROVE  WTypeOK' /\ FireInv'
  BY <1>11 DEF WDecide, Call, Phases
<1>5. ASSUME NEW w \in Windows, WAutoReturns(w)
      PROVE  WTypeOK' /\ FireInv'
  BY <1>5 DEF WAutoReturns, Call
<1>6. ASSUME NEW w \in Windows, WAutoMarks(w)
      PROVE  WTypeOK' /\ FireInv'
  BY <1>6 DEF WAutoMarks, Call, Phases
<1>7. ASSUME NEW o \in Operators, WRollbackNow(o)
      PROVE  WTypeOK' /\ FireInv'
  <2>1. CASE dispatched \/ epoch = 0
    BY <1>7, <2>1 DEF WRollbackNow, Phases
  <2>2. CASE ~dispatched /\ epoch # 0
    <3>1. epoch \in Windows /\ fired[epoch] = 0
      BY <2>2 DEF Windows
    <3>2. /\ epoch' = epoch /\ pending' = FALSE /\ phase' = "rolled_back"
          /\ dispatched' = TRUE /\ auto' = auto
          /\ manual' = [manual EXCEPT ![o] = "firing"]
          /\ target' = [target EXCEPT ![o] = epoch]
          /\ fired' = [fired EXCEPT ![epoch] = 1]
      BY <1>7, <2>2, <3>1 DEF WRollbackNow
    <3>3. WTypeOK'
      BY <3>1, <3>2 DEF Phases, Call
    <3>4. FireInv'
      BY <3>1, <3>2 DEF Windows
    <3>. QED
      BY <3>3, <3>4
  <2>. QED
    BY <2>1, <2>2
<1>8. ASSUME NEW o \in Operators, WManualReturns(o)
      PROVE  WTypeOK' /\ FireInv'
  BY <1>8 DEF WManualReturns, Call
<1>9. ASSUME NEW o \in Operators, WManualMarks(o)
      PROVE  WTypeOK' /\ FireInv'
  BY <1>9 DEF WManualMarks, Call, Phases
<1>10. CASE UNCHANGED wvars
  BY <1>10 DEF wvars
<1>. QED
  BY <1>1, <1>2, <1>3, <1>4, <1>5, <1>6, <1>7, <1>8, <1>9, <1>10, <1>11 DEF WNext

LEMMA WInductive == WSpec => [](WTypeOK /\ FireInv)
  BY WInitInv, WStepInv, PTL DEF WSpec

(* The abstract machine is type correct (failsafe.go, the Manager struct). *)
THEOREM WTypeCorrect == WSpec => []WTypeOK
  BY WInductive, PTL

(* "Fire at most once per window even though rb() is invoked unlocked":    *)
(* claimRollback and RollbackNow never invoke one window's rollback twice. *)
THEOREM WFireOnce == WSpec => []FireOnce
<1>1. FireInv => FireOnce
  BY DEF FireInv
<1>. QED
  BY <1>1, WInductive, PTL
-----------------------------------------------------------------------------

(* handleApply is past its snapshot. *)
Snapped == {"swap", "plugins", "plane", "abort", "stop", "finish"}

(* Who holds applyMu is at work, and a rollback at work is the current      *)
(* window's: a window is only opened by a holder of applyMu.                *)
LockInv ==
    /\ lock = "apply" <=> ap.pc # "idle"
    /\ ap.pc # "idle" => ap.p \in Profiles
    /\ lock = "rollback" <=> rb.pc # "idle"
    /\ rb.pc # "idle" => rb.w = epoch /\ rb.w \in Windows
    /\ pending => epoch > 0

(* From the first snapshot on there is a baseline, and it is whole. *)
Based == epoch > 0 \/ ap.pc \in Snapped
FileInv ==
    /\ bak # None => live # None
    /\ Based => bak = pre.live

(* Without requests during the boot sync, the boot sync is alone, and the   *)
(* server knows what the kernel holds.                                      *)
BootInv ==
    /\ boot.pc # "done" => lock = "free" /\ epoch = 0
    /\ boot.pc \in {"read", "plugins", "plane"} => pbrPlan = None
    /\ kplane = pbrPlan

PlanesBased == Based => plugBaseline = pre.plug /\ pbrBaseline = pre.kplane

(* The core has been restored and the planes are next. *)
CoreRestored ==
    rb.pc = "planes" /\ ~rb.err /\ ~winNative[rb.w] => live = bak /\ desired

RollInv == FileInv /\ BootInv /\ PlanesBased /\ CoreRestored

(* Planes that belong together. *)
Aligned == live # None => plug = live /\ kplane = PlanOf(live)
PreAligned == pre.live # None => pre.plug = pre.live /\ pre.kplane = PlanOf(pre.live)

(* Without native-only profiles: how far the boot sync, an Apply and a      *)
(* rollback have brought the planes to the profile they are for.            *)
TogetherInv ==
    /\ \A w \in Windows : ~winNative[w]
    /\ ~ap.pbrErr
    /\ core \in {None, live}
    /\ boot.pc # "done" /\ ~stuck => live \in {None, prof}
    /\ boot.pc # "stop"
    /\ boot.pc \in {"plugins", "plane"} => boot.p = prof
    /\ boot.pc = "plane" => plug = prof
    /\ boot.pc = "done" /\ ~stuck /\ (lock = "free" \/ ap.pc \in {"check", "swap"}) => Aligned
    /\ ap.pc \in {"plugins", "plane", "abort", "stop", "finish"} => live = ap.p
    /\ ap.pc \in {"plane", "abort", "stop", "finish"} => plug = ap.p
    /\ ap.pc \in {"stop", "finish"} => kplane = PlanOf(ap.p)
    /\ Based /\ ~pre.stuck => PreAligned

-----------------------------------------------------------------------------
LEMMA ConstFacts == /\ Native \subseteq Planned /\ Planned \subseteq Profiles /\ None \notin Profiles
                    /\ MaxFaults \in Nat /\ MaxApplies \in Nat /\ MaxReboots \in Nat
                    /\ MaxArms \in Nat
  BY ApplyAssumption, MaxArmsAssumption

(* The window machine takes a step of its own, or starts over at a reboot. *)
LEMMA WindowStep == TypeOK /\ LockInv /\ Next => [WNext]_wvars \/ Reboot
<1> SUFFICES ASSUME TypeOK, LockInv, Next
             PROVE  [WNext]_wvars \/ Reboot
  OBVIOUS
<1> USE DEF rest, wvars
<1>1. ASSUME ApplyStep
      PROVE  [WNext]_wvars
  BY <1>1 DEF ApplyStep, ApplyBegin, ApplyReject, ApplySnapshot, ApplySwap, ApplyPlugins, ApplyPlane,
     ApplyAbort, ApplyStop, ApplySave, ApplyArm, WNext
<1>2. ASSUME Closure
      PROVE  [WNext]_wvars
  <2>1. ASSUME NEW w \in Windows, NEW o \in Operators \cup {None}, RbSkip(w, o) \/ RbBegin(w, o)
        PROVE  [WNext]_wvars
    BY <2>1, Zenon DEF RbSkip, RbBegin, Returns, WNext
  <2>2. ASSUME RbPlanes
        PROVE  WNext
    <3>1. rb.w \in Windows /\ rb.op \in Operators \cup {None}
      BY <2>2 DEF RbPlanes, TypeOK, LockInv
    <3>. QED
      BY <2>2, <3>1, Zenon DEF RbPlanes, Returns, WNext
  <2>. QED
    BY <1>2, <2>1, <2>2 DEF Closure, RbCore
<1>3. ASSUME BootSync \/ Edit \/ Crash \/ WatchdogRestart
      PROVE  UNCHANGED wvars
  BY <1>3 DEF BootSync, BootRead, BootPlugins, BootPlane, BootStop, Edit, Crash, WatchdogRestart
<1>4. ASSUME Confirm \/ FailSafeStep \/ \E o \in Operators : Rollback(o)
      PROVE  WNext
  BY <1>4, Zenon DEF Confirm, FailSafeStep, Rollback, WNext
<1>. QED
  BY <1>1, <1>2, <1>3, <1>4 DEF Next

ApType == [pc : {"idle", "check", "swap", "plugins", "plane", "abort", "stop", "finish"},
           save : BOOLEAN, p : Maybe, pbrErr : BOOLEAN]
RbType == [pc : {"idle", "core", "planes"}, w : 0..MaxArms,
           op : Operators \cup {None}, err : BOOLEAN]
PreType == [live : Maybe, desired : BOOLEAN, kplane : Maybe, plug : Maybe, stuck : BOOLEAN]

(* Starting, reloading and stopping the core keep its fields well-formed. *)
LEMMA ReloadTyped ==
    ASSUME desired \in BOOLEAN, faults \in Nat, NEW c \in Maybe,
           ReloadOrStart(c)
    PROVE  core' \in Maybe /\ desired' \in BOOLEAN /\ faults' \in Nat
<1>1. desired' \in BOOLEAN
  BY Zenon DEF ReloadOrStart, ReloadOn, StartOn
<1>. QED
  BY <1>1 DEF ReloadOrStart, ReloadOn, StartOn, Maybe, Fault, NoFault

LEMMA StopTyped == Stop => core' \in Maybe /\ desired' \in BOOLEAN
<1>1. Stop => desired' \in BOOLEAN
  BY Zenon DEF Stop
<1>. QED
  BY <1>1 DEF Stop, Maybe

LEMMA MembershipTyped == ASSUME NEW S, NEW x PROVE (x \in S) \in BOOLEAN
  BY SMT

LEMMA TypeInit == Init => TypeOK
<1> SUFFICES ASSUME Init
             PROVE  TypeOK
  OBVIOUS
<1>1. WTypeOK
  BY WInitInv DEF Init
<1>2. live \in Maybe /\ core \in Maybe
  BY ConstFacts DEF Init, Autostart, Maybe
<1>3. desired \in BOOLEAN /\ stuck \in BOOLEAN /\ winNative \in [Windows -> BOOLEAN]
  BY Zenon DEF Init
<1>4. ap \in ApType /\ rb \in RbType
  BY ConstFacts DEF Init, Idle, RbIdle, ApType, RbType, Maybe
<1>5. pre \in PreType
  BY <1>2, <1>3, ConstFacts DEF Init, Standing, PreType, Maybe
<1>. QED
  BY <1>1, <1>2, <1>3, <1>4, <1>5, ConstFacts DEF Init, TypeOK, Maybe, ApType, RbType, PreType

(* Every step keeps the fields of the server well-formed. *)
LEMMA TypeStep == TypeOK /\ [Next]_vars /\ WTypeOK' => TypeOK'
<1> SUFFICES ASSUME TypeOK, [Next]_vars, WTypeOK'
             PROVE  TypeOK'
  OBVIOUS
<1> USE ConstFacts DEF TypeOK, WTypeOK, files, planes, bounds, hist, rest, wvars, Maybe
<1>1. CASE Edit
  BY <1>1 DEF Edit
<1>2. ASSUME NEW save \in BOOLEAN, ApplyBegin(save)
      PROVE  TypeOK'
  BY <1>2 DEF ApplyBegin, Idle
<1>3. CASE ApplyReject
  BY <1>3 DEF ApplyReject, Release, Idle, Fault
<1>4. CASE ApplySnapshot
  BY <1>4 DEF ApplySnapshot, TakesBaseline, Backup, NoFault, Fault, Standing
<1>5. CASE ApplySwap
  <2>1. CASE ap.p \in Native
    <3>1. ap' = [ap EXCEPT !.pc = "plugins"] /\ UNCHANGED <<live, core, desired, lock, faults>>
      BY <1>5, <2>1 DEF ApplySwap
    <3>. QED
      BY <1>5, <3>1 DEF ApplySwap
  <2>2. CASE live' = ap.p /\ ReloadOrStart(ap.p) /\ ap' = [ap EXCEPT !.pc = "plugins"] /\ UNCHANGED lock
    <3>1. core' \in Maybe /\ desired' \in BOOLEAN /\ faults' \in Nat
      BY <2>2, ReloadTyped
    <3>2. live' \in Maybe
      BY <2>2
    <3>. QED
      BY <1>5, <2>2, <3>1, <3>2 DEF ApplySwap
  <2>3. CASE Fault("rename") /\ Release /\ UNCHANGED <<live, core, desired>>
    BY <1>5, <2>3 DEF ApplySwap, Fault, Release, Idle
  <2>. QED
    BY <1>5, <2>1, <2>2, <2>3, Zenon DEF ApplySwap
<1>6. CASE ApplyPlugins
  BY <1>6 DEF ApplyPlugins
<1>7. CASE ApplyPlane
  <2>1. PICK err \in BOOLEAN :
           /\ ApplyPBR(PlanOf(ap.p), err)
           /\ ap' = [ap EXCEPT !.pbrErr = err,
                               !.pc = IF err /\ ~ap.save THEN "abort" ELSE "stop"]
    BY <1>7, Zenon DEF ApplyPlane
  <2>2. kplane' \in Maybe /\ pbrPlan' \in Maybe /\ faults' \in Nat
    BY <2>1 DEF ApplyPBR, NoFault, Fault, PlanOf
  <2>3. ap' \in ApType
    BY <2>1 DEF ApType
  <2>. QED
    BY <1>7, <2>2, <2>3 DEF ApplyPlane, ApType
<1>8. CASE ApplyAbort
  <2>1. core' \in Maybe /\ desired' \in BOOLEAN /\ faults' \in Nat /\ live' \in Maybe
    <3>1. CASE RestoreOK /\ ReloadOrStart(bak)
      BY <3>1, ReloadTyped DEF RestoreOK
    <3>2. CASE RestoreFails /\ IF core # None THEN Stop ELSE UNCHANGED <<core, desired>>
      BY <3>2, StopTyped DEF RestoreFails, NoFault, Fault
    <3>. QED
      BY <1>8, <3>1, <3>2 DEF ApplyAbort
  <2>2. kplane' \in Maybe /\ pbrPlan' \in Maybe
    BY <1>8 DEF ApplyAbort, RestorePBRBaseline
  <2>3. stuck' \in BOOLEAN
    BY <1>8, Zenon DEF ApplyAbort
  <2>4. ap' \in ApType /\ lock' = "free"
    BY <1>8 DEF ApplyAbort, Release, Idle, ApType
  <2>. QED
    BY <1>8, <2>1, <2>2, <2>3, <2>4 DEF ApplyAbort, ApType
<1>9. CASE ApplyStop
  <2>1. core' \in Maybe /\ desired' \in BOOLEAN
    BY <1>9, StopTyped DEF ApplyStop
  <2>. QED
    BY <1>9, <2>1 DEF ApplyStop
<1>10. CASE ApplySave
  BY <1>10 DEF ApplySave, Commit, WConfirm, Release, Idle
<1>11. CASE ApplyArm
  <2>1. stuck' \in BOOLEAN
    BY <1>11, Zenon DEF ApplyArm
  <2>2. winNative' \in [Windows -> BOOLEAN]
    <3> DEFINE n == ap.p \in Native
    <3>1. n \in BOOLEAN
      BY MembershipTyped, Zenon
    <3>2. winNative' = [winNative EXCEPT ![epoch + 1] = n]
      BY <1>11, Zenon DEF ApplyArm
    <3> HIDE DEF n
    <3>. QED
      BY <3>1, <3>2
  <2>. QED
    BY <1>11, <2>1, <2>2 DEF ApplyArm, Release, Idle
<1>12. CASE Confirm
  BY <1>12 DEF Confirm, Commit, WConfirm
<1>13. CASE FailSafeStep
  BY <1>13 DEF FailSafeStep, WTick, WExpire, WDecide, WClaim, WAutoMarks, WManualMarks
<1>14. ASSUME NEW o \in Operators, Rollback(o)
      PROVE  TypeOK'
  BY <1>14 DEF Rollback, WRollbackNow
<1>15. ASSUME NEW w \in Windows, NEW o \in Operators \cup {None}, RbSkip(w, o)
      PROVE  TypeOK'
  BY <1>15 DEF RbSkip, Returns, WAutoReturns, WManualReturns
<1>16. ASSUME NEW w \in Windows, NEW o \in Operators \cup {None}, RbBegin(w, o)
      PROVE  TypeOK'
  BY <1>16 DEF RbBegin, Superseded
<1>17. CASE RbCore
  <2>0. UNCHANGED <<wvars, prof, bak, good, planes, lock, ap, winNative, boot, applies, reboots, hist>>
    BY <1>17, Zenon DEF RbCore
  <2>1. CASE /\ IF core # None THEN Stop ELSE UNCHANGED <<core, desired>>
             /\ rb' = [rb EXCEPT !.pc = "planes"]
             /\ UNCHANGED <<live, faults>>
    <3>1. core' \in Maybe /\ desired' \in BOOLEAN
      BY <2>1, StopTyped
    <3>. QED
      <4>1. rb' \in RbType
        BY <2>1 DEF RbType
      <4>. QED
        BY <2>0, <2>1, <3>1, <4>1 DEF RbType
  <2>2. CASE /\ RestoreOK /\ ReloadOrStart(bak)
             /\ rb' = [rb EXCEPT !.pc = "planes", !.err = (core' = None)]
    <3>1. core' \in Maybe /\ desired' \in BOOLEAN /\ faults' \in Nat
      BY <2>2, ReloadTyped
    <3>2. live' \in Maybe
      BY <2>2 DEF RestoreOK
    <3>3. (core' = None) \in BOOLEAN
      BY Zenon
    <3>4. rb' \in RbType
      BY <2>2, <3>3 DEF RbType
    <3>. QED
      BY <2>0, <3>1, <3>2, <3>4 DEF RbType
  <2>3. CASE /\ RestoreFails
             /\ rb' = [rb EXCEPT !.pc = "planes", !.err = TRUE]
             /\ UNCHANGED <<core, desired>>
    <3>1. rb' \in RbType
      BY <2>3 DEF RbType
    <3>2. faults' \in Nat /\ live' \in Maybe
      BY <2>3 DEF RestoreFails, NoFault, Fault
    <3>. QED
      BY <2>0, <2>3, <3>1, <3>2 DEF RbType
  <2>. QED
    BY <1>17, <2>1, <2>2, <2>3, Zenon DEF RbCore
<1>18. CASE RbPlanes
  BY <1>18 DEF RbPlanes, RestorePBRBaseline, PluginTarget, Returns, WAutoReturns, WManualReturns, RbIdle
<1>19. CASE BootRead
  BY <1>19 DEF BootRead
<1>20. CASE BootPlugins
  BY <1>20 DEF BootPlugins
<1>21. CASE BootPlane
  BY <1>21 DEF BootPlane, ApplyPBR, NoFault, Fault, PlanOf
<1>22. CASE BootStop
  BY <1>22, StopTyped DEF BootStop
<1>23. CASE Crash
  BY <1>23 DEF Crash, Fault
<1>24. CASE WatchdogRestart
  BY <1>24 DEF WatchdogRestart
<1>25. CASE Reboot
  BY <1>25 DEF Reboot, Autostart, Idle, RbIdle
<1>26. CASE UNCHANGED vars
  BY <1>26 DEF vars
<1>. QED
  BY <1>1, <1>2, <1>3, <1>4, <1>5, <1>6, <1>7, <1>8, <1>9, <1>10, <1>11, <1>12, <1>13, <1>14, <1>15, <1>16, <1>17, <1>18, <1>19, <1>20, <1>21, <1>22, <1>23, <1>24, <1>25, <1>26 DEF Next, ApplyStep, Closure, BootSync
(* Only the holder of applyMu lets it go, and only handleApply opens a window. *)
LEMMA LockStep ==
    ASSUME TypeOK, LockInv, [Next]_vars
    PROVE  LockInv'
<1> USE ConstFacts DEF TypeOK, WTypeOK, LockInv, planes, bounds, hist, rest, wvars, Windows
<1>1. CASE Edit
  BY <1>1 DEF Edit
<1>2. ASSUME NEW save \in BOOLEAN, ApplyBegin(save)
      PROVE  LockInv'
  BY <1>2 DEF ApplyBegin
<1>3. CASE ApplyReject
  BY <1>3 DEF ApplyReject, Release, Idle, Fault
<1>4. CASE ApplySnapshot
  BY <1>4 DEF ApplySnapshot, TakesBaseline, Backup, NoFault, Fault, Standing
<1>5. CASE ApplySwap
  <2>1. CASE ap' = [ap EXCEPT !.pc = "plugins"] /\ UNCHANGED lock
    BY <1>5, <2>1 DEF ApplySwap
  <2>2. CASE Release
    BY <1>5, <2>2 DEF ApplySwap, Release, Idle
  <2>. QED
    BY <1>5, <2>1, <2>2 DEF ApplySwap
<1>6. CASE ApplyPlugins
  BY <1>6 DEF ApplyPlugins
<1>7. CASE ApplyPlane
  BY <1>7 DEF ApplyPlane, ApplyPBR, NoFault, Fault
<1>8. CASE ApplyAbort
  BY <1>8 DEF ApplyAbort, Release, Idle, RestoreOK, RestoreFails, ReloadOrStart, ReloadOn,
     StartOn, Stop, NoFault, Fault, RestorePBRBaseline
<1>9. CASE ApplyStop
  BY <1>9 DEF ApplyStop, DropsCore, Stop
<1>10. CASE ApplySave
  BY <1>10 DEF ApplySave, Commit, WConfirm, Release, Idle
<1>11. CASE ApplyArm
  BY <1>11 DEF ApplyArm, WArm, Release, Idle
<1>12. CASE Confirm
  BY <1>12 DEF Confirm, Commit, WConfirm
<1>13. CASE FailSafeStep
  BY <1>13 DEF FailSafeStep, WTick, WExpire, WDecide, WClaim, WAutoMarks, WManualMarks
<1>14. ASSUME NEW o \in Operators, Rollback(o)
      PROVE  LockInv'
  BY <1>14 DEF Rollback, WRollbackNow
<1>15. ASSUME NEW w \in Windows, NEW o \in Operators \cup {None}, RbSkip(w, o)
      PROVE  LockInv'
  BY <1>15 DEF RbSkip, Returns, WAutoReturns, WManualReturns
<1>16. ASSUME NEW w \in Windows, NEW o \in Operators \cup {None}, RbBegin(w, o)
      PROVE  LockInv'
  BY <1>16 DEF RbBegin, Superseded
<1>17. CASE RbCore
  BY <1>17 DEF RbCore, RestoreOK, RestoreFails, ReloadOrStart, ReloadOn, StartOn, Stop, NoFault,
     Fault
<1>18. CASE RbPlanes
  BY <1>18 DEF RbPlanes, RestorePBRBaseline, PluginTarget, Returns, WAutoReturns,
     WManualReturns, RbIdle
<1>19. CASE BootRead
  BY <1>19 DEF BootRead
<1>20. CASE BootPlugins
  BY <1>20 DEF BootPlugins
<1>21. CASE BootPlane
  BY <1>21 DEF BootPlane, ApplyPBR, NoFault, Fault
<1>22. CASE BootStop
  BY <1>22 DEF BootStop, Stop
<1>23. CASE Crash
  BY <1>23 DEF Crash, Fault
<1>24. CASE WatchdogRestart
  BY <1>24 DEF WatchdogRestart
<1>25. CASE Reboot
  BY <1>25 DEF Reboot, Idle, RbIdle
<1>26. CASE UNCHANGED vars
  BY <1>26 DEF vars
<1>. QED
  BY <1>1, <1>2, <1>3, <1>4, <1>5, <1>6, <1>7, <1>8, <1>9, <1>10, <1>11, <1>12, <1>13, <1>14,
     <1>15, <1>16, <1>17, <1>18, <1>19, <1>20, <1>21, <1>22, <1>23, <1>24, <1>25, <1>26 DEF
     Next, ApplyStep, Closure, BootSync

(* The snapshot that opens a window saves what is live; nothing else writes *)
(* .bak, and what replaces the live config is never None.                   *)
LEMMA FileStep ==
    ASSUME "backup" \notin Faults, TypeOK, LockInv, FileInv, [Next]_vars
    PROVE  FileInv'
<1> USE ConstFacts DEF TypeOK, WTypeOK, LockInv, FileInv, Based, Snapped, files, planes, bounds, hist, rest, wvars, Maybe
<1>1. CASE Edit
  BY <1>1 DEF Edit
<1>2. ASSUME NEW save \in BOOLEAN, ApplyBegin(save)
      PROVE  FileInv'
  BY <1>2 DEF ApplyBegin
<1>3. CASE ApplyReject
  BY <1>3 DEF ApplyReject, Release, Idle, Fault
<1>4. CASE ApplySnapshot
  BY <1>4 DEF ApplySnapshot, TakesBaseline, Backup, NoFault, Fault, Standing
<1>5. CASE ApplySwap
  BY <1>5 DEF ApplySwap, Release, Idle, Fault, NoFault, ReloadOrStart, ReloadOn, StartOn
<1>6. CASE ApplyPlugins
  BY <1>6 DEF ApplyPlugins
<1>7. CASE ApplyPlane
  BY <1>7 DEF ApplyPlane, ApplyPBR, NoFault, Fault
<1>8. CASE ApplyAbort
  BY <1>8 DEF ApplyAbort, Release, Idle, RestoreOK, RestoreFails, ReloadOrStart, ReloadOn,
     StartOn, Stop, NoFault, Fault, RestorePBRBaseline
<1>9. CASE ApplyStop
  BY <1>9 DEF ApplyStop, DropsCore, Stop
<1>10. CASE ApplySave
  BY <1>10 DEF ApplySave, Commit, WConfirm, Release, Idle
<1>11. CASE ApplyArm
  BY <1>11 DEF ApplyArm, WArm, Release, Idle
<1>12. CASE Confirm
  BY <1>12 DEF Confirm, Commit, WConfirm
<1>13. CASE FailSafeStep
  BY <1>13 DEF FailSafeStep, WTick, WExpire, WDecide, WClaim, WAutoMarks, WManualMarks
<1>14. ASSUME NEW o \in Operators, Rollback(o)
      PROVE  FileInv'
  BY <1>14 DEF Rollback, WRollbackNow
<1>15. ASSUME NEW w \in Windows, NEW o \in Operators \cup {None}, RbSkip(w, o)
      PROVE  FileInv'
  BY <1>15 DEF RbSkip, Returns, WAutoReturns, WManualReturns
<1>16. ASSUME NEW w \in Windows, NEW o \in Operators \cup {None}, RbBegin(w, o)
      PROVE  FileInv'
  BY <1>16 DEF RbBegin, Superseded
<1>17. CASE RbCore
  BY <1>17 DEF RbCore, RestoreOK, RestoreFails, ReloadOrStart, ReloadOn, StartOn, Stop, NoFault,
     Fault
<1>18. CASE RbPlanes
  BY <1>18 DEF RbPlanes, RestorePBRBaseline, PluginTarget, Returns, WAutoReturns,
     WManualReturns, RbIdle
<1>19. CASE BootRead
  BY <1>19 DEF BootRead
<1>20. CASE BootPlugins
  BY <1>20 DEF BootPlugins
<1>21. CASE BootPlane
  BY <1>21 DEF BootPlane, ApplyPBR, NoFault, Fault
<1>22. CASE BootStop
  BY <1>22 DEF BootStop, Stop
<1>23. CASE Crash
  BY <1>23 DEF Crash, Fault
<1>24. CASE WatchdogRestart
  BY <1>24 DEF WatchdogRestart
<1>25. CASE Reboot
  BY <1>25 DEF Reboot, Idle, RbIdle
<1>26. CASE UNCHANGED vars
  BY <1>26 DEF vars
<1>. QED
  BY <1>1, <1>2, <1>3, <1>4, <1>5, <1>6, <1>7, <1>8, <1>9, <1>10, <1>11, <1>12, <1>13, <1>14,
     <1>15, <1>16, <1>17, <1>18, <1>19, <1>20, <1>21, <1>22, <1>23, <1>24, <1>25, <1>26 DEF
     Next, ApplyStep, Closure, BootSync

(* The window machine starts over at a reboot, and takes its own steps      *)
(* otherwise: what is proved of it holds inside the server.                 *)
LEMMA WindowInside == TypeOK /\ LockInv /\ FireInv /\ [Next]_vars => (WTypeOK /\ FireInv)'
<1> SUFFICES ASSUME TypeOK, LockInv, FireInv, [Next]_vars
             PROVE  (WTypeOK /\ FireInv)'
  OBVIOUS
<1>1. CASE Reboot
  <2>1. WInit'
    BY <1>1 DEF Reboot, WInit
  <2>. QED
    BY <2>1, WInitInv, PTL
<1>2. CASE [WNext]_wvars
  BY <1>2, WStepInv DEF TypeOK
<1>. QED
  BY <1>1, <1>2, WindowStep DEF vars, wvars

(* What the server guarantees whatever fails. *)
ServerInv == TypeOK /\ LockInv /\ FireInv

LEMMA ServerInductive == Spec => []ServerInv
<1>1. Init => ServerInv
  <2>1. Init => LockInv
    BY DEF Init, WInit, LockInv, Idle, RbIdle
  <2>. QED
    BY <2>1, TypeInit, WInitInv DEF Init, ServerInv
<1>2. ServerInv /\ [Next]_vars => ServerInv'
  BY TypeStep, LockStep, WindowInside DEF ServerInv
<1>. QED
  BY <1>1, <1>2, PTL DEF Spec

(* Every field of the server keeps its type, whatever fails and in whatever  *)
(* order requests, the boot sync, the fail-safe manager, the watchdog and    *)
(* power cycles interleave.                                                  *)
THEOREM ApplyTyped == Spec => []TypeOK
  BY ServerInductive, PTL DEF ServerInv

(* The fail-safe manager keeps its promise inside the server: whatever the   *)
(* Applies, confirms, rollbacks and power cycles, rollback() of one window   *)
(* is invoked at most once.                                                  *)
THEOREM ApplyFiresOnce == Spec => []FireOnce
<1>1. ServerInv => FireOnce
  BY DEF ServerInv, FireInv
<1>. QED
  BY <1>1, ServerInductive, PTL

(* A closure that holds applyMu is the current window's: a rollback never    *)
(* restores over a newer Apply (rollback closure: "skip, or we'd restore a   *)
(* config the user just replaced"), whatever fails.                          *)
THEOREM RollbackIsCurrent == Spec => [](lock = "rollback" => rb.w = epoch)
<1>1. ServerInv => (lock = "rollback" => rb.w = epoch)
  BY DEF ServerInv, LockInv
<1>. QED
  BY <1>1, ServerInductive, PTL

(* The baseline is the user's (BaselineKept), with any interleaving of       *)
(* requests with the boot sync, any profiles and any failure except that of  *)
(* the backup copy itself, which the code only logs.                         *)
THEOREM ApplyKeepsBaseline ==
    ASSUME "backup" \notin Faults
    PROVE  Spec => []BaselineKept
<1>1. Init => FileInv
  BY ConstFacts DEF Init, WInit, FileInv, Based, Snapped, Idle
<1>2. ServerInv /\ FileInv /\ [Next]_vars => FileInv'
  BY FileStep DEF ServerInv
<1>3. ServerInv /\ FileInv => BaselineKept
  BY DEF ServerInv, LockInv, FileInv, Based, BaselineKept
<1>. QED
  BY <1>1, <1>2, <1>3, ServerInductive, PTL DEF Spec

(* Without requests during it, the boot sync works on an idle server, and   *)
(* pbrPlan is what the kernel holds.                                        *)
LEMMA BootStep ==
    ASSUME BootRace = FALSE, TypeOK, LockInv, BootInv, [Next]_vars
    PROVE  BootInv'
<1> USE ConstFacts DEF TypeOK, WTypeOK, LockInv, BootInv, files, planes, bounds, hist, rest, wvars, Windows
<1>1. CASE Edit
  BY <1>1 DEF Edit
<1>2. ASSUME NEW save \in BOOLEAN, ApplyBegin(save)
      PROVE  BootInv'
  BY <1>2 DEF ApplyBegin
<1>3. CASE ApplyReject
  BY <1>3 DEF ApplyReject, Release, Idle, Fault
<1>4. CASE ApplySnapshot
  BY <1>4 DEF ApplySnapshot, TakesBaseline, Backup, NoFault, Fault, Standing
<1>5. CASE ApplySwap
  BY <1>5 DEF ApplySwap, Release, Idle, Fault, NoFault, ReloadOrStart, ReloadOn, StartOn
<1>6. CASE ApplyPlugins
  BY <1>6 DEF ApplyPlugins
<1>7. CASE ApplyPlane
  BY <1>7 DEF ApplyPlane, ApplyPBR, NoFault, Fault
<1>8. CASE ApplyAbort
  BY <1>8 DEF ApplyAbort, Release, Idle, RestoreOK, RestoreFails, ReloadOrStart, ReloadOn,
     StartOn, Stop, NoFault, Fault, RestorePBRBaseline
<1>9. CASE ApplyStop
  BY <1>9 DEF ApplyStop, DropsCore, Stop
<1>10. CASE ApplySave
  BY <1>10 DEF ApplySave, Commit, WConfirm, Release, Idle
<1>11. CASE ApplyArm
  BY <1>11 DEF ApplyArm, WArm, Release, Idle
<1>12. CASE Confirm
  BY <1>12 DEF Confirm, Commit, WConfirm
<1>13. CASE FailSafeStep
  BY <1>13 DEF FailSafeStep, WTick, WExpire, WDecide, WClaim, WAutoMarks, WManualMarks
<1>14. ASSUME NEW o \in Operators, Rollback(o)
      PROVE  BootInv'
  BY <1>14 DEF Rollback, WRollbackNow
<1>15. ASSUME NEW w \in Windows, NEW o \in Operators \cup {None}, RbSkip(w, o)
      PROVE  BootInv'
  BY <1>15 DEF RbSkip, Returns, WAutoReturns, WManualReturns
<1>16. ASSUME NEW w \in Windows, NEW o \in Operators \cup {None}, RbBegin(w, o)
      PROVE  BootInv'
  BY <1>16 DEF RbBegin, Superseded
<1>17. CASE RbCore
  BY <1>17 DEF RbCore, RestoreOK, RestoreFails, ReloadOrStart, ReloadOn, StartOn, Stop, NoFault,
     Fault
<1>18. CASE RbPlanes
  BY <1>18 DEF RbPlanes, RestorePBRBaseline, PluginTarget, Returns, WAutoReturns,
     WManualReturns, RbIdle
<1>19. CASE BootRead
  BY <1>19 DEF BootRead
<1>20. CASE BootPlugins
  BY <1>20 DEF BootPlugins
<1>21. CASE BootPlane
  BY <1>21 DEF BootPlane, ApplyPBR, NoFault, Fault
<1>22. CASE BootStop
  BY <1>22 DEF BootStop, Stop
<1>23. CASE Crash
  BY <1>23 DEF Crash, Fault
<1>24. CASE WatchdogRestart
  BY <1>24 DEF WatchdogRestart
<1>25. CASE Reboot
  BY <1>25 DEF Reboot, Idle, RbIdle
<1>26. CASE UNCHANGED vars
  BY <1>26 DEF vars
<1>. QED
  BY <1>1, <1>2, <1>3, <1>4, <1>5, <1>6, <1>7, <1>8, <1>9, <1>10, <1>11, <1>12, <1>13, <1>14,
     <1>15, <1>16, <1>17, <1>18, <1>19, <1>20, <1>21, <1>22, <1>23, <1>24, <1>25, <1>26 DEF
     Next, ApplyStep, Closure, BootSync

(* The snapshot that opens a window records the planes it finds. *)
LEMMA PlanesStep ==
    ASSUME BootRace = FALSE, TypeOK, LockInv, BootInv, PlanesBased, [Next]_vars
    PROVE  PlanesBased'
<1> USE ConstFacts DEF TypeOK, WTypeOK, LockInv, BootInv, files, planes, bounds, hist, rest, wvars, Windows, PlanesBased, Based, Snapped
<1>1. CASE Edit
  BY <1>1 DEF Edit
<1>2. ASSUME NEW save \in BOOLEAN, ApplyBegin(save)
      PROVE  PlanesBased'
  BY <1>2 DEF ApplyBegin
<1>3. CASE ApplyReject
  BY <1>3 DEF ApplyReject, Release, Idle, Fault
<1>4. CASE ApplySnapshot
  BY <1>4 DEF ApplySnapshot, TakesBaseline, Backup, NoFault, Fault, Standing
<1>5. CASE ApplySwap
  BY <1>5 DEF ApplySwap, Release, Idle, Fault, NoFault, ReloadOrStart, ReloadOn, StartOn
<1>6. CASE ApplyPlugins
  BY <1>6 DEF ApplyPlugins
<1>7. CASE ApplyPlane
  BY <1>7 DEF ApplyPlane, ApplyPBR, NoFault, Fault
<1>8. CASE ApplyAbort
  BY <1>8 DEF ApplyAbort, Release, Idle, RestoreOK, RestoreFails, ReloadOrStart, ReloadOn,
     StartOn, Stop, NoFault, Fault, RestorePBRBaseline
<1>9. CASE ApplyStop
  BY <1>9 DEF ApplyStop, DropsCore, Stop
<1>10. CASE ApplySave
  BY <1>10 DEF ApplySave, Commit, WConfirm, Release, Idle
<1>11. CASE ApplyArm
  BY <1>11 DEF ApplyArm, WArm, Release, Idle
<1>12. CASE Confirm
  BY <1>12 DEF Confirm, Commit, WConfirm
<1>13. CASE FailSafeStep
  BY <1>13 DEF FailSafeStep, WTick, WExpire, WDecide, WClaim, WAutoMarks, WManualMarks
<1>14. ASSUME NEW o \in Operators, Rollback(o)
      PROVE  PlanesBased'
  BY <1>14 DEF Rollback, WRollbackNow
<1>15. ASSUME NEW w \in Windows, NEW o \in Operators \cup {None}, RbSkip(w, o)
      PROVE  PlanesBased'
  BY <1>15 DEF RbSkip, Returns, WAutoReturns, WManualReturns
<1>16. ASSUME NEW w \in Windows, NEW o \in Operators \cup {None}, RbBegin(w, o)
      PROVE  PlanesBased'
  BY <1>16 DEF RbBegin, Superseded
<1>17. CASE RbCore
  BY <1>17 DEF RbCore, RestoreOK, RestoreFails, ReloadOrStart, ReloadOn, StartOn, Stop, NoFault,
     Fault
<1>18. CASE RbPlanes
  BY <1>18 DEF RbPlanes, RestorePBRBaseline, PluginTarget, Returns, WAutoReturns,
     WManualReturns, RbIdle
<1>19. CASE BootRead
  BY <1>19 DEF BootRead
<1>20. CASE BootPlugins
  BY <1>20 DEF BootPlugins
<1>21. CASE BootPlane
  BY <1>21 DEF BootPlane, ApplyPBR, NoFault, Fault
<1>22. CASE BootStop
  BY <1>22 DEF BootStop, Stop
<1>23. CASE Crash
  BY <1>23 DEF Crash, Fault
<1>24. CASE WatchdogRestart
  BY <1>24 DEF WatchdogRestart
<1>25. CASE Reboot
  BY <1>25 DEF Reboot, Idle, RbIdle
<1>26. CASE UNCHANGED vars
  BY <1>26 DEF vars
<1>. QED
  BY <1>1, <1>2, <1>3, <1>4, <1>5, <1>6, <1>7, <1>8, <1>9, <1>10, <1>11, <1>12, <1>13, <1>14,
     <1>15, <1>16, <1>17, <1>18, <1>19, <1>20, <1>21, <1>22, <1>23, <1>24, <1>25, <1>26 DEF
     Next, ApplyStep, Closure, BootSync

(* Between the two halves of a rollback nobody moves the restored core. *)
LEMMA RestoredStep ==
    ASSUME TypeOK, LockInv, BootInv, CoreRestored, [Next]_vars
    PROVE  CoreRestored'
<1> USE ConstFacts DEF TypeOK, WTypeOK, LockInv, BootInv, files, planes, bounds, hist, rest, wvars, Windows, CoreRestored
<1>1. CASE Edit
  BY <1>1 DEF Edit
<1>2. ASSUME NEW save \in BOOLEAN, ApplyBegin(save)
      PROVE  CoreRestored'
  BY <1>2 DEF ApplyBegin
<1>3. CASE ApplyReject
  BY <1>3 DEF ApplyReject, Release, Idle, Fault
<1>4. CASE ApplySnapshot
  BY <1>4 DEF ApplySnapshot, TakesBaseline, Backup, NoFault, Fault, Standing
<1>5. CASE ApplySwap
  BY <1>5 DEF ApplySwap, Release, Idle, Fault, NoFault, ReloadOrStart, ReloadOn, StartOn
<1>6. CASE ApplyPlugins
  BY <1>6 DEF ApplyPlugins
<1>7. CASE ApplyPlane
  BY <1>7 DEF ApplyPlane, ApplyPBR, NoFault, Fault
<1>8. CASE ApplyAbort
  BY <1>8 DEF ApplyAbort, Release, Idle, RestoreOK, RestoreFails, ReloadOrStart, ReloadOn,
     StartOn, Stop, NoFault, Fault, RestorePBRBaseline
<1>9. CASE ApplyStop
  BY <1>9 DEF ApplyStop, DropsCore, Stop
<1>10. CASE ApplySave
  BY <1>10 DEF ApplySave, Commit, WConfirm, Release, Idle
<1>11. CASE ApplyArm
  BY <1>11 DEF ApplyArm, WArm, Release, Idle
<1>12. CASE Confirm
  BY <1>12 DEF Confirm, Commit, WConfirm
<1>13. CASE FailSafeStep
  BY <1>13 DEF FailSafeStep, WTick, WExpire, WDecide, WClaim, WAutoMarks, WManualMarks
<1>14. ASSUME NEW o \in Operators, Rollback(o)
      PROVE  CoreRestored'
  BY <1>14 DEF Rollback, WRollbackNow
<1>15. ASSUME NEW w \in Windows, NEW o \in Operators \cup {None}, RbSkip(w, o)
      PROVE  CoreRestored'
  BY <1>15 DEF RbSkip, Returns, WAutoReturns, WManualReturns
<1>16. ASSUME NEW w \in Windows, NEW o \in Operators \cup {None}, RbBegin(w, o)
      PROVE  CoreRestored'
  BY <1>16 DEF RbBegin, Superseded
<1>17. CASE RbCore
  BY <1>17 DEF RbCore, RestoreOK, RestoreFails, ReloadOrStart, ReloadOn, StartOn, Stop, NoFault,
     Fault
<1>18. CASE RbPlanes
  BY <1>18 DEF RbPlanes, RestorePBRBaseline, PluginTarget, Returns, WAutoReturns,
     WManualReturns, RbIdle
<1>19. CASE BootRead
  BY <1>19 DEF BootRead
<1>20. CASE BootPlugins
  BY <1>20 DEF BootPlugins
<1>21. CASE BootPlane
  BY <1>21 DEF BootPlane, ApplyPBR, NoFault, Fault
<1>22. CASE BootStop
  BY <1>22 DEF BootStop, Stop
<1>23. CASE Crash
  BY <1>23 DEF Crash, Fault
<1>24. CASE WatchdogRestart
  BY <1>24 DEF WatchdogRestart
<1>25. CASE Reboot
  BY <1>25 DEF Reboot, Idle, RbIdle
<1>26. CASE UNCHANGED vars
  BY <1>26 DEF vars
<1>. QED
  BY <1>1, <1>2, <1>3, <1>4, <1>5, <1>6, <1>7, <1>8, <1>9, <1>10, <1>11, <1>12, <1>13, <1>14,
     <1>15, <1>16, <1>17, <1>18, <1>19, <1>20, <1>21, <1>22, <1>23, <1>24, <1>25, <1>26 DEF
     Next, ApplyStep, Closure, BootSync

(* What a rollback needs to find. *)
LEMMA RollInductive ==
    ASSUME Faults \cap {"backup", "pbr"} = {}, BootRace = FALSE
    PROVE  Spec => [](ServerInv /\ RollInv)
<1>1. Init => RollInv
  BY ConstFacts DEF Init, WInit, RollInv, FileInv, BootInv, PlanesBased, CoreRestored, Based,
     Snapped, Idle, RbIdle
<1>2. ServerInv /\ RollInv /\ [Next]_vars => RollInv'
  BY FileStep, BootStep, PlanesStep, RestoredStep DEF ServerInv, RollInv
<1>. QED
  BY <1>1, <1>2, ServerInductive, PTL DEF Spec

(* A rollback that reports success has brought back all three planes         *)
(* (RollbackRestores), whatever is applied, crashes, fails to start, fails   *)
(* to restore or loses power in between.  Excluded: a failed backup copy, a  *)
(* failed kernel plane (the closure restores it best-effort and reports      *)
(* success), and requests during the boot sync.                              *)
THEOREM RollbackIsWhole ==
    ASSUME Faults \cap {"backup", "pbr"} = {}, BootRace = FALSE
    PROVE  Spec => RollbackRestores
<1> DEFINE Restores == rb.pc = "planes" /\ rb'.pc = "idle" /\ ~rb.err /\ reboots' = reboots
                       => /\ plug' = pre.plug
                          /\ kplane' = pre.kplane
                          /\ ~winNative[rb.w] => live' = pre.live /\ (pre.desired => desired')
<1>1. ServerInv /\ RollInv /\ [Next]_vars => Restores
  <2> SUFFICES ASSUME ServerInv, RollInv, [Next]_vars, rb.pc = "planes", rb'.pc = "idle",
                      ~rb.err, reboots' = reboots
               PROVE  /\ plug' = pre.plug
                      /\ kplane' = pre.kplane
                      /\ ~winNative[rb.w] => live' = pre.live /\ (pre.desired => desired')
    OBVIOUS
  <2>1. lock = "rollback" /\ ap.pc = "idle" /\ epoch > 0 /\ boot.pc = "done"
    BY DEF ServerInv, RollInv, TypeOK, LockInv, BootInv, Windows
  <2>2. RbPlanes
    <3>1. reboots \in Nat
      BY DEF ServerInv, TypeOK
    <3>2. rb' # rb /\ ~Reboot
      BY <3>1 DEF Reboot
    <3>. QED
      BY <2>1, <3>2 DEF Next, ApplyStep, Closure, BootSync, Edit, ApplyBegin, ApplyReject,
         ApplySnapshot, ApplySwap, ApplyPlugins, ApplyPlane, ApplyAbort, ApplyStop, ApplySave,
         ApplyArm, Confirm, FailSafeStep, Rollback, RbSkip, RbBegin, RbCore, BootRead,
         BootPlugins, BootPlane, BootStop, Crash, WatchdogRestart, rest, vars
  <2>. QED
    BY <2>1, <2>2 DEF RbPlanes, RestorePBRBaseline, PluginTarget, RollInv, FileInv, PlanesBased,
       Based, CoreRestored, files
<1>. QED
  BY <1>1, RollInductive, PTL DEF Spec, RollbackRestores

(* An Apply, a rollback and the boot sync bring the planes together. *)
LEMMA TogetherStep ==
    ASSUME Native = {}, Faults \cap {"backup", "pbr"} = {}, BootRace = FALSE,
           ServerInv, RollInv, TogetherInv, [Next]_vars
    PROVE  TogetherInv'
<1> USE ConstFacts DEF ServerInv, RollInv, TypeOK, WTypeOK, LockInv, FileInv, BootInv, PlanesBased, CoreRestored, TogetherInv,
        Based, Snapped, Aligned, PreAligned, PlanOf, Maybe, Windows, files, planes, bounds, hist, rest, wvars
<1>1. CASE Edit
  BY <1>1 DEF Edit
<1>2. ASSUME NEW save \in BOOLEAN, ApplyBegin(save)
      PROVE  TogetherInv'
  BY <1>2 DEF ApplyBegin
<1>3. CASE ApplyReject
  BY <1>3 DEF ApplyReject, Release, Idle, Fault
<1>4. CASE ApplySnapshot
  BY <1>4 DEF ApplySnapshot, TakesBaseline, Backup, NoFault, Fault, Standing
<1>5. CASE ApplySwap
  <2>1. CASE Release
    BY <1>5, <2>1 DEF ApplySwap, Release, Idle
  <2>2. CASE ap' = [ap EXCEPT !.pc = "plugins"] /\ live' = ap.p /\ ReloadOrStart(ap.p) /\ UNCHANGED lock
    <3>1. core' \in {None, live'}
      BY <2>2 DEF ReloadOrStart, ReloadOn, StartOn
    <3>. QED
      BY <1>5, <2>2, <3>1 DEF ApplySwap
  <2>. QED
    BY <1>5, <2>1, <2>2 DEF ApplySwap
<1>6. CASE ApplyPlugins
  BY <1>6 DEF ApplyPlugins
<1>7. CASE ApplyPlane
  BY <1>7 DEF ApplyPlane, ApplyPBR, NoFault, Fault
<1>8. CASE ApplyAbort
  BY <1>8 DEF ApplyAbort, Release, Idle, RestoreOK, RestoreFails, ReloadOrStart, ReloadOn,
     StartOn, Stop, NoFault, Fault, RestorePBRBaseline
<1>9. CASE ApplyStop
  BY <1>9 DEF ApplyStop, DropsCore, Stop
<1>10. CASE ApplySave
  BY <1>10 DEF ApplySave, Commit, WConfirm, Release, Idle
<1>11. CASE ApplyArm
  BY <1>11 DEF ApplyArm, WArm, Release, Idle
<1>12. CASE Confirm
  BY <1>12 DEF Confirm, Commit, WConfirm
<1>13. CASE FailSafeStep
  BY <1>13 DEF FailSafeStep, WTick, WExpire, WDecide, WClaim, WAutoMarks, WManualMarks
<1>14. ASSUME NEW o \in Operators, Rollback(o)
      PROVE  TogetherInv'
  BY <1>14 DEF Rollback, WRollbackNow
<1>15. ASSUME NEW w \in Windows, NEW o \in Operators \cup {None}, RbSkip(w, o)
      PROVE  TogetherInv'
  BY <1>15 DEF RbSkip, Returns, WAutoReturns, WManualReturns
<1>16. ASSUME NEW w \in Windows, NEW o \in Operators \cup {None}, RbBegin(w, o)
      PROVE  TogetherInv'
  BY <1>16 DEF RbBegin, Superseded
<1>17. CASE RbCore
  BY <1>17 DEF RbCore, RestoreOK, RestoreFails, ReloadOrStart, ReloadOn, StartOn, Stop, NoFault,
     Fault
<1>18. CASE RbPlanes
  BY <1>18 DEF RbPlanes, RestorePBRBaseline, PluginTarget, Returns, WAutoReturns,
     WManualReturns, RbIdle
<1>19. CASE BootRead
  BY <1>19 DEF BootRead
<1>20. CASE BootPlugins
  BY <1>20 DEF BootPlugins
<1>21. CASE BootPlane
  BY <1>21 DEF BootPlane, ApplyPBR, NoFault, Fault
<1>22. CASE BootStop
  BY <1>22 DEF BootStop, Stop
<1>23. CASE Crash
  BY <1>23 DEF Crash, Fault
<1>24. CASE WatchdogRestart
  BY <1>24 DEF WatchdogRestart
<1>25. CASE Reboot
  <2>1. ~stuck' => live = prof
    BY <1>25, Zenon DEF Reboot
  <2>2. core' = live
    BY <1>25 DEF Reboot, Autostart
  <2>. QED
    BY <1>25, <2>1, <2>2 DEF Reboot, Idle, RbIdle
<1>26. CASE UNCHANGED vars
  BY <1>26 DEF vars
<1>. QED
  BY <1>1, <1>2, <1>3, <1>4, <1>5, <1>6, <1>7, <1>8, <1>9, <1>10, <1>11, <1>12, <1>13, <1>14,
     <1>15, <1>16, <1>17, <1>18, <1>19, <1>20, <1>21, <1>22, <1>23, <1>24, <1>25, <1>26 DEF
     Next, ApplyStep, Closure, BootSync

(* Between requests the planes belong together (Coherent), for profiles that *)
(* all need sing-box, whatever crashes, fails to start, fails to restore or   *)
(* loses power.  With native-only profiles a crash before the rollback of a   *)
(* native-only window can leave a core over another profile's planes.         *)
THEOREM PlanesTogether ==
    ASSUME Native = {}, Faults \cap {"backup", "pbr"} = {}, BootRace = FALSE
    PROVE  Spec => []Coherent
<1>1. Init => TogetherInv
  BY ConstFacts DEF Init, WInit, Autostart, TogetherInv, Based, Snapped, Aligned, PreAligned, Idle, RbIdle
<1>2. ServerInv /\ RollInv /\ TogetherInv /\ [Next]_vars => TogetherInv'
  BY TogetherStep
<1>3. ServerInv /\ TogetherInv => Coherent
  BY DEF ServerInv, LockInv, TogetherInv, Aligned, Coherent
<1>. QED
  BY <1>1, <1>2, <1>3, RollInductive, ServerInductive, PTL DEF Spec

(* Where the core can be up: kplane follows the plugins, and a core runs only *)
(* beside plugins of a profile that needs it.                                 *)
Sided == kplane = PlanOf(plug) /\ (core # None => plug \notin Native)

(* Without a crash or a failed start the watchdog has nothing to do; how far   *)
(* the boot sync, an Apply and a rollback have brought core and plane.         *)
NativeInv ==
    /\ desired <=> core # None
    /\ ~ap.pbrErr
    /\ boot.pc = "plane" => plug = boot.p
    /\ boot.pc = "stop" => kplane = PlanOf(plug)
    /\ boot.pc = "done" /\ ~stuck /\ (lock = "free" \/ ap.pc = "check") => Sided
    /\ ap.pc = "swap" /\ ~stuck => Sided
    /\ ap.pc \in {"plane", "abort", "stop", "finish"} => plug = ap.p
    /\ ap.pc \in {"stop", "finish"} => kplane = PlanOf(ap.p)
    /\ ap.pc = "finish" => Sided
    /\ rb.pc = "planes" /\ winNative[rb.w] => core = None
    /\ Based /\ ~pre.stuck => pre.kplane = PlanOf(pre.plug)

(* A start that cannot fail leaves the core up and desired. *)
LEMMA StartsUp ==
    ASSUME "spawn" \notin Faults, NEW c, c # None, ReloadOrStart(c)
    PROVE  core' # None /\ desired'
  BY DEF ReloadOrStart, ReloadOn, StartOn, Fault

(* Every step keeps the core off a native-only profile's plane. *)
LEMMA NativeStep ==
    ASSUME Faults \cap {"pbr", "crash", "spawn"} = {}, BootRace = FALSE,
           ServerInv, BootInv, PlanesBased, NativeInv, [Next]_vars
    PROVE  NativeInv'
<1> USE ConstFacts DEF ServerInv, TypeOK, WTypeOK, LockInv, BootInv, PlanesBased, NativeInv, Sided,
        Based, Snapped, PlanOf, Maybe, Windows, files, planes, bounds, hist, rest, wvars
<1>1. CASE Edit
  BY <1>1 DEF Edit
<1>2. ASSUME NEW save \in BOOLEAN, ApplyBegin(save)
      PROVE  NativeInv'
  BY <1>2 DEF ApplyBegin
<1>3. CASE ApplyReject
  BY <1>3 DEF ApplyReject, Release, Idle, Fault
<1>4. CASE ApplySnapshot
  BY <1>4 DEF ApplySnapshot, TakesBaseline, Backup, NoFault, Fault, Standing
<1>5. CASE ApplySwap
  <2>1. CASE Release
    BY <1>5, <2>1 DEF ApplySwap, Release, Idle
  <2>2. CASE ap' = [ap EXCEPT !.pc = "plugins"] /\ ReloadOrStart(ap.p) /\ UNCHANGED lock
    <3>1. desired' <=> core' # None
      BY <1>5, <2>2, StartsUp DEF ApplySwap
    <3>. QED
      BY <1>5, <2>2, <3>1 DEF ApplySwap
  <2>3. CASE ap' = [ap EXCEPT !.pc = "plugins"] /\ UNCHANGED <<core, desired, lock>>
    BY <1>5, <2>3 DEF ApplySwap
  <2>. QED
    BY <1>5, <2>1, <2>2, <2>3 DEF ApplySwap
<1>6. CASE ApplyPlugins
  BY <1>6 DEF ApplyPlugins
<1>7. CASE ApplyPlane
  BY <1>7 DEF ApplyPlane, ApplyPBR, NoFault, Fault
<1>8. CASE ApplyAbort
  BY <1>8 DEF ApplyAbort, Release, Idle, RestoreOK, RestoreFails, ReloadOrStart, ReloadOn,
     StartOn, Stop, NoFault, Fault, RestorePBRBaseline
<1>9. CASE ApplyStop
  BY <1>9 DEF ApplyStop, DropsCore, Stop
<1>10. CASE ApplySave
  BY <1>10 DEF ApplySave, Commit, WConfirm, Release, Idle
<1>11. CASE ApplyArm
  BY <1>11 DEF ApplyArm, WArm, Release, Idle
<1>12. CASE Confirm
  BY <1>12 DEF Confirm, Commit, WConfirm
<1>13. CASE FailSafeStep
  BY <1>13 DEF FailSafeStep, WTick, WExpire, WDecide, WClaim, WAutoMarks, WManualMarks
<1>14. ASSUME NEW o \in Operators, Rollback(o)
      PROVE  NativeInv'
  BY <1>14 DEF Rollback, WRollbackNow
<1>15. ASSUME NEW w \in Windows, NEW o \in Operators \cup {None}, RbSkip(w, o)
      PROVE  NativeInv'
  BY <1>15 DEF RbSkip, Returns, WAutoReturns, WManualReturns
<1>16. ASSUME NEW w \in Windows, NEW o \in Operators \cup {None}, RbBegin(w, o)
      PROVE  NativeInv'
  BY <1>16 DEF RbBegin, Superseded
<1>17. CASE RbCore
  <2>0. UNCHANGED <<wvars, prof, bak, good, planes, lock, ap, winNative, boot, applies, reboots, hist>>
    BY <1>17, Zenon DEF RbCore
  <2>1. desired' <=> core' # None
    BY <1>17, StartsUp DEF RbCore, Stop, RestoreOK
  <2>2. winNative[rb.w] => core' = None
    BY <1>17 DEF RbCore, Stop
  <2>3. rb'.w = rb.w /\ rb'.pc = "planes"
    BY <1>17 DEF RbCore
  <2>. QED
    BY <1>17, <2>0, <2>1, <2>2, <2>3 DEF RbCore
<1>18. CASE RbPlanes
  <2>1. ~stuck' => ~pre.stuck /\ (pre.plug \in Native => winNative[rb.w])
    BY <1>18, Zenon DEF RbPlanes, Overreaches
  <2>2. kplane' = pbrBaseline /\ plug' = plugBaseline
    BY <1>18 DEF RbPlanes, RestorePBRBaseline, PluginTarget
  <2>3. UNCHANGED epoch
    BY <1>18 DEF RbPlanes, Returns, WAutoReturns, WManualReturns
  <2>. QED
    BY <1>18, <2>1, <2>2, <2>3 DEF RbPlanes, RbIdle
<1>19. CASE BootRead
  BY <1>19 DEF BootRead
<1>20. CASE BootPlugins
  BY <1>20 DEF BootPlugins
<1>21. CASE BootPlane
  BY <1>21 DEF BootPlane, ApplyPBR, NoFault, Fault
<1>22. CASE BootStop
  BY <1>22 DEF BootStop, Stop
<1>23. CASE Crash
  BY <1>23 DEF Crash, Fault
<1>24. CASE WatchdogRestart
  BY <1>24 DEF WatchdogRestart
<1>25. CASE Reboot
  <2>1. desired' <=> core' # None
    BY <1>25, Zenon DEF Reboot
  <2>. QED
    BY <1>25, <2>1 DEF Reboot, Idle, RbIdle
<1>26. CASE UNCHANGED vars
  BY <1>26 DEF vars
<1>. QED
  BY <1>1, <1>2, <1>3, <1>4, <1>5, <1>6, <1>7, <1>8, <1>9, <1>10, <1>11, <1>12, <1>13, <1>14,
     <1>15, <1>16, <1>17, <1>18, <1>19, <1>20, <1>21, <1>22, <1>23, <1>24, <1>25, <1>26 DEF
     Next, ApplyStep, Closure, BootSync

(* No native-only profile is left with a core over its kernel plane, nor with *)
(* a watchdog that would start one (NoCoreOverNative), as long as sing-box     *)
(* neither crashes nor fails to start and kernel installs succeed: the         *)
(* closure of a native-only window leaves desired set on a core that is down.  *)
THEOREM NativeStaysNative ==
    ASSUME Faults \cap {"pbr", "crash", "spawn"} = {}, BootRace = FALSE
    PROVE  Spec => []NoCoreOverNative
<1>1. Init => BootInv /\ PlanesBased
  BY ConstFacts DEF Init, WInit, BootInv, PlanesBased, Based, Snapped, Idle, RbIdle
<1>2. Init => NativeInv
  <2>1. Init => (desired <=> core # None)
    BY Zenon DEF Init
  <2>. QED
    BY <2>1, ConstFacts DEF Init, WInit, NativeInv, Sided, Based, Snapped, Idle, RbIdle
<1>3. ServerInv /\ BootInv /\ PlanesBased /\ [Next]_vars => BootInv' /\ PlanesBased'
  BY BootStep, PlanesStep DEF ServerInv
<1>4. ServerInv /\ BootInv /\ PlanesBased /\ NativeInv /\ [Next]_vars => NativeInv'
  BY NativeStep
<1>5. ServerInv /\ NativeInv => NoCoreOverNative
  BY ConstFacts DEF ServerInv, LockInv, NativeInv, Sided, PlanOf, NoCoreOverNative, CoreOverNative
<1>. QED
  BY <1>1, <1>2, <1>3, <1>4, <1>5, ServerInductive, PTL DEF Spec

=============================================================================
