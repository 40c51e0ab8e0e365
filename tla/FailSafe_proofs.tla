-------------------------- MODULE FailSafe_proofs --------------------------
(***************************************************************************)
(* Proofs about FailSafe, for all durations, clock steps, numbers of       *)
(* windows and operators: type correctness, fire-once, and the refinement  *)
(* of the abstract window machine.                                         *)
(***************************************************************************)
EXTENDS FailSafe, TLAPS

LEMMA Constants == MaxArms \in Nat /\ Grace \in Nat /\ Interval \in Nat
                   /\ KeepWindow \in Nat /\ ClockSteps \subseteq Nat
  BY BoundsAssumption, DurationsAssumption

(* The locked part of tick() writes a well-formed Manager. *)
LEMMA TickTypes ==
  ASSUME TypeOK, NEW w \in Windows, TickGood(w) \/ TickBad(w)
  PROVE  m' \in Manager
<1>1. CASE TickGood(w)
  <2> DEFINE g == [m EXCEPT !.bad = FALSE, !.badSince = 0]
  <2>1. g \in Manager
    BY DEF TypeOK, Manager
  <2>2. \/ m' = [g EXCEPT !.pending = FALSE]
        \/ m' = [g EXCEPT !.pending = FALSE, !.phase = "live_unsaved"]
        \/ m' = [g EXCEPT !.phase = "armed"]
    BY <1>1 DEF TickGood, Recovered
  <2> HIDE DEF g
  <2>. QED
    BY <2>1, <2>2 DEF Manager, Phases
<1>2. CASE TickBad(w)
  <2> DEFINE b == IF m.bad THEN m ELSE [m EXCEPT !.bad = TRUE, !.badSince = sampled[w]]
  <2>1. b \in Manager
    BY DEF TypeOK, Manager
  <2>2. \/ m' = [b EXCEPT !.pending = FALSE, !.phase = "reboot"]
        \/ m' = [b EXCEPT !.rolledBack = TRUE, !.phase = "rolled_back"]
        \/ m' = [b EXCEPT !.phase = "degraded"]
        \/ m' = b
    BY <1>2, Zenon DEF TickBad
  <2> HIDE DEF b
  <2>. QED
    BY <2>1, <2>2 DEF Manager, Phases
<1>. QED
  BY <1>1, <1>2

(* A tick leaves everything but the Manager and its own pc alone. *)
LEMMA TickFrame ==
  ASSUME TypeOK, NEW w \in Windows, TickGood(w) \/ TickBad(w) \/ TickIdle(w)
  PROVE  /\ pc[w] = "check"
         /\ \E x \in {"done", "wait", "claim", "reboot"} : pc' = [pc EXCEPT ![w] = x]
         /\ UNCHANGED <<ctx, wake, started, sampled, manual, target, now, skew,
                        steps, fired, failedW, reboots>>
  BY DEF TickGood, TickBad, TickIdle, opVars, timeVars, histVars

(* RollbackNow either claims the current window or leaves the operator idle. *)
LEMMA RollbackNowCases ==
  ASSUME TypeOK, NEW o \in Operators, RollbackNow(o)
  PROVE  \/ /\ m.dispatched \/ m.epoch = 0
            /\ UNCHANGED <<manual, target, fired>>
         \/ /\ ~m.dispatched /\ m.epoch \in Windows
            /\ manual' = [manual EXCEPT ![o] = "firing"]
            /\ target' = [target EXCEPT ![o] = m.epoch]
            /\ fired' = [fired EXCEPT ![m.epoch] = @ + 1]
<1>1. CASE m.dispatched \/ m.epoch = 0
  BY <1>1 DEF RollbackNow, opVars
<1>2. CASE ~(m.dispatched \/ m.epoch = 0)
  <2>1. m.epoch \in Windows
    BY <1>2, Constants DEF TypeOK, Manager, Windows
  <2>. QED
    BY <1>2, <2>1 DEF RollbackNow
<1>. QED
  BY <1>1, <1>2

LEMMA TypeInit == Init => TypeOK
<1> SUFFICES ASSUME Init
             PROVE  TypeOK
  OBVIOUS
<1>1. 0 \in 0..MaxArms /\ 0 \in Nat
  BY Constants
<1>2. m \in Manager
  BY <1>1 DEF Init, Manager, Phases
<1>. QED
  BY <1>1, <1>2 DEF Init, TypeOK, Pcs, Call

LEMMA TypeStep == TypeOK /\ [Next]_vars => TypeOK'
<1> SUFFICES ASSUME TypeOK, [Next]_vars
             PROVE  TypeOK'
  OBVIOUS
<1> USE DEF goVars, opVars, timeVars, histVars
<1>1. CASE Arm
  <2>1. m.epoch \in 0..MaxArms /\ m.epoch < MaxArms
    BY <1>1 DEF Arm, TypeOK, Manager
  <2>2. m.epoch + 1 \in Windows
    BY <2>1, Constants DEF Windows
  <2>3. /\ nowMS \in Nat /\ nowMS + KeepWindow \in Nat /\ now + Grace \in Nat
        /\ 0 \in Nat /\ m.epoch + 1 \in 0..MaxArms
    BY <2>2, Constants DEF TypeOK, nowMS, Windows
  <2>4. m' \in Manager
    BY <1>1, <2>3 DEF Arm, Armed, Manager, Phases
  <2>. QED
    BY <1>1, <2>2, <2>3, <2>4 DEF Arm, CancelCurrent, TypeOK, Pcs
<1>2. CASE Confirm
  BY <1>2 DEF Confirm, Confirmed, CancelCurrent, TypeOK, Manager, Phases
<1>3. ASSUME NEW o \in Operators, RollbackNow(o)
      PROVE  TypeOK'
  <2>1. m' \in Manager /\ ctx' \in [Windows -> BOOLEAN]
    BY <1>3 DEF RollbackNow, CancelCurrent, TypeOK, Manager, Phases
  <2>2. /\ manual' \in [Operators -> Call]
        /\ target' \in [Operators -> 0..MaxArms]
        /\ fired' \in [Windows -> Nat]
    BY <1>3, RollbackNowCases DEF TypeOK, Manager, Call
  <2>. QED
    BY <1>3, <2>1, <2>2 DEF RollbackNow, TypeOK
<1>4. ASSUME NEW o \in Operators, ManualReturns(o)
      PROVE  TypeOK'
  BY <1>4 DEF ManualReturns, TypeOK, Call
<1>5. ASSUME NEW o \in Operators, ManualMarks(o)
      PROVE  TypeOK'
  BY <1>5 DEF ManualMarks, TypeOK, Call, Manager, Phases
<1>6. ASSUME NEW w \in Windows, GraceEnds(w)
      PROVE  TypeOK'
  <2>1. now + Interval \in Nat
    BY Constants DEF TypeOK
  <2>. QED
    BY <1>6, <2>1 DEF GraceEnds, TypeOK, Pcs
<1>17. ASSUME NEW w \in Windows, LoopTop(w)
       PROVE  TypeOK'
  BY <1>17 DEF LoopTop, TypeOK, Pcs
<1>7. ASSUME NEW w \in Windows, PeekPending(w)
      PROVE  TypeOK'
  BY <1>7, Constants DEF PeekPending, TypeOK, Pcs, nowMS
<1>8. ASSUME NEW w \in Windows, TickGood(w) \/ TickBad(w)
      PROVE  TypeOK'
  BY <1>8, TickTypes, TickFrame DEF TypeOK, Pcs
<1>9. ASSUME NEW w \in Windows, TickIdle(w)
      PROVE  TypeOK'
  BY <1>9 DEF TickIdle, TypeOK, Pcs
<1>10. ASSUME NEW w \in Windows, ClaimRollback(w)
       PROVE  TypeOK'
  <2>1. m' \in Manager
    BY <1>10 DEF ClaimRollback, TypeOK, Manager
  <2>2. fired' \in [Windows -> Nat] /\ started' \in [Windows -> Nat]
    BY <1>10 DEF ClaimRollback, TypeOK
  <2>. QED
    BY <1>10, <2>1, <2>2 DEF ClaimRollback, TypeOK, Pcs
<1>11. ASSUME NEW w \in Windows, RollbackReturns(w)
       PROVE  TypeOK'
  <2>1. w \in 0..MaxArms
    BY Constants DEF Windows
  <2>2. failedW' \subseteq 0..MaxArms
    BY <1>11, <2>1, Zenon DEF RollbackReturns, TypeOK
  <2>. QED
    BY <1>11, <2>2 DEF RollbackReturns, TypeOK, Pcs
<1>12. ASSUME NEW w \in Windows, MarkFailed(w)
       PROVE  TypeOK'
  BY <1>12 DEF MarkFailed, TypeOK, Pcs, Manager, Phases
<1>13. ASSUME NEW w \in Windows, ClaimReboot(w)
       PROVE  TypeOK'
  BY <1>13 DEF ClaimReboot, TypeOK, Pcs
<1>14. ASSUME NEW w \in Windows, WaitEnds(w)
       PROVE  TypeOK'
  BY <1>14, Constants DEF WaitEnds, TypeOK, Pcs
<1>15. CASE Advance \/ ClockStep
  <2>1. now' \in Nat /\ skew' \in Nat /\ steps' \in Nat
    BY <1>15, Constants DEF Advance, ClockStep, TypeOK
  <2>. QED
    BY <1>15, <2>1 DEF Advance, ClockStep, TypeOK
<1>16. CASE UNCHANGED vars
  BY <1>16 DEF vars, TypeOK
<1>. QED
  BY <1>1, <1>2, <1>3, <1>4, <1>5, <1>6, <1>7, <1>8, <1>9, <1>10, <1>11, <1>12,
     <1>13, <1>14, <1>15, <1>16, <1>17 DEF Next, Run, Operate

(* Manager's fields, goroutines and clocks keep their types (failsafe.go,  *)
(* the Manager struct and run's locals).                                   *)
THEOREM TypeCorrect == Spec => []TypeOK
  BY TypeInit, TypeStep, PTL DEF Spec
-----------------------------------------------------------------------------
(* The inductive strengthening of FireOnce (claimRollback, RollbackNow):    *)
(* windows not opened yet never fired, and the current one fired only       *)
(* behind the dispatched flag.                                              *)
Fires ==
    /\ \A w \in Windows : fired[w] <= 1
    /\ \A w \in Windows : w > m.epoch => fired[w] = 0
    /\ \A w \in Windows : w = m.epoch /\ ~m.dispatched => fired[w] = 0

LEMMA FiresStep == TypeOK /\ Fires /\ [Next]_vars => Fires'
<1> SUFFICES ASSUME TypeOK, Fires, [Next]_vars
             PROVE  Fires'
  OBVIOUS
<1> USE DEF Fires
<1>1. CASE Arm
  <2>1. m'.epoch = m.epoch + 1 /\ fired' = fired /\ m.epoch \in Int
    BY <1>1, Constants DEF Arm, Armed, histVars, TypeOK, Manager
  <2>. QED
    BY <2>1 DEF Windows
<1>2. ASSUME NEW o \in Operators, RollbackNow(o)
      PROVE  Fires'
  <2>1. m'.epoch = m.epoch /\ m'.dispatched = TRUE
    BY <1>2 DEF RollbackNow, TypeOK, Manager
  <2>2. CASE UNCHANGED fired
    BY <2>1, <2>2
  <2>3. CASE /\ ~m.dispatched /\ m.epoch \in Windows
             /\ fired' = [fired EXCEPT ![m.epoch] = @ + 1]
    BY <2>1, <2>3 DEF TypeOK, Windows
  <2>. QED
    BY <1>2, <2>2, <2>3, RollbackNowCases
<1>3. ASSUME NEW w \in Windows, ClaimRollback(w)
      PROVE  Fires'
  <2>1. CASE MayClaim(w)
    <3>1. /\ m'.epoch = m.epoch /\ m'.dispatched = TRUE /\ fired[w] = 0 /\ w = m.epoch
          /\ fired' = [fired EXCEPT ![w] = @ + 1]
      BY <1>3, <2>1 DEF ClaimRollback, MayClaim, TypeOK, Manager
    <3>. QED
      BY <3>1 DEF TypeOK, Windows
  <2>2. CASE ~MayClaim(w)
    BY <1>3, <2>2 DEF ClaimRollback
  <2>. QED
    BY <2>1, <2>2
<1>4. ASSUME m'.epoch = m.epoch, m'.dispatched = m.dispatched, fired' = fired
      PROVE  Fires'
  BY <1>4
<1>5. CASE Confirm
  BY <1>5, <1>4 DEF Confirm, Confirmed, histVars, TypeOK, Manager
<1>6. ASSUME NEW o \in Operators, ManualReturns(o) \/ ManualMarks(o)
      PROVE  Fires'
  BY <1>6, <1>4 DEF ManualReturns, ManualMarks, histVars, TypeOK, Manager
<1>7. ASSUME NEW w \in Windows, TickGood(w) \/ TickBad(w)
      PROVE  Fires'
  <2>1. fired' = fired
    BY <1>7, TickFrame
  <2>2. m'.epoch = m.epoch /\ m'.dispatched = m.dispatched
    BY <1>7 DEF TickGood, TickBad, Recovered, TypeOK, Manager
  <2>. QED
    BY <2>1, <2>2, <1>4
<1>8. ASSUME NEW w \in Windows, MarkFailed(w)
      PROVE  Fires'
  BY <1>8, <1>4 DEF MarkFailed, histVars, TypeOK, Manager
<1>9. ASSUME UNCHANGED <<m, fired>>
      PROVE  Fires'
  BY <1>9, <1>4
<1>10. ASSUME NEW w \in Windows,
              GraceEnds(w) \/ LoopTop(w) \/ PeekPending(w) \/ TickIdle(w)
              \/ RollbackReturns(w) \/ ClaimReboot(w) \/ WaitEnds(w)
       PROVE  Fires'
  BY <1>10, <1>9 DEF GraceEnds, LoopTop, PeekPending, TickIdle, RollbackReturns,
                     ClaimReboot, WaitEnds, histVars
<1>11. CASE Advance \/ ClockStep \/ UNCHANGED vars
  BY <1>11, <1>9 DEF Advance, ClockStep, vars, histVars
<1>. QED
  BY <1>1, <1>2, <1>3, <1>5, <1>6, <1>7, <1>8, <1>10, <1>11 DEF Next, Run, Operate

(* "Fire at most once per window even though rb() is invoked unlocked"     *)
(* (claimRollback): whatever run(), RollbackNow, Arm and the clocks do, no *)
(* window's rollback closure is invoked twice.                             *)
THEOREM FiresOnce == Spec => []FireOnce
<1>1. Init => Fires
  BY DEF Init, Fires
<1>2. Fires => FireOnce
  BY DEF Fires, FireOnce
<1>. QED
  BY <1>1, <1>2, FiresStep, TypeCorrect, PTL DEF Spec
-----------------------------------------------------------------------------
(* A window that is not opened yet has no goroutine: what makes Arm map to *)
(* WArm, which leaves the abstract call states alone.                      *)
Absent == \A w \in Windows : w > m.epoch => pc[w] = "absent"

LEMMA AbsentStep == TypeOK /\ Absent /\ [Next]_vars => Absent'
<1> SUFFICES ASSUME TypeOK, Absent, [Next]_vars
             PROVE  Absent'
  OBVIOUS
<1> USE DEF Absent
<1>1. CASE Arm
  <2>1. /\ m'.epoch = m.epoch + 1 /\ m.epoch \in Int
        /\ pc' = [pc EXCEPT ![m.epoch + 1] = "grace"]
    BY <1>1, Constants DEF Arm, Armed, TypeOK, Manager
  <2>. QED
    BY <2>1 DEF TypeOK, Windows
<1>2. ASSUME m'.epoch = m.epoch, UNCHANGED pc
      PROVE  Absent'
  BY <1>2
<1>3. ASSUME NEW w \in Windows, m'.epoch = m.epoch, pc[w] # "absent",
             NEW x, pc' = [pc EXCEPT ![w] = x]
      PROVE  Absent'
  BY <1>3 DEF TypeOK
<1>4. CASE Confirm
  BY <1>4, <1>2 DEF Confirm, Confirmed, TypeOK, Manager
<1>5. ASSUME NEW o \in Operators, Operate(o)
      PROVE  Absent'
  <2>1. m'.epoch = m.epoch
    BY <1>5 DEF Operate, RollbackNow, ManualReturns, ManualMarks, TypeOK, Manager
  <2>2. UNCHANGED pc
    BY <1>5 DEF Operate, RollbackNow, ManualReturns, ManualMarks, goVars
  <2>. QED
    BY <2>1, <2>2, <1>2
<1>6. ASSUME NEW w \in Windows, Run(w)
      PROVE  Absent'
  <2>1. m'.epoch = m.epoch
    <3>1. CASE TickGood(w) \/ TickBad(w)
      BY <3>1 DEF TickGood, TickBad, Recovered, TypeOK, Manager
    <3>2. CASE ClaimRollback(w) \/ MarkFailed(w)
      BY <3>2 DEF ClaimRollback, MarkFailed, TypeOK, Manager
    <3>3. CASE ~(TickGood(w) \/ TickBad(w) \/ ClaimRollback(w) \/ MarkFailed(w))
      BY <1>6, <3>3 DEF Run, GraceEnds, LoopTop, PeekPending, TickIdle,
                        RollbackReturns, ClaimReboot, WaitEnds
    <3>. QED
      BY <3>1, <3>2, <3>3
  <2>2. pc[w] # "absent" /\ \E x : pc' = [pc EXCEPT ![w] = x]
    BY <1>6 DEF Run, GraceEnds, LoopTop, PeekPending, TickGood, TickBad, TickIdle,
                ClaimRollback, RollbackReturns, MarkFailed, ClaimReboot, WaitEnds
  <2>. QED
    BY <2>1, <2>2, <1>3
<1>7. CASE Advance \/ ClockStep \/ UNCHANGED vars
  BY <1>7, <1>2 DEF Advance, ClockStep, vars, goVars
<1>. QED
  BY <1>1, <1>4, <1>5, <1>6, <1>7 DEF Next

(* A goroutine step that neither decides, starts, fails nor ends a rollback *)
(* leaves the abstract call states as they are.                            *)
LEMMA AutoSame ==
  ASSUME TypeOK, NEW w \in Windows, NEW x, pc' = [pc EXCEPT ![w] = x],
         pc[w] \notin {"claim", "firing", "failed"}, x \notin {"claim", "firing", "failed"}
  PROVE  [v \in Windows |-> AutoOf(v)]' = [v \in Windows |-> AutoOf(v)]
  BY DEF TypeOK, AutoOf

LEMMA RefineStep ==
  ASSUME TypeOK, Absent, [Next]_vars
  PROVE  [W!WNext]_(W!wvars)
<1> DEFINE A == [v \in Windows |-> AutoOf(v)]
<1> USE DEF W!Windows
<1>1. CASE Arm
  <2>1. /\ m.epoch < MaxArms /\ m' = Armed(m.epoch + 1)
        /\ pc' = [pc EXCEPT ![m.epoch + 1] = "grace"]
        /\ UNCHANGED <<manual, target, fired>>
    BY <1>1 DEF Arm, opVars, histVars
  <2>2. m.epoch \in 0..MaxArms
    BY DEF TypeOK, Manager
  <2>3. m.epoch + 1 \in Windows /\ m.epoch + 1 > m.epoch
    BY <2>1, <2>2, Constants DEF Windows
  <2>4. pc[m.epoch + 1] = "absent"
    BY <2>3 DEF Absent
  <2>5. A' = A
    BY <2>1, <2>3, <2>4, AutoSame
  <2>6. W!WArm
    BY <2>1, <2>5 DEF W!WArm, Armed
  <2>. QED
    BY <2>6 DEF W!WNext
<1>2. CASE Confirm
  <2>1. A' = A
    BY <1>2 DEF Confirm, AutoOf
  <2>2. W!WConfirm
    BY <1>2, <2>1 DEF Confirm, Confirmed, opVars, histVars, W!WConfirm, TypeOK, Manager
  <2>. QED
    BY <2>2 DEF W!WNext
<1>3. ASSUME NEW o \in Operators, RollbackNow(o)
      PROVE  W!WNext
  <2>1. A' = A
    BY <1>3 DEF RollbackNow, AutoOf
  <2>2. /\ m'.pending = FALSE /\ m'.phase = "rolled_back" /\ m'.dispatched = TRUE
        /\ m'.epoch = m.epoch /\ manual[o] = "idle"
    BY <1>3 DEF RollbackNow, TypeOK, Manager
  <2>3. W!WRollbackNow(o)
    BY <1>3, <2>1, <2>2 DEF RollbackNow, opVars, W!WRollbackNow
  <2>. QED
    BY <2>3 DEF W!WNext
<1>4. ASSUME NEW o \in Operators, ManualReturns(o)
      PROVE  W!WNext
  <2>1. A' = A
    BY <1>4 DEF ManualReturns, goVars, AutoOf
  <2>2. W!WManualReturns(o)
    BY <1>4, <2>1 DEF ManualReturns, W!WManualReturns
  <2>. QED
    BY <2>2 DEF W!WNext
<1>5. ASSUME NEW o \in Operators, ManualMarks(o)
      PROVE  W!WNext
  <2>1. A' = A
    BY <1>5 DEF ManualMarks, goVars, AutoOf
  <2>2. W!WManualMarks(o)
    BY <1>5, <2>1 DEF ManualMarks, histVars, W!WManualMarks, TypeOK, Manager
  <2>. QED
    BY <2>2 DEF W!WNext
<1>6. ASSUME NEW w \in Windows, TickGood(w) \/ TickBad(w)
      PROVE  W!WNext
  <2>1. /\ m.pending /\ m'.epoch = m.epoch /\ m'.dispatched = m.dispatched
        /\ UNCHANGED <<manual, target, fired>> /\ pc[w] = "check"
    BY <1>6, TickFrame DEF TickGood, TickBad, Recovered, TypeOK, Manager
  <2>2. \/ /\ m'.pending /\ m'.phase \in {m.phase, "armed", "degraded"}
           /\ pc' = [pc EXCEPT ![w] = "wait"]
        \/ /\ m'.pending = FALSE /\ m'.phase \in {m.phase, "live_unsaved", "reboot"}
           /\ \E x \in {"done", "reboot"} : pc' = [pc EXCEPT ![w] = x]
        \/ /\ m'.pending /\ m'.phase = "rolled_back"
           /\ pc' = [pc EXCEPT ![w] = "claim"]
    BY <1>6 DEF TickGood, TickBad, Recovered, TypeOK, Manager
  <2>3. CASE m'.pending /\ pc' = [pc EXCEPT ![w] = "wait"]
    <3>1. A' = A
      BY <2>1, <2>3, AutoSame
    <3>2. m'.phase \in {m.phase, "armed", "degraded"}
      BY <2>1, <2>2, <2>3 DEF TypeOK
    <3>3. m'.pending = m.pending
      BY <1>6, <2>1, <2>3, TickTypes DEF TypeOK, Manager
    <3>4. W!WTick
      BY <2>1, <3>1, <3>2, <3>3 DEF W!WTick
    <3>. QED
      BY <3>4 DEF W!WNext
  <2>4. CASE m'.pending = FALSE
    <3>1. /\ m'.phase \in {m.phase, "live_unsaved", "reboot"}
          /\ \E x \in {"done", "reboot"} : pc' = [pc EXCEPT ![w] = x]
      BY <2>2, <2>4
    <3>2. A' = A
      BY <2>1, <3>1, AutoSame
    <3>3. W!WExpire
      BY <2>1, <2>4, <3>1, <3>2 DEF W!WExpire
    <3>. QED
      BY <3>3 DEF W!WNext
  <2>5. CASE /\ m'.pending /\ m'.phase = "rolled_back"
             /\ pc' = [pc EXCEPT ![w] = "claim"]
    <3>1. A' = [A EXCEPT ![w] = "decided"] /\ A[w] = "idle"
      BY <2>1, <2>5 DEF TypeOK, AutoOf
    <3>2. m'.pending = m.pending
      BY <1>6, <2>1, <2>5, TickTypes DEF TypeOK, Manager
    <3>3. W!WDecide(w)
      BY <2>1, <2>5, <3>1, <3>2 DEF W!WDecide
    <3>. QED
      BY <3>3 DEF W!WNext, Windows
  <2>. QED
    BY <2>2, <2>3, <2>4, <2>5
<1>7. ASSUME NEW w \in Windows, ClaimRollback(w)
      PROVE  W!WNext
  <2>1. CASE MayClaim(w)
    <3>1. A' = [A EXCEPT ![w] = "firing"] /\ A[w] = "decided"
      BY <1>7, <2>1 DEF ClaimRollback, TypeOK, AutoOf
    <3>2. W!WClaim(w)
      BY <1>7, <2>1, <3>1 DEF ClaimRollback, MayClaim, opVars, W!WClaim, TypeOK, Manager
    <3>. QED
      BY <3>2 DEF W!WNext, Windows
  <2>2. CASE ~MayClaim(w)
    <3>1. A' = [A EXCEPT ![w] = "idle"] /\ A[w] = "decided"
      BY <1>7, <2>2 DEF ClaimRollback, TypeOK, AutoOf
    <3>2. UNCHANGED <<m, manual, target, fired>> /\ (w # m.epoch \/ m.dispatched)
      BY <1>7, <2>2 DEF ClaimRollback, MayClaim, opVars
    <3>3. W!WClaim(w)
      BY <3>1, <3>2 DEF W!WClaim
    <3>. QED
      BY <3>3 DEF W!WNext, Windows
  <2>. QED
    BY <2>1, <2>2
<1>8. ASSUME NEW w \in Windows, RollbackReturns(w)
      PROVE  W!WNext
  <2>1. \E r \in {"idle", "failed"} : A' = [A EXCEPT ![w] = r]
    <3>1. CASE pc' = [pc EXCEPT ![w] = "wait"]
      <4>1. A' = [A EXCEPT ![w] = "idle"]
        BY <3>1 DEF TypeOK, AutoOf
      <4>. QED
        BY <4>1
    <3>2. CASE pc' = [pc EXCEPT ![w] = "failed"]
      <4>1. A' = [A EXCEPT ![w] = "failed"]
        BY <3>2 DEF TypeOK, AutoOf
      <4>. QED
        BY <4>1
    <3>. QED
      BY <1>8, <3>1, <3>2 DEF RollbackReturns
  <2>2. A[w] = "firing"
    BY <1>8 DEF RollbackReturns, AutoOf
  <2>3. W!WAutoReturns(w)
    BY <1>8, <2>1, <2>2 DEF RollbackReturns, opVars, W!WAutoReturns
  <2>. QED
    BY <2>3 DEF W!WNext, Windows
<1>9. ASSUME NEW w \in Windows, MarkFailed(w)
      PROVE  W!WNext
  <2>1. A' = [A EXCEPT ![w] = "idle"] /\ A[w] = "failed"
    BY <1>9 DEF MarkFailed, TypeOK, AutoOf
  <2>2. W!WAutoMarks(w)
    BY <1>9, <2>1 DEF MarkFailed, opVars, histVars, W!WAutoMarks, TypeOK, Manager
  <2>. QED
    BY <2>2 DEF W!WNext, Windows
<1>10. ASSUME UNCHANGED <<m, manual, target, fired>>, A' = A
       PROVE  UNCHANGED W!wvars
  BY <1>10 DEF W!wvars
<1>11. ASSUME NEW w \in Windows,
              GraceEnds(w) \/ LoopTop(w) \/ PeekPending(w) \/ TickIdle(w)
              \/ ClaimReboot(w) \/ WaitEnds(w)
       PROVE  UNCHANGED W!wvars
  <2>1. UNCHANGED <<m, manual, target, fired>>
    BY <1>11 DEF GraceEnds, LoopTop, PeekPending, TickIdle, ClaimReboot, WaitEnds,
                 opVars, histVars
  <2>2. /\ pc[w] \notin {"claim", "firing", "failed"}
        /\ \E x : x \notin {"claim", "firing", "failed"} /\ pc' = [pc EXCEPT ![w] = x]
    BY <1>11 DEF GraceEnds, LoopTop, PeekPending, TickIdle, ClaimReboot, WaitEnds
  <2>3. A' = A
    BY <2>2, AutoSame
  <2>. QED
    BY <2>1, <2>3, <1>10
<1>12. CASE Advance \/ ClockStep \/ UNCHANGED vars
  <2>1. UNCHANGED <<m, manual, target, fired, pc>>
    BY <1>12 DEF Advance, ClockStep, vars, goVars, opVars, histVars
  <2>2. A' = A
    BY <2>1 DEF AutoOf
  <2>. QED
    BY <2>1, <2>2, <1>10
<1>. QED
  BY <1>1, <1>2, <1>3, <1>4, <1>5, <1>6, <1>7, <1>8, <1>9, <1>11, <1>12
     DEF Next, Run, Operate

(* The timed manager implements the abstract window machine that Apply     *)
(* composes with: every locked section of failsafe.go is one step of it,   *)
(* or invisible.                                                           *)
THEOREM Refinement == Spec => ImplementsWindow
<1>1. Init => W!WInit
  BY DEF Init, W!WInit, AutoOf, W!Windows, Windows
<1>2. Init => Absent
  BY DEF Init, Absent
<1>. QED
  BY <1>1, <1>2, TypeCorrect, AbsentStep, RefineStep, PTL
     DEF Spec, ImplementsWindow, W!WSpec
-----------------------------------------------------------------------------
(* A check that a superseded goroutine still has under way ends before the   *)
(* current window leaves its grace period, and is the only one; so what it   *)
(* reports is the first bad tick of the current window, or none.             *)
Checking == {w \in Windows : pc[w] \in {"peek", "check"}}

Overtaken(w) ==
    /\ pc[m.epoch] \in {"grace", "done"}
    /\ ~m.bad
    /\ pc[m.epoch] = "grace" =>
         IF pc[w] = "peek" THEN wake[m.epoch] = now + Grace
         ELSE /\ started[w] + Grace <= wake[m.epoch]
              /\ wake[m.epoch] <= started[w] + Grace + CheckTimeout

StaleInv ==
    /\ \A w \in Windows : w < m.epoch => ctx[w]
    /\ \A w \in Windows : pc[w] = "check" =>
          started[w] <= now /\ now <= started[w] + CheckTimeout
    /\ \A w \in Checking : w < m.epoch => Overtaken(w)
    /\ \A v, w \in Checking : v = w

RealInv ==
    m.rolledBack => m.dispatched \/ \E w \in Windows : w = m.epoch /\ pc[w] = "claim"

(* How long the current window can have been bad before its next tick, while  *)
(* the wall clock is not stepped.                                             *)
BadFor(w) ==
    /\ pc[w] = "grace" => wake[w] <= m.badSince + Grace + CheckTimeout
    /\ pc[w] \in {"loop", "peek", "wait"} => now < m.badSince + RebootAfter
    /\ pc[w] = "wait" => wake[w] < m.badSince + RebootAfter
    /\ pc[w] = "check" => sampled[w] < m.badSince + RebootAfter

PromptInv ==
    /\ \A w \in Windows : pc[w] = "grace" => now <= wake[w]
    /\ \A w \in Windows : pc[w] \in {"loop", "peek"} => wake[w] <= now + Interval
    /\ \A w \in Windows : pc[w] = "check" => wake[w] <= started[w] + Interval
    /\ steps = 0 => skew = 0
    /\ steps = 0 => \A w \in Windows : pc[w] = "check" => sampled[w] = started[w]

LastInv ==
    /\ \A w \in Windows : w = m.epoch /\ pc[w] \in {"claim", "firing", "failed"} => m.rolledBack
    /\ \A w \in Windows : w = m.epoch /\ m.dispatched => fired[w] = 1
    /\ steps = 0 /\ m.pending /\ m.bad /\ ~m.rolledBack =>
          \A w \in Windows : w = m.epoch => BadFor(w)
    /\ steps = 0 => \A w \in Windows : pc[w] = "reboot" \/ w \in reboots => fired[w] = 1

LEMMA Durations ==
    /\ Grace \in Nat /\ Interval \in Nat /\ CheckTimeout \in Nat /\ CheckTimeout < Grace
    /\ RollbackAfter \in Nat /\ RollbackAfter > 0 /\ RebootAfter \in Nat
    /\ MaxArms \in Nat
  BY DurationsAssumption, BoundsAssumption

LEMMA EpochWindow ==
  ASSUME TypeOK, NEW w \in Windows, w < m.epoch
  PROVE  m.epoch \in Windows
  BY Durations DEF TypeOK, Manager, Windows

(* The bad branch of tick(), field by field. *)
LEMMA TickBadCases ==
  ASSUME TypeOK, NEW w \in Windows, TickBad(w),
         NEW since, since = IF m.bad THEN m.badSince ELSE sampled[w]
  PROVE  /\ m.pending /\ pc[w] = "check"
         /\ m'.bad /\ m'.badSince = since /\ m'.epoch = m.epoch /\ m'.dispatched = m.dispatched
         /\ \/ /\ sampled[w] - since >= RebootAfter
               /\ m'.pending = FALSE /\ m'.rolledBack = m.rolledBack
               /\ pc' = [pc EXCEPT ![w] = "reboot"]
            \/ /\ sampled[w] - since >= RollbackAfter /\ m'.rolledBack
               /\ pc' = [pc EXCEPT ![w] = "claim"]
            \/ /\ sampled[w] - since < RollbackAfter /\ m'.rolledBack = m.rolledBack
               /\ ~m.rolledBack
               /\ pc' = [pc EXCEPT ![w] = "wait"]
            \/ /\ m.rolledBack /\ m'.rolledBack = m.rolledBack
               /\ pc' = [pc EXCEPT ![w] = "wait"]
<1> DEFINE b == IF m.bad THEN m ELSE [m EXCEPT !.bad = TRUE, !.badSince = sampled[w]]
<1>1. /\ b \in Manager /\ b.bad /\ b.badSince = since
      /\ b.epoch = m.epoch /\ b.dispatched = m.dispatched /\ b.rolledBack = m.rolledBack
  BY DEF TypeOK, Manager
<1>2. /\ m.pending /\ pc[w] = "check"
      /\ \/ /\ sampled[w] - b.badSince >= RebootAfter
            /\ m' = [b EXCEPT !.pending = FALSE, !.phase = "reboot"]
            /\ pc' = [pc EXCEPT ![w] = "reboot"]
         \/ /\ sampled[w] - b.badSince >= RollbackAfter
            /\ m' = [b EXCEPT !.rolledBack = TRUE, !.phase = "rolled_back"]
            /\ pc' = [pc EXCEPT ![w] = "claim"]
         \/ /\ sampled[w] - b.badSince < RollbackAfter /\ ~m.rolledBack
            /\ m' = [b EXCEPT !.phase = "degraded"]
            /\ pc' = [pc EXCEPT ![w] = "wait"]
         \/ /\ m.rolledBack /\ m' = b
            /\ pc' = [pc EXCEPT ![w] = "wait"]
  BY Zenon DEF TickBad
<1> HIDE DEF b
<1>3. CASE m' = [b EXCEPT !.pending = FALSE, !.phase = "reboot"]
  BY <1>1, <1>2, <1>3 DEF Manager
<1>4. CASE m' = [b EXCEPT !.rolledBack = TRUE, !.phase = "rolled_back"]
  BY <1>1, <1>2, <1>4 DEF Manager
<1>5. CASE m' = [b EXCEPT !.phase = "degraded"]
  BY <1>1, <1>2, <1>5 DEF Manager
<1>6. CASE m' = b
  BY <1>1, <1>2, <1>6 DEF Manager
<1>. QED
  BY <1>2, <1>3, <1>4, <1>5, <1>6

LEMMA TickGoodCases ==
  ASSUME TypeOK, NEW w \in Windows, TickGood(w)
  PROVE  /\ pc[w] = "check"
         /\ ~m'.bad /\ m'.epoch = m.epoch /\ m'.dispatched = m.dispatched
         /\ m'.rolledBack = m.rolledBack
         /\ \E x \in {"done", "wait"} : pc' = [pc EXCEPT ![w] = x]
<1> DEFINE g == [m EXCEPT !.bad = FALSE, !.badSince = 0]
<1>1. /\ g \in Manager /\ ~g.bad /\ g.epoch = m.epoch
      /\ g.dispatched = m.dispatched /\ g.rolledBack = m.rolledBack
  BY DEF TypeOK, Manager
<1>2. \/ m' = [g EXCEPT !.pending = FALSE]
      \/ m' = [g EXCEPT !.pending = FALSE, !.phase = "live_unsaved"]
      \/ m' = [g EXCEPT !.phase = "armed"]
  BY DEF TickGood, Recovered
<1> HIDE DEF g
<1>3. /\ ~m'.bad /\ m'.epoch = m.epoch /\ m'.dispatched = m.dispatched
      /\ m'.rolledBack = m.rolledBack
  BY <1>1, <1>2 DEF Manager
<1>. QED
  BY <1>3 DEF TickGood

(* A goroutine that moves on, and not into a check, disturbs no other check. *)
LEMMA StaleFrame ==
  ASSUME TypeOK, StaleInv, NEW v \in Windows, NEW x,
         pc' = [pc EXCEPT ![v] = x], x \notin {"peek", "check"},
         pc[v] # "done", pc[v] = "grace" => x = "done",
         m'.epoch = m.epoch, ~m'.bad \/ m'.bad = m.bad \/ v \in Checking,
         \A y \in Windows : y # v => wake'[y] = wake[y] /\ started'[y] = started[y],
         UNCHANGED <<ctx, now>>
  PROVE  StaleInv'
<1>1. \A y \in Windows : y # v => pc'[y] = pc[y]
  BY DEF TypeOK
<1>2. pc'[v] = x
  BY DEF TypeOK
<1>3. \A w \in Checking' : w \in Checking /\ w # v /\ w \in Windows
  BY <1>1, <1>2 DEF Checking
<1>4. ASSUME NEW w \in Checking', w < m.epoch
      PROVE  Overtaken(w)'
  <2>1. w \in Checking /\ w # v /\ Overtaken(w) /\ pc'[w] = pc[w]
    BY <1>1, <1>3, <1>4 DEF StaleInv
  <2>2. v \notin Checking
    BY <2>1 DEF StaleInv
  <2>3. m.epoch \in Windows
    BY <1>3, <1>4, EpochWindow
  <2>4. ~m'.bad
    BY <2>1, <2>2 DEF Overtaken
  <2>5. CASE m.epoch = v
    BY <1>2, <2>1, <2>4, <2>5 DEF Overtaken
  <2>6. CASE m.epoch # v
    <3>1. pc'[m.epoch] = pc[m.epoch] /\ wake'[m.epoch] = wake[m.epoch] /\ started'[w] = started[w]
      BY <1>1, <1>3, <2>1, <2>3, <2>6
    <3>. QED
      BY <2>1, <2>4, <3>1 DEF Overtaken
  <2>. QED
    BY <2>5, <2>6
<1>5. \A w \in Windows : pc'[w] = "check" => started'[w] = started[w] /\ pc[w] = "check"
  BY <1>1, <1>2
<1>. QED
  BY <1>3, <1>4, <1>5 DEF StaleInv

LEMMA StaleStep ==
  ASSUME TypeOK, Absent, StaleInv, [Next]_vars
  PROVE  StaleInv'
<1>1. CASE Arm
  <2> DEFINE n == m.epoch + 1
  <2>1. m.epoch \in 0..MaxArms /\ m.epoch < MaxArms /\ n \in Windows /\ n > m.epoch
    <3>1. m.epoch \in 0..MaxArms /\ m.epoch < MaxArms
      BY <1>1 DEF Arm, TypeOK, Manager
    <3>. QED
      BY <3>1, Durations DEF Windows
  <2>2. /\ m'.epoch = n /\ ~m'.bad
        /\ pc' = [pc EXCEPT ![n] = "grace"] /\ wake' = [wake EXCEPT ![n] = now + Grace]
        /\ ctx' = [x \in Windows |-> ctx[x] \/ x = m.epoch]
        /\ UNCHANGED <<started, now>>
    BY <1>1 DEF Arm, Armed, CancelCurrent, timeVars
  <2>3. pc[n] = "absent"
    BY <2>1 DEF Absent
  <2> HIDE DEF n
  <2>4. /\ \A w \in Windows : w # n => pc'[w] = pc[w]
        /\ pc'[n] = "grace" /\ wake'[n] = now + Grace
    BY <2>1, <2>2 DEF TypeOK
  <2>5. \A w \in Checking' : w \in Checking /\ w # n /\ w \in Windows
    BY <2>4 DEF Checking
  <2>6. \A w \in Windows : w < n => ctx'[w]
    <3> SUFFICES ASSUME NEW w \in Windows, w < n
                 PROVE  ctx'[w]
      OBVIOUS
    <3>1. w < m.epoch \/ w = m.epoch
      BY <2>1, Durations DEF Windows, n
    <3>2. ctx[w] \/ w = m.epoch
      BY <3>1 DEF StaleInv
    <3>. QED
      BY <2>2, <3>2, Zenon
  <2>7. ASSUME NEW w \in Checking', w < m'.epoch
        PROVE  Overtaken(w)'
    <3>1. started[w] \in Nat /\ now \in Nat /\ pc'[w] = pc[w]
      BY <2>4, <2>5 DEF TypeOK
    <3>2. pc[w] = "check" => started[w] <= now /\ now <= started[w] + CheckTimeout
      BY <2>5 DEF StaleInv
    <3>3. pc'[w] \in {"peek", "check"}
      BY DEF Checking
    <3>. QED
      BY <2>2, <2>4, <3>1, <3>2, <3>3, Durations DEF Overtaken
  <2>8. \A w \in Windows : pc'[w] = "check" => pc[w] = "check"
    BY <2>4
  <2>. QED
    BY <2>2, <2>5, <2>6, <2>7, <2>8 DEF StaleInv
<1>2. ASSUME m'.epoch = m.epoch, m'.bad = m.bad, UNCHANGED <<pc, wake, started, now>>,
             \A w \in Windows : ctx[w] => ctx'[w]
      PROVE  StaleInv'
  BY <1>2 DEF StaleInv, Checking, Overtaken
<1>3. CASE Confirm
  BY <1>2, <1>3 DEF Confirm, Confirmed, CancelCurrent, TypeOK, Manager, timeVars
<1>4. ASSUME NEW o \in Operators, Operate(o)
      PROVE  StaleInv'
  <2>1. CASE RollbackNow(o)
    BY <1>2, <2>1 DEF RollbackNow, CancelCurrent, TypeOK, Manager, timeVars
  <2>2. CASE ManualReturns(o) \/ ManualMarks(o)
    BY <1>2, <2>2 DEF ManualReturns, ManualMarks, TypeOK, Manager, goVars, timeVars
  <2>. QED
    BY <1>4, <2>1, <2>2 DEF Operate
<1>5. ASSUME NEW v \in Windows, GraceEnds(v)
      PROVE  StaleInv'
  <2>1. pc[v] = "grace" /\ UNCHANGED <<m, ctx, started, now>>
    BY <1>5 DEF GraceEnds, timeVars
  <2>2. CASE pc' = [pc EXCEPT ![v] = "done"] /\ UNCHANGED wake
    BY <2>1, <2>2, StaleFrame
  <2>3. CASE /\ now >= wake[v] /\ pc' = [pc EXCEPT ![v] = "loop"]
             /\ wake' = [wake EXCEPT ![v] = now + Interval]
    <3>1. \A y \in Windows : y # v => pc'[y] = pc[y] /\ wake'[y] = wake[y]
      BY <2>3 DEF TypeOK
    <3>2. pc'[v] = "loop"
      BY <2>3 DEF TypeOK
    <3>3. \A w \in Checking' : w \in Checking /\ w # v /\ w \in Windows /\ pc'[w] = pc[w]
      BY <3>1, <3>2 DEF Checking
    <3>4. ASSUME NEW w \in Checking', w < m.epoch
          PROVE  Overtaken(w)'
      <4>1. Overtaken(w) /\ m.epoch \in Windows
        BY <3>3, <3>4, EpochWindow DEF StaleInv
      <4>2. m.epoch # v
        <5> SUFFICES ASSUME m.epoch = v
                     PROVE  FALSE
          OBVIOUS
        <5>1. /\ started[w] \in Nat /\ now \in Nat /\ wake[v] \in Nat
              /\ pc[w] = "check" => now <= started[w] + CheckTimeout
              /\ pc[w] = "peek" \/ pc[w] = "check"
          BY <3>3 DEF TypeOK, StaleInv, Checking
        <5>. QED
          BY <2>1, <2>3, <4>1, <5>1, Durations DEF Overtaken
      <4>. QED
        BY <2>1, <3>1, <3>3, <4>1, <4>2 DEF Overtaken
    <3>. QED
      BY <2>1, <3>1, <3>2, <3>3, <3>4 DEF StaleInv
  <2>. QED
    BY <1>5, <2>2, <2>3 DEF GraceEnds
<1>6. ASSUME NEW v \in Windows, LoopTop(v)
      PROVE  StaleInv'
  <2>1. pc[v] = "loop" /\ UNCHANGED <<m, ctx, wake, started, now>>
    BY <1>6 DEF LoopTop, timeVars
  <2>2. CASE ctx[v]
    <3>1. pc' = [pc EXCEPT ![v] = "done"]
      BY <1>6, <2>2 DEF LoopTop
    <3>. QED
      BY <2>1, <3>1, StaleFrame
  <2>3. CASE ~ctx[v]
    <3>1. pc' = [pc EXCEPT ![v] = "peek"]
      BY <1>6, <2>3 DEF LoopTop
    <3>2. v = m.epoch
      <4>1. ~(v < m.epoch) /\ ~(v > m.epoch)
        BY <2>1, <2>3 DEF StaleInv, Absent
      <4>2. v \in Nat /\ m.epoch \in Nat
        BY Durations DEF TypeOK, Manager, Windows
      <4>. QED
        BY <4>1, <4>2
    <3>3. \A w \in Windows : w \notin Checking
      <4> SUFFICES ASSUME NEW w \in Windows, w \in Checking
                   PROVE  FALSE
        OBVIOUS
      <4>1. w # m.epoch /\ ~(w > m.epoch)
        BY <2>1, <3>2 DEF Checking, Absent
      <4>2. w < m.epoch
        BY <4>1, Durations DEF TypeOK, Manager, Windows
      <4>. QED
        BY <2>1, <3>2, <4>2 DEF StaleInv, Overtaken
    <3>4. \A w \in Checking' : w = v
      BY <3>1, <3>3 DEF Checking, TypeOK
    <3>5. \A w \in Windows : pc'[w] = "check" => pc[w] = "check"
      BY <3>1 DEF TypeOK
    <3>6. ~(v < m.epoch)
      BY <3>2, Durations DEF Windows
    <3>. QED
      BY <2>1, <3>4, <3>5, <3>6 DEF StaleInv
  <2>. QED
    BY <2>2, <2>3
<1>7. ASSUME NEW v \in Windows, PeekPending(v)
      PROVE  StaleInv'
  <2>1. /\ pc[v] = "peek" /\ UNCHANGED <<m, ctx, wake, now>>
        /\ started' = [started EXCEPT ![v] = now]
    BY <1>7 DEF PeekPending, timeVars
  <2>2. CASE ~m.pending
    <3>1. pc' = [pc EXCEPT ![v] = "done"]
      BY <1>7, <2>2 DEF PeekPending
    <3>2. \A y \in Windows : y # v => wake'[y] = wake[y] /\ started'[y] = started[y]
      BY <2>1 DEF TypeOK
    <3>3. v \in Checking
      BY <2>1 DEF Checking
    <3>4. /\ pc[v] # "done" /\ pc[v] # "grace" /\ m'.epoch = m.epoch /\ UNCHANGED <<ctx, now>>
          /\ "done" \notin {"peek", "check"}
      BY <2>1
    <3>. QED
      BY <3>1, <3>2, <3>3, <3>4, StaleFrame, Zenon
  <2>3. CASE m.pending
    <3>1. pc' = [pc EXCEPT ![v] = "check"]
      BY <1>7, <2>3 DEF PeekPending
    <3>2. \A y \in Windows : y # v => pc'[y] = pc[y] /\ started'[y] = started[y]
      BY <2>1, <3>1 DEF TypeOK
    <3>3. pc'[v] = "check" /\ started'[v] = now /\ now \in Nat
      BY <2>1, <3>1 DEF TypeOK
    <3>4. \A w \in Checking' : w \in Checking /\ w \in Windows
      BY <2>1, <3>2, <3>3 DEF Checking
    <3>5. \A w \in Checking' : w = v
      BY <2>1, <3>4 DEF StaleInv, Checking
    <3>6. v < m.epoch => Overtaken(v)'
      <4> SUFFICES ASSUME v < m.epoch
                   PROVE  Overtaken(v)'
        OBVIOUS
      <4>1. Overtaken(v) /\ m.epoch \in Windows /\ m.epoch # v
        BY <2>1, EpochWindow, Durations DEF StaleInv, Checking, Windows
      <4>2. pc'[m.epoch] = pc[m.epoch]
        BY <3>2, <4>1
      <4>. QED
        BY <2>1, <3>3, <4>1, <4>2, Durations DEF Overtaken
    <3>7. \A w \in Windows : pc'[w] = "check" => started'[w] <= now /\ now <= started'[w] + CheckTimeout
      BY <3>2, <3>3, Durations DEF StaleInv
    <3>. QED
      BY <2>1, <3>4, <3>5, <3>6, <3>7 DEF StaleInv
  <2>. QED
    BY <2>2, <2>3
<1>8. ASSUME NEW v \in Windows, TickGood(v) \/ TickBad(v) \/ TickIdle(v)
      PROVE  StaleInv'
  <2>1. /\ pc[v] = "check"
        /\ \E x \in {"done", "wait", "claim", "reboot"} : pc' = [pc EXCEPT ![v] = x]
        /\ UNCHANGED <<ctx, wake, started, now>>
    BY <1>8, TickFrame
  <2>2. m'.epoch = m.epoch
    BY <1>8, TickGoodCases, TickBadCases DEF TickIdle
  <2>3. v \in Checking
    BY <2>1 DEF Checking
  <2>. QED
    BY <2>1, <2>2, <2>3, StaleFrame
<1>9. ASSUME NEW v \in Windows,
             ClaimRollback(v) \/ RollbackReturns(v) \/ MarkFailed(v) \/ ClaimReboot(v) \/ WaitEnds(v)
      PROVE  StaleInv'
  <2>1. /\ pc[v] \in {"claim", "firing", "failed", "reboot", "wait"}
        /\ \E x \in {"firing", "wait", "failed", "done", "loop"} : pc' = [pc EXCEPT ![v] = x]
        /\ UNCHANGED <<ctx, now>>
    BY <1>9 DEF ClaimRollback, RollbackReturns, MarkFailed, ClaimReboot, WaitEnds, timeVars
  <2>2. m'.epoch = m.epoch /\ m'.bad = m.bad
    BY <1>9 DEF ClaimRollback, RollbackReturns, MarkFailed, ClaimReboot, WaitEnds, TypeOK, Manager
  <2>3. \A y \in Windows : y # v => wake'[y] = wake[y] /\ started'[y] = started[y]
    BY <1>9 DEF ClaimRollback, RollbackReturns, MarkFailed, ClaimReboot, WaitEnds, TypeOK
  <2>. QED
    BY <2>1, <2>2, <2>3, StaleFrame
<1>10. CASE Advance
  <2>1. /\ now' = now + 1 /\ \A w \in Windows : ~Due(w)
        /\ UNCHANGED <<m, pc, ctx, wake, started>>
    BY <1>10 DEF Advance, goVars
  <2>2. \A w \in Windows : pc[w] # "peek" /\ (pc[w] = "check" => now < started[w] + CheckTimeout)
    BY <2>1, Durations DEF Due, TypeOK
  <2>3. \A w \in Windows : pc[w] = "check" => started[w] <= now' /\ now' <= started[w] + CheckTimeout
    BY <2>1, <2>2, Durations DEF StaleInv, TypeOK
  <2>4. \A w \in Checking : w < m.epoch => Overtaken(w)'
    BY <2>1, <2>2 DEF StaleInv, Overtaken, Checking
  <2>5. Checking' = Checking
    BY <2>1 DEF Checking
  <2>. QED
    BY <2>1, <2>3, <2>4, <2>5 DEF StaleInv
<1>11. CASE ClockStep \/ UNCHANGED vars
  BY <1>2, <1>11 DEF ClockStep, vars, goVars, timeVars
<1>. QED
  BY <1>1, <1>3, <1>4, <1>5, <1>6, <1>7, <1>8, <1>9, <1>10, <1>11 DEF Next, Run

(* A bad tick of a superseded goroutine opens the bad period, so it neither   *)
(* rolls back nor reboots.                                                    *)
LEMMA StaleTick ==
  ASSUME TypeOK, Absent, StaleInv, NEW v \in Windows, TickBad(v)
  PROVE  \/ v = m.epoch
         \/ /\ v < m.epoch /\ ~m.bad /\ Overtaken(v)
            /\ m'.rolledBack = m.rolledBack /\ pc' = [pc EXCEPT ![v] = "wait"]
<1> SUFFICES ASSUME v # m.epoch
             PROVE  /\ v < m.epoch /\ ~m.bad /\ Overtaken(v)
                    /\ m'.rolledBack = m.rolledBack /\ pc' = [pc EXCEPT ![v] = "wait"]
  OBVIOUS
<1>1. pc[v] = "check"
  BY DEF TickBad
<1>2. v < m.epoch
  <2>1. ~(v > m.epoch)
    BY <1>1 DEF Absent
  <2>. QED
    BY <2>1, Durations DEF TypeOK, Manager, Windows
<1>3. Overtaken(v) /\ ~m.bad
  BY <1>1, <1>2 DEF StaleInv, Checking, Overtaken
<1>4. sampled[v] \in Nat /\ sampled[v] - sampled[v] < RollbackAfter
      /\ sampled[v] - sampled[v] < RebootAfter
  BY Durations, DurationsAssumption DEF TypeOK
<1>5. ~(sampled[v] - sampled[v] >= RebootAfter) /\ ~(sampled[v] - sampled[v] >= RollbackAfter)
  BY <1>4, Durations
<1>. QED
  BY <1>2, <1>3, <1>5, TickBadCases

LEMMA RealStep ==
  ASSUME TypeOK, Absent, StaleInv, RealInv, [Next]_vars
  PROVE  RealInv'
<1>1. CASE Arm
  BY <1>1 DEF Arm, Armed, RealInv
<1>2. ASSUME NEW o \in Operators, RollbackNow(o)
      PROVE  RealInv'
  <2>1. m'.dispatched
    BY <1>2 DEF RollbackNow, TypeOK, Manager
  <2>. QED
    BY <2>1 DEF RealInv
<1>3. ASSUME m'.epoch = m.epoch, m'.rolledBack = m.rolledBack, m'.dispatched = m.dispatched,
             \A w \in Windows : pc[w] = "claim" => pc'[w] = "claim"
      PROVE  RealInv'
  BY <1>3, Zenon DEF RealInv
<1>4. CASE Confirm
  BY <1>3, <1>4 DEF Confirm, Confirmed, TypeOK, Manager
<1>5. ASSUME NEW o \in Operators, ManualReturns(o) \/ ManualMarks(o)
      PROVE  RealInv'
  BY <1>3, <1>5 DEF ManualReturns, ManualMarks, goVars, TypeOK, Manager
<1>6. ASSUME NEW v \in Windows, TickBad(v)
      PROVE  RealInv'
  <2>1. PICK since : since = IF m.bad THEN m.badSince ELSE sampled[v]
    OBVIOUS
  <2>2. /\ pc[v] = "check" /\ m'.epoch = m.epoch /\ m'.dispatched = m.dispatched
        /\ \/ /\ m'.rolledBack = m.rolledBack
              /\ \E x \in {"reboot", "wait"} : pc' = [pc EXCEPT ![v] = x]
           \/ pc' = [pc EXCEPT ![v] = "claim"]
    BY <1>6, <2>1, TickBadCases, Zenon
  <2>3. CASE /\ m'.rolledBack = m.rolledBack
             /\ \E x \in {"reboot", "wait"} : pc' = [pc EXCEPT ![v] = x]
    <3>1. \A w \in Windows : pc[w] = "claim" => pc'[w] = "claim"
      BY <2>2, <2>3 DEF TypeOK
    <3>. QED
      BY <1>3, <2>2, <2>3, <3>1
  <2>4. CASE pc' = [pc EXCEPT ![v] = "claim"]
    <3>1. pc'[v] = "claim"
      BY <2>4 DEF TypeOK
    <3>2. v = m.epoch
      BY <1>6, <3>1, StaleTick DEF TypeOK
    <3>. QED
      BY <2>2, <3>1, <3>2 DEF RealInv
  <2>. QED
    BY <2>2, <2>3, <2>4
<1>7. ASSUME NEW v \in Windows, TickGood(v)
      PROVE  RealInv'
  <2>1. \A w \in Windows : pc[w] = "claim" => pc'[w] = "claim"
    BY <1>7, TickGoodCases DEF TypeOK
  <2>. QED
    BY <1>3, <1>7, <2>1, TickGoodCases
<1>8. ASSUME NEW v \in Windows, ClaimRollback(v)
      PROVE  RealInv'
  <2>1. CASE MayClaim(v)
    <3>1. m'.dispatched
      BY <1>8, <2>1 DEF ClaimRollback, TypeOK, Manager
    <3>. QED
      BY <3>1 DEF RealInv
  <2>2. CASE ~MayClaim(v)
    <3>1. UNCHANGED m /\ pc' = [pc EXCEPT ![v] = "wait"]
      BY <1>8, <2>2 DEF ClaimRollback
    <3>2. CASE v = m.epoch
      BY <2>2, <3>1, <3>2 DEF MayClaim, RealInv
    <3>3. CASE v # m.epoch
      <4>1. \A w \in Windows : w = m.epoch /\ pc[w] = "claim" => pc'[w] = "claim"
        BY <3>1, <3>3 DEF TypeOK
      <4>. QED
        BY <3>1, <4>1 DEF RealInv
    <3>. QED
      BY <3>2, <3>3
  <2>. QED
    BY <2>1, <2>2
<1>9. ASSUME NEW v \in Windows,
             GraceEnds(v) \/ LoopTop(v) \/ PeekPending(v) \/ TickIdle(v) \/ RollbackReturns(v)
             \/ MarkFailed(v) \/ ClaimReboot(v) \/ WaitEnds(v)
      PROVE  RealInv'
  <2>1. pc[v] # "claim" /\ \E x \in Pcs : pc' = [pc EXCEPT ![v] = x]
    BY <1>9 DEF GraceEnds, LoopTop, PeekPending, TickIdle, RollbackReturns, MarkFailed,
                ClaimReboot, WaitEnds, Pcs
  <2>2. \A w \in Windows : pc[w] = "claim" => pc'[w] = "claim"
    BY <2>1 DEF TypeOK
  <2>3. m'.epoch = m.epoch /\ m'.rolledBack = m.rolledBack /\ m'.dispatched = m.dispatched
    BY <1>9 DEF GraceEnds, LoopTop, PeekPending, TickIdle, RollbackReturns, MarkFailed,
                ClaimReboot, WaitEnds, TypeOK, Manager
  <2>. QED
    BY <1>3, <2>2, <2>3
<1>10. CASE Advance \/ ClockStep \/ UNCHANGED vars
  BY <1>3, <1>10 DEF Advance, ClockStep, vars, goVars
<1>. QED
  BY <1>1, <1>2, <1>4, <1>5, <1>6, <1>7, <1>8, <1>9, <1>10 DEF Next, Run, Operate

LEMMA StaleInductive == Spec => [](TypeOK /\ Absent /\ StaleInv /\ RealInv)
<1>1. Init => Absent /\ StaleInv /\ RealInv
  <2> SUFFICES ASSUME Init
               PROVE  Absent /\ StaleInv /\ RealInv
    OBVIOUS
  <2>1. m.epoch = 0 /\ ~m.rolledBack /\ \A w \in Windows : pc[w] = "absent"
    BY DEF Init
  <2>2. \A w \in Windows : ~(w < m.epoch)
    BY <2>1, Durations DEF Windows
  <2>3. Checking = {}
    BY <2>1 DEF Checking
  <2>. QED
    BY <2>1, <2>2, <2>3 DEF Absent, StaleInv, RealInv
<1>. QED
  BY <1>1, TypeCorrect, AbsentStep, StaleStep, RealStep, PTL DEF Spec

(* A window that considers itself rolled back really has a rollback behind it *)
(* or about to be claimed, for every setting of the durations in which a       *)
(* connectivity check returns within the grace period: the tick of a           *)
(* superseded goroutine comes too early to roll back the window that           *)
(* superseded it.                                                              *)
THEOREM RolledBackIsReal ==
    Spec => [](m.rolledBack => m.dispatched \/ \E w \in Windows : w = m.epoch /\ pc[w] = "claim")
  BY StaleInductive, PTL DEF RealInv
-----------------------------------------------------------------------------
(* Timers are prompt, and samples are taken at the time the check starts. *)
LEMMA PromptStep ==
  ASSUME TypeOK, PromptInv, [Next]_vars
  PROVE  PromptInv'
<1> USE Durations
<1>1. CASE Arm
  <2>1. m.epoch \in 0..MaxArms /\ m.epoch < MaxArms
    BY <1>1 DEF Arm, TypeOK, Manager
  <2>2. m.epoch + 1 \in Windows
    BY <2>1 DEF Windows
  <2>3. /\ pc' = [pc EXCEPT ![m.epoch + 1] = "grace"]
        /\ wake' = [wake EXCEPT ![m.epoch + 1] = now + Grace]
        /\ UNCHANGED <<started, sampled, now, skew, steps>>
    BY <1>1 DEF Arm, timeVars
  <2>. QED
    BY <2>2, <2>3 DEF PromptInv, TypeOK
<1>2. ASSUME UNCHANGED <<pc, wake, started, sampled, now, skew, steps>>
      PROVE  PromptInv'
  BY <1>2 DEF PromptInv
<1>3. CASE Confirm \/ UNCHANGED vars \/ \E o \in Operators : Operate(o)
  BY <1>2, <1>3 DEF Confirm, Operate, RollbackNow, ManualReturns, ManualMarks, vars, goVars, timeVars
<1>4. ASSUME NEW v \in Windows, NEW x, pc' = [pc EXCEPT ![v] = x],
             x \notin {"grace", "loop", "peek", "check"},
             \A y \in Windows : y # v => started'[y] = started[y] /\ sampled'[y] = sampled[y],
             UNCHANGED <<wake, now, skew, steps>>
      PROVE  PromptInv'
  <2>1. pc'[v] = x /\ \A y \in Windows : y # v => pc'[y] = pc[y]
    BY <1>4 DEF TypeOK
  <2>. QED
    BY <1>4, <2>1 DEF PromptInv
<1>5. ASSUME NEW v \in Windows, GraceEnds(v) \/ WaitEnds(v)
      PROVE  PromptInv'
  <2>1. CASE pc' = [pc EXCEPT ![v] = "done"] /\ UNCHANGED wake
    BY <1>4, <1>5, <2>1 DEF GraceEnds, WaitEnds, timeVars
  <2>2. CASE /\ pc' = [pc EXCEPT ![v] = "loop"]
             /\ \E d \in 0..Interval : wake' = [wake EXCEPT ![v] = now + d]
    <3>1. UNCHANGED <<started, sampled, now, skew, steps>>
      BY <1>5 DEF GraceEnds, WaitEnds, timeVars
    <3>2. pc'[v] = "loop" /\ wake'[v] <= now + Interval
      BY <2>2 DEF TypeOK
    <3>3. \A y \in Windows : y # v => pc'[y] = pc[y] /\ wake'[y] = wake[y]
      BY <2>2 DEF TypeOK
    <3>. QED
      BY <3>1, <3>2, <3>3 DEF PromptInv
  <2>3. Interval \in 0..Interval /\ \A d \in 1..Interval : d \in 0..Interval
    OBVIOUS
  <2>. QED
    BY <1>5, <2>1, <2>2, <2>3 DEF GraceEnds, WaitEnds
<1>6. ASSUME NEW v \in Windows, LoopTop(v)
      PROVE  PromptInv'
  <2>1. CASE pc' = [pc EXCEPT ![v] = "done"]
    BY <1>4, <1>6, <2>1 DEF LoopTop, timeVars
  <2>2. CASE pc' = [pc EXCEPT ![v] = "peek"]
    <3>1. pc[v] = "loop" /\ UNCHANGED <<wake, started, sampled, now, skew, steps>>
      BY <1>6 DEF LoopTop, timeVars
    <3>2. pc'[v] = "peek" /\ \A y \in Windows : y # v => pc'[y] = pc[y]
      BY <2>2 DEF TypeOK
    <3>. QED
      BY <3>1, <3>2 DEF PromptInv
  <2>. QED
    BY <1>6, <2>1, <2>2 DEF LoopTop
<1>7. ASSUME NEW v \in Windows, PeekPending(v)
      PROVE  PromptInv'
  <2>1. /\ pc[v] = "peek" /\ UNCHANGED <<wake, now, skew, steps>>
        /\ started' = [started EXCEPT ![v] = now] /\ sampled' = [sampled EXCEPT ![v] = now + skew]
    BY <1>7 DEF PeekPending, timeVars, nowMS
  <2>2. /\ started'[v] = now /\ sampled'[v] = now + skew
        /\ \A y \in Windows : y # v => started'[y] = started[y] /\ sampled'[y] = sampled[y]
    BY <2>1 DEF TypeOK
  <2>3. CASE pc' = [pc EXCEPT ![v] = "done"]
    BY <1>4, <2>1, <2>2, <2>3
  <2>4. CASE pc' = [pc EXCEPT ![v] = "check"]
    <3>1. pc'[v] = "check" /\ \A y \in Windows : y # v => pc'[y] = pc[y]
      BY <2>4 DEF TypeOK
    <3>2. steps = 0 => sampled'[v] = started'[v]
      BY <2>2 DEF PromptInv, TypeOK
    <3>. QED
      BY <2>1, <2>2, <3>1, <3>2 DEF PromptInv
  <2>. QED
    BY <1>7, <2>3, <2>4 DEF PeekPending
<1>8. ASSUME NEW v \in Windows, TickGood(v) \/ TickBad(v) \/ TickIdle(v)
      PROVE  PromptInv'
  BY <1>4, <1>8, TickFrame
<1>9. ASSUME NEW v \in Windows,
             ClaimRollback(v) \/ RollbackReturns(v) \/ MarkFailed(v) \/ ClaimReboot(v)
      PROVE  PromptInv'
  <2>1. \E x \in {"firing", "wait", "failed", "done"} : pc' = [pc EXCEPT ![v] = x]
    BY <1>9 DEF ClaimRollback, RollbackReturns, MarkFailed, ClaimReboot
  <2>2. /\ \A y \in Windows : y # v => started'[y] = started[y] /\ sampled'[y] = sampled[y]
        /\ UNCHANGED <<wake, now, skew, steps>>
    BY <1>9 DEF ClaimRollback, RollbackReturns, MarkFailed, ClaimReboot, timeVars, TypeOK
  <2>. QED
    BY <1>4, <2>1, <2>2
<1>10. CASE Advance
  <2>1. /\ now' = now + 1 /\ \A w \in Windows : ~Due(w)
        /\ UNCHANGED <<pc, wake, started, sampled, skew, steps>>
    BY <1>10 DEF Advance, goVars
  <2>2. \A w \in Windows : pc[w] \notin {"loop", "peek"} /\ (pc[w] = "grace" => now < wake[w])
    BY <2>1 DEF Due, TypeOK
  <2>. QED
    BY <2>1, <2>2 DEF PromptInv, TypeOK
<1>11. CASE ClockStep
  <2>1. steps' # 0 /\ UNCHANGED <<pc, wake, started, sampled, now>>
    BY <1>11 DEF ClockStep, goVars, TypeOK
  <2>. QED
    BY <2>1 DEF PromptInv
<1>. QED
  BY <1>1, <1>3, <1>5, <1>6, <1>7, <1>8, <1>9, <1>10, <1>11 DEF Next, Run

(* A step of one goroutine that claims nothing, fires nothing and reboots     *)
(* nothing.                                                                   *)
LEMMA LastFrame ==
  ASSUME TypeOK, LastInv, NEW v \in Windows, NEW x \in Pcs, pc' = [pc EXCEPT ![v] = x],
         m'.epoch = m.epoch, m'.rolledBack = m.rolledBack, m'.dispatched = m.dispatched,
         UNCHANGED <<fired, reboots, steps>>,
         x # "reboot", v = m.epoch /\ x \in {"claim", "firing", "failed"} => m.rolledBack,
         steps = 0 /\ m'.pending /\ m'.bad /\ ~m.rolledBack =>
            \A w \in Windows : w = m.epoch => BadFor(w)'
  PROVE  LastInv'
<1>1. pc'[v] = x /\ \A y \in Windows : y # v => pc'[y] = pc[y]
  BY DEF TypeOK
<1>2. \A w \in Windows : w = m'.epoch /\ pc'[w] \in {"claim", "firing", "failed"} => m'.rolledBack
  <2>1. \A w \in Windows : w = m.epoch /\ pc'[w] \in {"claim", "firing", "failed"} => m.rolledBack
    BY <1>1 DEF LastInv
  <2>. QED
    BY <2>1, Zenon
<1>3. \A w \in Windows : w = m'.epoch /\ m'.dispatched => fired'[w] = 1
  BY Zenon DEF LastInv
<1>4. steps' = 0 => \A w \in Windows : pc'[w] = "reboot" \/ w \in reboots' => fired'[w] = 1
  BY <1>1 DEF LastInv
<1>5. steps' = 0 /\ m'.pending /\ m'.bad /\ ~m'.rolledBack =>
         \A w \in Windows : w = m'.epoch => BadFor(w)'
  BY Zenon
<1>. QED
  BY <1>2, <1>3, <1>4, <1>5, Zenon DEF LastInv

LEMMA LastTickBad ==
  ASSUME RebootAfter > Grace + CheckTimeout,
         RebootAfter >= RollbackAfter + Interval, RebootAfter >= RollbackAfter + CheckTimeout,
         TypeOK, Absent, StaleInv, RealInv, PromptInv, LastInv,
         NEW v \in Windows, TickBad(v)
  PROVE  LastInv'
<1> USE Durations
<1>0. /\ UNCHANGED <<wake, started, sampled, now, steps, fired, reboots>>
      /\ started[v] \in Nat /\ sampled[v] \in Nat /\ now \in Nat /\ wake[v] \in Nat
      /\ m.badSince \in Nat
  BY TickFrame DEF TypeOK, Manager
<1>1. PICK since : since = IF m.bad THEN m.badSince ELSE sampled[v]
  OBVIOUS
<1>2. since \in Nat
  BY <1>0, <1>1
<1>3. /\ m.pending /\ pc[v] = "check"
      /\ m'.bad /\ m'.badSince = since /\ m'.epoch = m.epoch /\ m'.dispatched = m.dispatched
  BY <1>1, TickBadCases
<1>4. steps = 0 => /\ sampled[v] = started[v] /\ wake[v] <= sampled[v] + Interval
                   /\ now <= sampled[v] + CheckTimeout
  BY <1>3 DEF PromptInv, StaleInv
<1>5. CASE v # m.epoch
  <2>1. /\ v < m.epoch /\ ~m.bad /\ Overtaken(v)
        /\ m'.rolledBack = m.rolledBack /\ pc' = [pc EXCEPT ![v] = "wait"]
    BY <1>5, StaleTick
  <2>2. m.epoch \in Windows
    BY <2>1, EpochWindow
  <2>3. pc'[m.epoch] = pc[m.epoch] /\ pc[m.epoch] \in {"grace", "done"}
    BY <1>5, <2>1, <2>2 DEF TypeOK, Overtaken
  <2>4. steps = 0 => BadFor(m.epoch)'
    BY <1>0, <1>1, <1>3, <1>4, <2>1, <2>3 DEF BadFor, Overtaken
  <2>. QED
    BY <1>0, <1>3, <2>1, <2>4, LastFrame DEF Pcs
<1>6. CASE v = m.epoch
  <2>1. CASE /\ m'.pending = FALSE /\ m'.rolledBack = m.rolledBack
             /\ sampled[v] - since >= RebootAfter
             /\ pc' = [pc EXCEPT ![v] = "reboot"]
    <3>1. steps = 0 => fired[v] = 1
      <4> SUFFICES ASSUME steps = 0
                   PROVE  fired[v] = 1
        OBVIOUS
      <4>1. m.bad
        BY <1>0, <1>1, <2>1
      <4>2. m.rolledBack
        <5>1. sampled[v] >= m.badSince + RebootAfter
          BY <1>0, <1>1, <2>1, <4>1
        <5>2. m.pending /\ m.bad /\ ~m.rolledBack => sampled[v] < m.badSince + RebootAfter
          BY <1>3, <1>6 DEF LastInv, BadFor
        <5>3. ~(sampled[v] < m.badSince + RebootAfter)
          BY <1>0, <5>1
        <5>. QED
          BY <1>3, <4>1, <5>2, <5>3
      <4>3. m.dispatched
        BY <1>3, <1>6, <4>2 DEF RealInv
      <4>. QED
        BY <1>6, <4>3 DEF LastInv
    <3>2. pc'[v] = "reboot" /\ \A y \in Windows : y # v => pc'[y] = pc[y]
      BY <2>1 DEF TypeOK
    <3>3. \A w \in Windows : w = m'.epoch => pc'[w] \notin {"claim", "firing", "failed"}
      BY <1>3, <1>6, <3>2
    <3>4. \A w \in Windows : w = m'.epoch /\ m'.dispatched => fired'[w] = 1
      BY <1>0, <1>3 DEF LastInv
    <3>5. steps' = 0 => \A w \in Windows : pc'[w] = "reboot" \/ w \in reboots' => fired'[w] = 1
      BY <1>0, <3>1, <3>2 DEF LastInv
    <3>. QED
      BY <2>1, <3>3, <3>4, <3>5, Zenon DEF LastInv
  <2>2. CASE m'.rolledBack /\ pc' = [pc EXCEPT ![v] = "claim"]
    <3>1. pc'[v] = "claim" /\ \A y \in Windows : y # v => pc'[y] = pc[y]
      BY <2>2 DEF TypeOK
    <3>2. \A w \in Windows : w = m'.epoch /\ m'.dispatched => fired'[w] = 1
      BY <1>0, <1>3 DEF LastInv
    <3>3. steps' = 0 => \A w \in Windows : pc'[w] = "reboot" \/ w \in reboots' => fired'[w] = 1
      BY <1>0, <3>1 DEF LastInv
    <3>. QED
      BY <2>2, <3>2, <3>3, Zenon DEF LastInv
  <2>3. CASE /\ sampled[v] - since < RollbackAfter /\ m'.rolledBack = m.rolledBack
             /\ pc' = [pc EXCEPT ![v] = "wait"]
    <3>1. pc'[v] = "wait"
      BY <2>3 DEF TypeOK
    <3>2. steps = 0 => now < since + RebootAfter /\ wake[v] < since + RebootAfter
      BY <1>0, <1>2, <1>4, <2>3
    <3>3. steps = 0 => BadFor(v)'
      BY <1>0, <1>3, <3>1, <3>2 DEF BadFor
    <3>. QED
      BY <1>0, <1>3, <1>6, <2>3, <3>3, LastFrame DEF Pcs
  <2>4. CASE m.rolledBack /\ m'.rolledBack = m.rolledBack /\ pc' = [pc EXCEPT ![v] = "wait"]
    BY <1>0, <1>3, <2>4, LastFrame DEF Pcs
  <2>. QED
    BY <1>1, <2>1, <2>2, <2>3, <2>4, TickBadCases
<1>. QED
  BY <1>5, <1>6

LEMMA LastStep ==
  ASSUME RebootAfter > Grace + CheckTimeout,
         RebootAfter >= RollbackAfter + Interval, RebootAfter >= RollbackAfter + CheckTimeout,
         TypeOK, Fires, Absent, StaleInv, RealInv, PromptInv, LastInv, [Next]_vars
  PROVE  LastInv'
<1> USE Durations
<1>1. CASE Arm
  <2>1. m.epoch \in 0..MaxArms /\ m.epoch < MaxArms
    BY <1>1 DEF Arm, TypeOK, Manager
  <2>2. m.epoch + 1 \in Windows
    BY <2>1 DEF Windows
  <2>3. /\ m'.epoch = m.epoch + 1 /\ ~m'.bad /\ ~m'.dispatched
        /\ pc' = [pc EXCEPT ![m.epoch + 1] = "grace"]
        /\ UNCHANGED <<fired, reboots, steps>>
    BY <1>1 DEF Arm, Armed, timeVars, histVars
  <2>4. pc'[m.epoch + 1] = "grace" /\ \A y \in Windows : y # m.epoch + 1 => pc'[y] = pc[y]
    BY <2>2, <2>3 DEF TypeOK
  <2>. QED
    BY <2>3, <2>4 DEF LastInv
<1>2. ASSUME m'.epoch = m.epoch, ~m'.pending \/ m'.pending = m.pending,
             m'.bad = m.bad, m'.badSince = m.badSince, m'.rolledBack = m.rolledBack,
             m'.dispatched = m.dispatched,
             UNCHANGED <<pc, wake, sampled, now, steps, fired, reboots>>
      PROVE  LastInv'
  BY <1>2, Zenon DEF LastInv, BadFor
<1>3. CASE Confirm
  BY <1>2, <1>3 DEF Confirm, Confirmed, TypeOK, Manager, timeVars, histVars
<1>4. ASSUME NEW o \in Operators, ManualReturns(o) \/ ManualMarks(o)
      PROVE  LastInv'
  BY <1>2, <1>4 DEF ManualReturns, ManualMarks, TypeOK, Manager, goVars, timeVars, histVars
<1>5. ASSUME NEW o \in Operators, RollbackNow(o)
      PROVE  LastInv'
  <2>1. /\ ~m'.pending /\ m'.rolledBack /\ m'.dispatched /\ m'.epoch = m.epoch
        /\ UNCHANGED <<pc, steps, reboots>>
    BY <1>5 DEF RollbackNow, TypeOK, Manager, timeVars
  <2>2. \A w \in Windows : w = m.epoch => fired'[w] = 1
    <3>1. CASE ~m.dispatched /\ m.epoch \in Windows /\ fired' = [fired EXCEPT ![m.epoch] = @ + 1]
      BY <3>1 DEF Fires, TypeOK
    <3>2. CASE (m.dispatched \/ m.epoch = 0) /\ UNCHANGED fired
      <4>1. \A w \in Windows : w # 0
        BY DEF Windows
      <4>. QED
        BY <3>2, <4>1 DEF LastInv
    <3>. QED
      BY <1>5, <3>1, <3>2, RollbackNowCases
  <2>3. \A w \in Windows : w # m.epoch => fired'[w] = fired[w]
    BY <1>5, RollbackNowCases DEF TypeOK
  <2>4. steps' = 0 => \A w \in Windows : pc'[w] = "reboot" \/ w \in reboots' => fired'[w] = 1
    BY <2>1, <2>2, <2>3 DEF LastInv
  <2>. QED
    BY <2>1, <2>2, <2>4 DEF LastInv
<1>6. ASSUME NEW v \in Windows, GraceEnds(v) \/ LoopTop(v) \/ PeekPending(v) \/ WaitEnds(v)
      PROVE  LastInv'
  <2>1. UNCHANGED <<m, now, skew, steps, fired, reboots>>
    BY <1>6 DEF GraceEnds, LoopTop, PeekPending, WaitEnds, timeVars, histVars
  <2>2. \E x \in {"done", "loop", "peek", "check"} : pc' = [pc EXCEPT ![v] = x]
    BY <1>6 DEF GraceEnds, LoopTop, PeekPending, WaitEnds
  <2>3. /\ now \in Nat /\ m.badSince \in Nat /\ \A y \in Windows : wake[y] \in Nat
        /\ \A y \in Windows : y # v => pc'[y] = pc[y] /\ wake'[y] = wake[y] /\ sampled'[y] = sampled[y]
    BY <1>6 DEF GraceEnds, LoopTop, PeekPending, WaitEnds, TypeOK, Manager
  <2>4. ASSUME steps = 0, m.pending, m.bad, ~m.rolledBack, NEW w \in Windows, w = m.epoch
        PROVE  BadFor(w)'
    <3>1. BadFor(w)
      BY <2>4 DEF LastInv
    <3>2. CASE w # v
      BY <2>1, <2>3, <3>1, <3>2 DEF BadFor
    <3>3. CASE w = v
      <4>1. CASE pc' = [pc EXCEPT ![v] = "done"]
        <5>1. pc'[v] = "done"
          BY <4>1 DEF TypeOK
        <5>. QED
          BY <3>3, <5>1 DEF BadFor
      <4>2. CASE GraceEnds(v) /\ pc' = [pc EXCEPT ![v] = "loop"]
        <5>1. pc'[v] = "loop" /\ pc[v] = "grace" /\ now <= wake[v]
          BY <4>2 DEF GraceEnds, TypeOK, PromptInv
        <5>. QED
          BY <2>1, <2>3, <3>1, <3>3, <5>1 DEF BadFor
      <4>3. CASE WaitEnds(v) /\ pc' = [pc EXCEPT ![v] = "loop"]
        <5>1. pc'[v] = "loop" /\ pc[v] = "wait"
          BY <4>3 DEF WaitEnds, TypeOK
        <5>. QED
          BY <2>1, <3>1, <3>3, <5>1 DEF BadFor
      <4>4. CASE LoopTop(v) /\ pc' = [pc EXCEPT ![v] = "peek"]
        <5>1. pc'[v] = "peek" /\ pc[v] = "loop"
          BY <4>4 DEF LoopTop, TypeOK
        <5>. QED
          BY <2>1, <3>1, <3>3, <5>1 DEF BadFor
      <4>5. CASE PeekPending(v) /\ pc' = [pc EXCEPT ![v] = "check"]
        <5>1. pc'[v] = "check" /\ pc[v] = "peek" /\ sampled'[v] = now + skew /\ skew = 0
          BY <2>4, <4>5 DEF PeekPending, TypeOK, PromptInv, nowMS
        <5>. QED
          BY <2>1, <2>3, <3>1, <3>3, <5>1 DEF BadFor
      <4>. QED
        BY <1>6, <4>1, <4>2, <4>3, <4>4, <4>5 DEF GraceEnds, LoopTop, PeekPending, WaitEnds
    <3>. QED
      BY <3>2, <3>3
  <2>. QED
    BY <2>1, <2>2, <2>4, LastFrame DEF Pcs
<1>7. ASSUME NEW v \in Windows, TickGood(v)
      PROVE  LastInv'
  <2>1. /\ ~m'.bad /\ m'.epoch = m.epoch /\ m'.dispatched = m.dispatched
        /\ m'.rolledBack = m.rolledBack
        /\ \E x \in {"done", "wait"} : pc' = [pc EXCEPT ![v] = x]
    BY <1>7, TickGoodCases
  <2>2. UNCHANGED <<fired, reboots, steps>>
    BY <1>7, TickFrame
  <2>. QED
    BY <2>1, <2>2, LastFrame DEF Pcs
<1>8. ASSUME NEW v \in Windows, TickIdle(v)
      PROVE  LastInv'
  BY <1>8, LastFrame DEF TickIdle, timeVars, histVars, Pcs
<1>9. ASSUME NEW v \in Windows, ClaimRollback(v)
      PROVE  LastInv'
  <2>1. CASE MayClaim(v)
    <3>1. /\ v = m.epoch /\ m'.epoch = m.epoch /\ m'.dispatched /\ m'.rolledBack = m.rolledBack
          /\ m.rolledBack /\ fired[v] = 0
      BY <1>9, <2>1 DEF ClaimRollback, MayClaim, TypeOK, Manager, LastInv, Fires
    <3>2. /\ pc' = [pc EXCEPT ![v] = "firing"] /\ fired' = [fired EXCEPT ![v] = @ + 1]
          /\ UNCHANGED <<steps, reboots>>
      BY <1>9, <2>1 DEF ClaimRollback, timeVars
    <3>3. /\ pc'[v] = "firing" /\ fired'[v] = 1
          /\ \A y \in Windows : y # v => pc'[y] = pc[y] /\ fired'[y] = fired[y]
      BY <3>1, <3>2 DEF TypeOK
    <3>4. steps' = 0 => \A w \in Windows : pc'[w] = "reboot" \/ w \in reboots' => fired'[w] = 1
      BY <3>2, <3>3 DEF LastInv
    <3>5. m'.rolledBack
      BY <3>1
    <3>6. \A w \in Windows : w = m'.epoch => fired'[w] = 1
      BY <3>1, <3>3
    <3>. QED
      BY <3>4, <3>5, <3>6, Zenon DEF LastInv
  <2>2. CASE ~MayClaim(v)
    <3>1. /\ UNCHANGED <<m, fired, reboots, steps, wake, sampled, now>> /\ pc[v] = "claim"
          /\ pc' = [pc EXCEPT ![v] = "wait"]
      BY <1>9, <2>2 DEF ClaimRollback, timeVars
    <3>2. ASSUME steps = 0, m.pending, m.bad, ~m.rolledBack, NEW w \in Windows, w = m.epoch
          PROVE  BadFor(w)'
      <4>1. w # v /\ BadFor(w)
        BY <3>1, <3>2 DEF LastInv
      <4>2. pc'[w] = pc[w]
        BY <3>1, <4>1 DEF TypeOK
      <4>. QED
        BY <3>1, <4>1, <4>2 DEF BadFor
    <3>. QED
      BY <3>1, <3>2, LastFrame DEF Pcs
  <2>. QED
    BY <2>1, <2>2
<1>10. ASSUME NEW v \in Windows, RollbackReturns(v) \/ MarkFailed(v)
       PROVE  LastInv'
  <2>1. /\ pc[v] \in {"firing", "failed"} /\ m'.epoch = m.epoch /\ m'.dispatched = m.dispatched
        /\ m'.rolledBack = m.rolledBack /\ m'.pending = m.pending /\ m'.bad = m.bad
        /\ m'.badSince = m.badSince
        /\ UNCHANGED <<fired, reboots, steps, wake, sampled, now>>
    BY <1>10 DEF RollbackReturns, MarkFailed, TypeOK, Manager, timeVars, histVars
  <2>2. \E x \in {"wait", "failed"} : pc' = [pc EXCEPT ![v] = x]
    BY <1>10 DEF RollbackReturns, MarkFailed
  <2>3. ASSUME steps = 0, m'.pending, m'.bad, ~m.rolledBack, NEW w \in Windows, w = m.epoch
        PROVE  BadFor(w)'
    <3>1. w # v /\ BadFor(w)
      BY <2>1, <2>3 DEF LastInv
    <3>2. pc'[w] = pc[w]
      BY <2>2, <3>1 DEF TypeOK
    <3>. QED
      BY <2>1, <3>1, <3>2 DEF BadFor
  <2>4. v = m.epoch => m.rolledBack
    BY <2>1 DEF LastInv
  <2>. QED
    BY <2>1, <2>2, <2>3, <2>4, LastFrame DEF Pcs
<1>11. ASSUME NEW v \in Windows, ClaimReboot(v)
       PROVE  LastInv'
  <2>1. /\ pc[v] = "reboot" /\ UNCHANGED <<m, wake, sampled, now, steps, fired>>
        /\ reboots' \subseteq reboots \cup {v}
    BY <1>11 DEF ClaimReboot, timeVars
  <2>2. pc'[v] = "done" /\ \A y \in Windows : y # v => pc'[y] = pc[y]
    BY <1>11 DEF ClaimReboot, TypeOK
  <2>3. steps = 0 => \A w \in Windows : pc'[w] = "reboot" \/ w \in reboots' => fired[w] = 1
    BY <2>1, <2>2 DEF LastInv
  <2>4. \A w \in Windows : w = m.epoch /\ BadFor(w) => BadFor(w)'
    BY <2>1, <2>2 DEF BadFor
  <2>. QED
    BY <2>1, <2>2, <2>3, <2>4 DEF LastInv
<1>12. CASE Advance
  <2>1. /\ now' = now + 1 /\ \A w \in Windows : ~Due(w)
        /\ UNCHANGED <<m, pc, wake, sampled, steps, fired, reboots>>
    BY <1>12 DEF Advance, goVars, histVars
  <2>2. \A w \in Windows : pc[w] \notin {"loop", "peek"} /\ (pc[w] = "wait" => now < wake[w])
    BY <2>1 DEF Due, TypeOK
  <2>3. \A w \in Windows : BadFor(w) => BadFor(w)'
    BY <2>1, <2>2 DEF BadFor, TypeOK, Manager
  <2>. QED
    BY <2>1, <2>3 DEF LastInv
<1>13. CASE ClockStep
  <2>1. steps' # 0 /\ UNCHANGED <<m, pc, fired, reboots>>
    BY <1>13 DEF ClockStep, goVars, histVars, TypeOK
  <2>. QED
    BY <2>1 DEF LastInv
<1>14. CASE UNCHANGED vars
  BY <1>2, <1>14 DEF vars, goVars, timeVars, histVars
<1>. QED
  BY <1>1, <1>3, <1>4, <1>5, <1>6, <1>7, <1>8, <1>9, <1>10, <1>11, <1>12, <1>13, <1>14,
     LastTickBad DEF Next, Run, Operate

(* Rollback before reboot (RollbackIsReal), for all durations in which the    *)
(* reboot comes later than a first bad tick can be late: after the grace      *)
(* period and a check, and one interval or one check after the rollback. The  *)
(* code's 20 s, 15 s, 45 s and 5 min leave four minutes to spare.             *)
THEOREM RebootIsLast ==
  ASSUME RebootAfter > Grace + CheckTimeout,
         RebootAfter >= RollbackAfter + Interval, RebootAfter >= RollbackAfter + CheckTimeout
  PROVE  Spec => []RollbackIsReal
<1>1. Init => Fires /\ PromptInv /\ LastInv
  BY DEF Init, Fires, PromptInv, LastInv
<1>2. TypeOK /\ RealInv /\ LastInv => RollbackIsReal
  BY DEF TypeOK, RealInv, LastInv, RollbackIsReal
<1>. QED
  BY <1>1, <1>2, StaleInductive, FiresStep, PromptStep, LastStep, PTL DEF Spec
=============================================================================
