--------------------------- MODULE Plugins_proofs ---------------------------
(* The plugin manager's types and its crash-loop throttle, for any set of   *)
(* endpoints, any grace and any cooldown; and the endpoints themselves,      *)
(* handed on as texts: that every text of Share comes back.                  *)
EXTENDS Plugins, Share, TLAPS

(* pluginBackoffTicks never exceeds the cap, whatever the shift yields. *)
LEMMA ShiftedBound ==
    ASSUME NEW n, NEW cap \in Nat
    PROVE  Shifted(n, cap) \in 0..cap
  BY DEF Shifted

LEMMA BackoffBound ==
    ASSUME NEW r \in Nat
    PROVE  Backoff(r) \in 0..MaxCooldown
  <1>1. MaxCooldown \in Nat
    BY PluginsAssumption
  <1>2. Shifted(2 ^ (r - Grace - 1), MaxCooldown) \in 0..MaxCooldown
    BY <1>1, ShiftedBound
  <1>3. 0 \in 0..MaxCooldown /\ MaxCooldown \in 0..MaxCooldown
    BY <1>1
  <1>. QED
    BY <1>2, <1>3, Zenon DEF Backoff

LEMMA NoBackoffAtFirst == Backoff(0) = 0
  <1>1. 0 <= Grace
    BY PluginsAssumption
  <1>. QED
    BY <1>1, Zenon DEF Backoff

-----------------------------------------------------------------------------
(* Entries the actions write are entries. *)
LEMMA NoProcType == NoProc \in Proc
  <1>1. {0} \subseteq 0..RestartCap /\ {0} \subseteq 0..MaxCooldown
    BY PluginsAssumption
  <1>. QED
    BY <1>1 DEF NoProc, Proc, Engines, Long, Slots

LEMMA EntryType ==
    ASSUME NEW s \in SpecVals
    PROVE  /\ Entry(s) \in Proc
           /\ NativeConfig(s) \in Configs
           /\ s.eng \in Engines
  <1>1. NativeConfig(s) \in Configs
    BY DEF Configs
  <1>2. s.eng \in Engines
    BY PluginsAssumption
  <1>. QED
    BY <1>1, <1>2, NoProcType DEF Entry, NoProc, Proc

LEMMA RetiredType ==
    ASSUME NEW i \in Ids, procs \in [Ids -> Proc]
    PROVE  Retired(i) \in Proc
  BY DEF Retired, Proc, Slots

LEMMA CountedType ==
    ASSUME NEW i \in Ids, procs \in [Ids -> Proc]
    PROVE  Counted(i) \in 0..RestartCap
  <1>1. procs[i].restarts \in 0..RestartCap /\ RestartCap \in Nat
    BY PluginsAssumption DEF Proc
  <1>. QED
    BY <1>1 DEF Counted

LEMMA RelaunchedType ==
    ASSUME NEW i \in Ids, procs \in [Ids -> Proc]
    PROVE  Relaunched(i) \in Proc
  <1>1. Counted(i) \in 0..RestartCap /\ Counted(i) \in Nat
    BY CountedType, PluginsAssumption
  <1>2. Backoff(Counted(i)) \in 0..MaxCooldown
    BY <1>1, BackoffBound
  <1>. QED
    BY <1>1, <1>2, RetiredType DEF Relaunched, Proc
-----------------------------------------------------------------------------
LEMMA TypeInit == Init => TypeOK
  <1>. SUFFICES ASSUME Init PROVE TypeOK
    OBVIOUS
  <1>1. procs \in [Ids -> Proc]
    BY NoProcType DEF Init
  <1>2. bins \subseteq Engines
    BY PluginsAssumption DEF Init, Used
  <1>3. lastSpecs \in SpecSets
    BY DEF Init, NoSpecs, SpecSets
  <1>4. op \in [pc : {"idle", "stop", "start", "tick"}, todo : SUBSET Ids,
                failed : SUBSET Ids]
    BY DEF Init, Idle
  <1>. QED
    BY <1>1, <1>2, <1>3, <1>4 DEF Init, TypeOK

(* What stop leaves behind. *)
LEMMA StopType ==
    ASSUME TypeOK, NEW I \in SUBSET Ids, Stop(I)
    PROVE  /\ procs' \in [Ids -> Proc]
           /\ os' \in [Ids -> [Slots -> Configs \cup {None}]]
           /\ links' \in [Ids -> Configs \cup {None}]
           /\ files' \subseteq Ids \X Engines
           /\ waited' \in [Ids -> Nat]
  <1>1. procs' \in [Ids -> Proc]
    BY NoProcType DEF TypeOK, Stop
  <1>2. os' \in [Ids -> [Slots -> Configs \cup {None}]]
    BY DEF TypeOK, Stop, Killed
  <1>3. links' \in [Ids -> Configs \cup {None}]
    BY DEF TypeOK, Stop, Unlinked
  <1>4. files' \subseteq Ids \X Engines
    BY DEF TypeOK, Stop
  <1>5. waited' \in [Ids -> Nat]
    BY DEF TypeOK, Stop
  <1>. QED
    BY <1>1, <1>2, <1>3, <1>4, <1>5

-----------------------------------------------------------------------------
(* The throttle's bookkeeping.  An entry that an action leaves alone keeps  *)
(* its pace; so it is enough to look at the entry it writes.                *)
LEMMA PaceInit == Init => PaceInv
  BY NoBackoffAtFirst DEF Init, PaceInv, Paced, NoProc, Idle

LEMMA StepSyncBegin ==
    ASSUME TypeOK, PaceInv, NEW specs \in SpecSets, SyncBegin(specs)
    PROVE  TypeOK' /\ PaceInv'
  <1>1. TypeOK'
    BY DEF TypeOK, SyncBegin, SpecSets
  <1>2. PaceInv'
    BY DEF PaceInv, Paced, SyncBegin
  <1>. QED
    BY <1>1, <1>2

LEMMA StopPace ==
    ASSUME TypeOK, PaceInv, NEW I \in SUBSET Ids, Stop(I)
    PROVE  /\ \A i \in Ids : Paced(i)'
           /\ \A i \in Ids : procs'[i].managed => procs'[i].tracked
  <1>. SUFFICES ASSUME NEW i \in Ids
                PROVE  Paced(i)' /\ (procs'[i].managed => procs'[i].tracked)
    OBVIOUS
  <1>1. CASE i \in I
    <2>1. procs'[i] = NoProc /\ waited'[i] = 0
      BY <1>1 DEF Stop
    <2>. QED
      BY <2>1 DEF Paced, NoProc
  <1>2. CASE i \notin I
    <2>1. procs'[i] = procs[i] /\ waited'[i] = waited[i]
      BY <1>2 DEF Stop
    <2>. QED
      BY <2>1 DEF Paced, PaceInv
  <1>. QED
    BY <1>1, <1>2

LEMMA StepSyncStop ==
    ASSUME TypeOK, PaceInv, NEW i \in Ids, SyncStop(i)
    PROVE  TypeOK' /\ PaceInv'
  <1>0. /\ op' \in [pc : {"idle", "stop", "start", "tick"}, todo : SUBSET Ids,
                    failed : SUBSET Ids]
        /\ op'.pc = "stop"
    BY DEF TypeOK, SyncStop
  <1>1. CASE Keeps(i) /\ procs' = [procs EXCEPT ![i].restarts = 0, ![i].cooldown = 0]
             /\ UNCHANGED <<os, links, files, waited>>
    <2>1. procs[i].running /\ waited[i] = 0
      BY <1>1 DEF Keeps, PaceInv, Paced
    <2>2. procs'[i] = [procs[i] EXCEPT !.restarts = 0, !.cooldown = 0]
      BY <1>1 DEF TypeOK, Proc
    <2>3. procs'[i] \in Proc
      <3>1. 0 \in 0..RestartCap /\ 0 \in 0..MaxCooldown
        BY PluginsAssumption
      <3>. QED
        BY <2>2, <3>1 DEF TypeOK, Proc
    <2>4. \A j \in Ids : j # i => procs'[j] = procs[j]
      BY <1>1 DEF TypeOK
    <2>5. procs' \in [Ids -> Proc]
      BY <1>1, <2>3, <2>4 DEF TypeOK
    <2>6. TypeOK'
      BY <1>0, <1>1, <2>5 DEF TypeOK, SyncStop, SpecSets, bounds
    <2>7. Paced(i)' /\ (procs'[i].managed => procs'[i].tracked)
      BY <1>1, <2>1, <2>2, NoBackoffAtFirst DEF Paced, PaceInv, TypeOK, Proc
    <2>8. \A j \in Ids : Paced(j)' /\ (procs'[j].managed => procs'[j].tracked)
      BY <1>1, <2>4, <2>7 DEF Paced, PaceInv
    <2>. QED
      BY <1>0, <2>6, <2>8 DEF PaceInv
  <1>2. CASE ~Keeps(i) /\ Stop({i})
    <2>1. TypeOK'
      BY <1>0, <1>2, StopType DEF TypeOK, SyncStop, SpecSets, bounds
    <2>2. PaceInv'
      BY <1>0, <1>2, StopPace DEF PaceInv
    <2>. QED
      BY <2>1, <2>2
  <1>. QED
    BY <1>1, <1>2 DEF SyncStop

LEMMA StepSyncTurn ==
    ASSUME TypeOK, PaceInv, SyncTurn
    PROVE  TypeOK' /\ PaceInv'
  <1>1. TypeOK'
    BY DEF TypeOK, SyncTurn, SpecSets, bounds
  <1>2. PaceInv'
    BY DEF PaceInv, Paced, SyncTurn, TypeOK
  <1>. QED
    BY <1>1, <1>2

(* An entry written by start is fresh: nothing was waited for it yet. *)
LEMMA StepSyncStart ==
    ASSUME TypeOK, PaceInv, NEW i \in Ids, SyncStart(i)
    PROVE  TypeOK' /\ PaceInv'
  <1>. DEFINE s == lastSpecs[i]
              p == Entry(s)
  <1>1. op.pc = "start" /\ i \in op.todo /\ s \in SpecVals /\ ~procs[i].managed
    BY DEF SyncStart, PaceInv, TypeOK, SpecSets
  <1>2. waited[i] = 0
    BY <1>1 DEF PaceInv, Paced
  <1>3. p \in Proc /\ p.config \in Configs /\ s.eng \in Engines
    BY <1>1, EntryType DEF Entry, NoProc
  <1>. HIDE DEF p, s
  <1>4. \E q \in Proc : /\ procs' = [procs EXCEPT ![i] = q]
                        /\ q.tracked /\ q.restarts = 0 /\ q.cooldown = 0
    <2>1. /\ p.tracked /\ p.restarts = 0 /\ p.cooldown = 0
          /\ [p EXCEPT !.needsBin = TRUE] \in Proc
          /\ [p EXCEPT !.running = TRUE] \in Proc
          /\ \A k \in Slots : [p EXCEPT !.running = TRUE, !.managed = TRUE, !.cmd = k] \in Proc
      BY <1>3 DEF Proc, p, Entry, NoProc
    <2>2. \/ procs' = [procs EXCEPT ![i] = p]
          \/ procs' = [procs EXCEPT ![i] = [p EXCEPT !.needsBin = TRUE]]
          \/ procs' = [procs EXCEPT ![i] = [p EXCEPT !.running = TRUE]]
          \/ \E k \in Slots : procs' = [procs EXCEPT ![i] =
                                [p EXCEPT !.running = TRUE, !.managed = TRUE, !.cmd = k]]
      BY Zenon DEF SyncStart, p, s
    <2>. QED
      BY <1>3, <2>1, <2>2 DEF Proc
  <1>5. PICK q \in Proc : /\ procs' = [procs EXCEPT ![i] = q]
                          /\ q.tracked /\ q.restarts = 0 /\ q.cooldown = 0
    BY <1>4
  <1>6. os' \in [Ids -> [Slots -> Configs \cup {None}]]
    <2>1. \/ os' = os
          \/ \E k \in Slots : os' = [os EXCEPT ![i][k] = p.config]
      BY Zenon DEF SyncStart, NotStarted, Launch, p, s
    <2>. QED
      BY <1>3, <2>1 DEF TypeOK
  <1>7. links' \in [Ids -> Configs \cup {None}]
    BY <1>3 DEF SyncStart, NotStarted, TypeOK, p, s
  <1>8. files' \subseteq Ids \X Engines
    <2>1. files' = files \/ files' = files \cup {<<i, s.eng>>}
      BY Zenon DEF SyncStart, s
    <2>. QED
      BY <1>3, <2>1 DEF TypeOK
  <1>9. /\ op' \in [pc : {"idle", "stop", "start", "tick"}, todo : SUBSET Ids,
                    failed : SUBSET Ids]
        /\ op'.pc = "start" /\ op'.todo = op.todo \ {i}
    <2>1. \/ op' = [op EXCEPT !.todo = @ \ {i}]
          \/ op' = [op EXCEPT !.todo = @ \ {i}, !.failed = @ \cup {i}]
      BY Zenon DEF SyncStart, NotStarted, Started
    <2>2. op \in [pc : {"idle", "stop", "start", "tick"}, todo : SUBSET Ids,
                  failed : SUBSET Ids]
      BY DEF TypeOK
    <2>3. CASE op' = [op EXCEPT !.todo = @ \ {i}]
      BY <1>1, <2>2, <2>3
    <2>4. CASE op' = [op EXCEPT !.todo = @ \ {i}, !.failed = @ \cup {i}]
      BY <1>1, <2>2, <2>4
    <2>. QED
      BY <2>1, <2>3, <2>4
  <1>10. faults' \in Nat
    <2>1. faults' = faults \/ faults' = faults + 1
      BY Zenon DEF SyncStart, Fault
    <2>. QED
      BY <2>1 DEF TypeOK
  <1>11. UNCHANGED <<lastSpecs, bins, stopped, syncs, changes, waited>>
    BY DEF SyncStart
  <1>12. procs' \in [Ids -> Proc] /\ procs'[i] = q
         /\ \A j \in Ids : j # i => procs'[j] = procs[j]
    BY <1>5 DEF TypeOK
  <1>13. TypeOK'
    BY <1>6, <1>7, <1>8, <1>9, <1>10, <1>11, <1>12 DEF TypeOK, SpecSets
  <1>14. Paced(i)' /\ (procs'[i].managed => procs'[i].tracked)
    BY <1>2, <1>5, <1>11, <1>12, NoBackoffAtFirst DEF Paced
  <1>15. \A j \in Ids : Paced(j)' /\ (procs'[j].managed => procs'[j].tracked)
    BY <1>11, <1>12, <1>14 DEF Paced, PaceInv
  <1>16. \A j \in op'.todo : lastSpecs'[j] # None /\ ~procs'[j].tracked
    BY <1>1, <1>9, <1>11, <1>12 DEF PaceInv, TypeOK
  <1>. QED
    BY <1>9, <1>13, <1>15, <1>16 DEF PaceInv

LEMMA StepEnds ==
    ASSUME TypeOK, PaceInv, SyncEnd \/ TickEnd \/ TickBegin
    PROVE  TypeOK' /\ PaceInv'
  <1>1. TypeOK'
    BY DEF TypeOK, SyncEnd, TickEnd, TickBegin, Idle, SpecSets, bounds
  <1>2. PaceInv'
    BY DEF PaceInv, Paced, SyncEnd, TickEnd, TickBegin, Idle, TypeOK
  <1>. QED
    BY <1>1, <1>2
-----------------------------------------------------------------------------
(* A Supervise pass over entry i: whatever the branch, the others stay.     *)
LEMMA Pass ==
    ASSUME TypeOK, PaceInv, NEW i \in Ids, Visited(i),
           NEW q \in Proc, procs' = [procs EXCEPT ![i] = q], q.tracked,
           NEW n \in Nat, waited' = [waited EXCEPT ![i] = n],
           q.managed => n + q.cooldown = Backoff(q.restarts),
           ~q.managed => n = 0,
           q.running => n = 0,
           os' \in [Ids -> [Slots -> Configs \cup {None}]],
           faults' \in Nat,
           UNCHANGED <<lastSpecs, links, files, bins, stopped, syncs, changes>>
    PROVE  TypeOK' /\ PaceInv'
  <1>1. /\ op.pc = "tick" /\ i \in op.todo
        /\ op' \in [pc : {"idle", "stop", "start", "tick"}, todo : SUBSET Ids,
                    failed : SUBSET Ids]
        /\ op'.pc = "tick" /\ op'.todo = op.todo \ {i}
    BY DEF TypeOK, Visited
  <1>2. procs' \in [Ids -> Proc] /\ procs'[i] = q
        /\ \A j \in Ids : j # i => procs'[j] = procs[j]
    BY DEF TypeOK
  <1>3. waited' \in [Ids -> Nat] /\ waited'[i] = n
        /\ \A j \in Ids : j # i => waited'[j] = waited[j]
    BY DEF TypeOK
  <1>4. TypeOK'
    BY <1>1, <1>2, <1>3 DEF TypeOK, SpecSets
  <1>5. Paced(i)' /\ (procs'[i].managed => procs'[i].tracked)
    BY <1>2, <1>3 DEF Paced
  <1>6. \A j \in Ids : Paced(j)' /\ (procs'[j].managed => procs'[j].tracked)
    BY <1>2, <1>3, <1>5 DEF Paced, PaceInv
  <1>7. \A j \in op'.todo : procs'[j].managed
    BY <1>1, <1>2 DEF PaceInv, TypeOK
  <1>. QED
    BY <1>1, <1>4, <1>6, <1>7 DEF PaceInv

LEMMA Watched ==
    ASSUME TypeOK, PaceInv, NEW i \in Ids, Visited(i)
    PROVE  /\ procs[i] \in Proc /\ procs[i].managed /\ procs[i].tracked
           /\ waited[i] + procs[i].cooldown = Backoff(procs[i].restarts)
           /\ waited[i] \in Nat
           /\ procs[i].restarts \in Nat /\ procs[i].cooldown \in 0..MaxCooldown
  <1>1. procs[i] \in Proc /\ waited[i] \in Nat
    BY DEF TypeOK
  <1>2. procs[i].managed
    BY DEF PaceInv, Visited, TypeOK
  <1>3. procs[i].restarts \in Nat /\ procs[i].cooldown \in 0..MaxCooldown
    BY <1>1, PluginsAssumption DEF Proc
  <1>. QED
    BY <1>1, <1>2, <1>3 DEF PaceInv, Paced

LEMMA StepHealthy ==
    ASSUME TypeOK, PaceInv, NEW i \in Ids, Healthy(i)
    PROVE  TypeOK' /\ PaceInv'
  <1>. DEFINE q == [procs[i] EXCEPT !.restarts = 0, !.cooldown = 0]
  <1>1. Visited(i) /\ procs[i] \in Proc /\ procs[i].tracked
    BY Watched DEF Healthy
  <1>2. 0 \in 0..RestartCap /\ 0 \in 0..MaxCooldown
    BY PluginsAssumption
  <1>3. /\ q \in Proc /\ q.tracked /\ q.restarts = 0 /\ q.cooldown = 0
    BY <1>1, <1>2 DEF Proc
  <1>4. procs' = [procs EXCEPT ![i] = q]
    BY DEF Healthy, TypeOK
  <1>5. 0 + q.cooldown = Backoff(q.restarts)
    BY <1>3, NoBackoffAtFirst
  <1>. HIDE DEF q
  <1>6. waited' = [waited EXCEPT ![i] = 0]
    BY DEF Healthy
  <1>7. /\ UNCHANGED <<lastSpecs, links, files, bins, stopped, syncs, changes>>
        /\ os' \in [Ids -> [Slots -> Configs \cup {None}]] /\ faults' \in Nat
    BY DEF Healthy, bounds, TypeOK
  <1>. QED
    BY <1>1, <1>3, <1>4, <1>5, <1>6, <1>7, Pass

LEMMA StepThrottle ==
    ASSUME TypeOK, PaceInv, NEW i \in Ids, Throttle(i)
    PROVE  TypeOK' /\ PaceInv'
  <1>. DEFINE q == [Retired(i) EXCEPT !.cooldown = Left(i)]
  <1>1. /\ Visited(i) /\ procs[i].cooldown > 0
        /\ procs' = [procs EXCEPT ![i] = q]
        /\ waited' = [waited EXCEPT ![i] = waited[i] + 1]
    BY DEF Throttle
  <1>2. /\ procs[i] \in Proc /\ procs[i].managed /\ procs[i].tracked
        /\ waited[i] + procs[i].cooldown = Backoff(procs[i].restarts)
        /\ waited[i] \in Nat /\ procs[i].cooldown \in 0..MaxCooldown
    BY <1>1, Watched
  <1>3. Left(i) \in 0..MaxCooldown /\ waited[i] + 1 \in Nat
        /\ (waited[i] + 1) + Left(i) = Backoff(procs[i].restarts)
    BY <1>1, <1>2, PluginsAssumption DEF Left
  <1>4. /\ q \in Proc /\ q.tracked /\ q.managed /\ ~q.running
        /\ q.cooldown = Left(i) /\ q.restarts = procs[i].restarts
    BY <1>2, <1>3 DEF Retired, Proc
  <1>. HIDE DEF q
  <1>5. /\ UNCHANGED <<lastSpecs, links, files, bins, stopped, syncs, changes>>
        /\ os' \in [Ids -> [Slots -> Configs \cup {None}]] /\ faults' \in Nat
    BY DEF Throttle, bounds, TypeOK
  <1>6. (waited[i] + 1) + q.cooldown = Backoff(q.restarts)
    BY <1>3, <1>4
  <1>. QED
    BY <1>1, <1>3, <1>4, <1>5, <1>6, Pass

LEMMA StepRelaunch ==
    ASSUME TypeOK, PaceInv, NEW i \in Ids, Relaunch(i)
    PROVE  TypeOK' /\ PaceInv'
  <1>1. Visited(i) /\ waited' = [waited EXCEPT ![i] = 0]
    BY DEF Relaunch
  <1>2. procs[i] \in Proc /\ procs[i].managed /\ procs[i].tracked
    BY <1>1, Watched
  <1>3. UNCHANGED <<lastSpecs, links, files, bins, stopped, syncs, changes>>
    BY DEF Relaunch
  <1>4. faults' \in Nat
    <2>1. faults' = faults \/ faults' = faults + 1
      BY Zenon DEF Relaunch, Fault
    <2>. QED
      BY <2>1 DEF TypeOK
  <1>5. os' \in [Ids -> [Slots -> Configs \cup {None}]]
    <2>1. os' = os \/ \E k \in Slots : os' = [os EXCEPT ![i][k] = procs[i].config]
      BY Zenon DEF Relaunch, Launch
    <2>2. procs[i].config \in Configs \cup {None}
      BY <1>2 DEF Proc
    <2>3. os \in [Ids -> [Slots -> Configs \cup {None}]]
      BY DEF TypeOK
    <2>4. ASSUME NEW k \in Slots
          PROVE  [os EXCEPT ![i][k] = procs[i].config]
                   \in [Ids -> [Slots -> Configs \cup {None}]]
      BY <2>2, <2>3
    <2>. QED
      BY <2>1, <2>3, <2>4
  <1>6. \E q \in Proc : /\ procs' = [procs EXCEPT ![i] = q] /\ q.tracked
                        /\ q.managed => 0 + q.cooldown = Backoff(q.restarts)
    <2>. DEFINE g == [Retired(i) EXCEPT !.needsBin = TRUE, !.managed = FALSE]
                u(k) == [Relaunched(i) EXCEPT !.running = TRUE, !.cmd = k]
    <2>1. \/ procs' = [procs EXCEPT ![i] = g]
          \/ procs' = [procs EXCEPT ![i] = Relaunched(i)]
          \/ \E k \in Slots : procs' = [procs EXCEPT ![i] = u(k)]
      BY Zenon DEF Relaunch
    <2>2. g \in Proc /\ g.tracked /\ ~g.managed
      BY <1>2 DEF Retired, Proc, Slots
    <2>3. Relaunched(i) \in Proc
      BY RelaunchedType DEF TypeOK
    <2>4. Backoff(Counted(i)) \in 0..MaxCooldown
      <3>1. Counted(i) \in Nat
        BY CountedType, PluginsAssumption DEF TypeOK
      <3>. QED
        BY <3>1, BackoffBound
    <2>5. /\ Relaunched(i).tracked
          /\ Relaunched(i).cooldown = Backoff(Relaunched(i).restarts)
      BY <1>2 DEF Relaunched, Retired, Proc
    <2>6. \A k \in Slots : /\ u(k) \in Proc /\ u(k).tracked
                           /\ u(k).cooldown = Backoff(u(k).restarts)
      BY <2>3, <2>5 DEF Proc
    <2>7. \A c \in 0..MaxCooldown : 0 + c = c
      BY PluginsAssumption
    <2>8. \A r \in Proc : r.cooldown \in 0..MaxCooldown
      BY DEF Proc
    <2>. HIDE DEF g, u
    <2>9. CASE procs' = [procs EXCEPT ![i] = g]
      BY <2>2, <2>9
    <2>10. CASE procs' = [procs EXCEPT ![i] = Relaunched(i)]
      BY <2>3, <2>5, <2>7, <2>8, <2>10
    <2>11. CASE \E k \in Slots : procs' = [procs EXCEPT ![i] = u(k)]
      BY <2>6, <2>7, <2>8, <2>11
    <2>. QED
      BY <2>1, <2>9, <2>10, <2>11
  <1>7. PICK q \in Proc : /\ procs' = [procs EXCEPT ![i] = q] /\ q.tracked
                          /\ q.managed => 0 + q.cooldown = Backoff(q.restarts)
    BY <1>6
  <1>. QED
    BY <1>1, <1>3, <1>4, <1>5, <1>7, Pass

LEMMA StepOthers ==
    ASSUME TypeOK, PaceInv,
           \/ StopAll
           \/ \E i \in Ids, k \in Slots : Exit(i, k)
           \/ \E e \in Used : BinChange(e)
    PROVE  TypeOK' /\ PaceInv'
  <1>1. CASE StopAll
    <2>1. Stop(Ids) /\ op.pc = "idle" /\ UNCHANGED <<lastSpecs, op, bins, bounds>>
          /\ stopped' = TRUE
      BY <1>1 DEF StopAll
    <2>2. TypeOK'
      BY <2>1, StopType DEF TypeOK, SpecSets, bounds
    <2>3. PaceInv'
      BY <2>1, StopPace DEF PaceInv
    <2>. QED
      BY <2>2, <2>3
  <1>2. CASE \E i \in Ids, k \in Slots : Exit(i, k)
    <2>1. TypeOK'
      BY <1>2 DEF Exit, TypeOK, SpecSets, bounds
    <2>2. PaceInv'
      BY <1>2 DEF Exit, PaceInv, Paced
    <2>. QED
      BY <2>1, <2>2
  <1>3. CASE \E e \in Used : BinChange(e)
    <2>0. Used \subseteq Engines
      BY PluginsAssumption DEF Used
    <2>1. TypeOK'
      BY <1>3, <2>0 DEF BinChange, TypeOK, SpecSets
    <2>2. PaceInv'
      BY <1>3 DEF BinChange, PaceInv, Paced
    <2>. QED
      BY <2>1, <2>2
  <1>. QED
    BY <1>1, <1>2, <1>3

LEMMA Inductive == TypeOK /\ PaceInv /\ [Next]_vars => TypeOK' /\ PaceInv'
  <1>. SUFFICES ASSUME TypeOK, PaceInv, [Next]_vars
                PROVE  TypeOK' /\ PaceInv'
    OBVIOUS
  <1>1. CASE UNCHANGED vars
    BY <1>1 DEF vars, bounds, TypeOK, PaceInv, Paced, SpecSets
  <1>2. CASE \E specs \in SpecSets : SyncBegin(specs)
    BY <1>2, StepSyncBegin
  <1>3. CASE Syncing
    BY <1>3, StepSyncStop, StepSyncStart, StepSyncTurn, StepEnds DEF Syncing
  <1>4. CASE Supervise
    BY <1>4, StepHealthy, StepThrottle, StepRelaunch, StepEnds DEF Supervise
  <1>. QED
    BY <1>1, <1>2, <1>3, <1>4, StepOthers DEF Next
-----------------------------------------------------------------------------
(* The type invariant of the plugin manager, with the bookkeeping it needs: *)
(* a Sync only starts what has a spec.                                      *)
THEOREM TypeCorrect == Spec => []TypeOK
  <1>. QED
    BY TypeInit, PaceInit, Inductive, PTL DEF Spec

(* pluginBackoffTicks and Supervise: a crashed process is passed over by at *)
(* most MaxCooldown passes in a row, for every cap and grace.               *)
THEOREM NeverGivesUp == Spec => []PassedOver
  <1>1. TypeOK /\ PaceInv => PassedOver
    <2>. SUFFICES ASSUME TypeOK, PaceInv, NEW i \in Ids
                  PROVE  waited[i] <= MaxCooldown
      BY DEF PassedOver
    <2>1. /\ procs[i] \in Proc /\ waited[i] \in Nat
          /\ procs[i].restarts \in Nat /\ procs[i].cooldown \in 0..MaxCooldown
      BY PluginsAssumption DEF TypeOK, Proc
    <2>2. Backoff(procs[i].restarts) \in 0..MaxCooldown
      BY <2>1, BackoffBound
    <2>3. \/ waited[i] + procs[i].cooldown = Backoff(procs[i].restarts)
          \/ waited[i] = 0
      BY DEF PaceInv, Paced
    <2>. QED
      BY <2>1, <2>2, <2>3, PluginsAssumption
  <1>. QED
    BY <1>1, TypeInit, PaceInit, Inductive, PTL DEF Spec

(* Supervise launches nothing for an entry whose cooldown is not over.      *)
LEMMA NoEarlyLaunch ==
    ASSUME TypeOK, PaceInv, [Next]_vars, op.pc = "tick",
           NEW i \in Ids, procs[i].managed, waited[i] < Backoff(procs[i].restarts),
           NEW k \in Slots, os'[i][k] # None
    PROVE  os[i][k] # None
  <1>1. procs[i].cooldown # 0
    <2>1. /\ waited[i] \in Nat /\ procs[i].cooldown \in 0..MaxCooldown
          /\ waited[i] + procs[i].cooldown = Backoff(procs[i].restarts)
      BY DEF TypeOK, Proc, PaceInv, Paced
    <2>. QED
      BY <2>1, PluginsAssumption
  <1>2. CASE UNCHANGED os
    BY <1>2
  <1>3. CASE \E j \in Ids : Relaunch(j)
    <2>1. PICK j \in Ids : Relaunch(j)
      BY <1>3
    <2>2. j # i
      BY <1>1, <2>1 DEF Relaunch
    <2>3. os' = os \/ \E l \in Slots : os' = [os EXCEPT ![j][l] = procs[j].config]
      BY <2>1, Zenon DEF Relaunch, Launch
    <2>. QED
      BY <2>2, <2>3 DEF TypeOK
  <1>4. CASE \E j \in Ids, l \in Slots : Exit(j, l)
    BY <1>4 DEF Exit, TypeOK
  <1>5. UNCHANGED os \/ (\E j \in Ids : Relaunch(j)) \/ \E j \in Ids, l \in Slots : Exit(j, l)
    BY DEF Next, vars, SyncBegin, Syncing, SyncStop, SyncStart, SyncTurn, SyncEnd,
           Supervise, TickBegin, TickEnd, Healthy, Throttle, StopAll, BinChange
  <1>. QED
    BY <1>2, <1>3, <1>4, <1>5

(* Supervise's throttle: while the cooldown charged for the restarts so far *)
(* is not waited out, a pass launches no process for that endpoint.         *)
THEOREM CrashLoopThrottled == Spec => Throttled
  <1>1. TypeOK /\ PaceInv /\ [Next]_vars =>
          [op.pc = "tick" =>
             \A i \in Ids :
                procs[i].managed /\ waited[i] < Backoff(procs[i].restarts) =>
                   \A k \in Slots : os'[i][k] # None => os[i][k] # None]_vars
    BY NoEarlyLaunch
  <1>. QED
    BY <1>1, TypeInit, PaceInit, Inductive, PTL DEF Spec, Throttled
-----------------------------------------------------------------------------
(* What runs for an entry is the entry's: its process under its handle, its  *)
(* interface, its file; and the entry itself is what the last Sync asked for *)
(* once that Sync has looked at it.                                          *)
Settled(i) == op.pc = "stop" => i \notin op.todo
Own(i) ==
    /\ \A k \in Slots : os[i][k] # None => /\ procs[i].running /\ procs[i].cmd = k
                                           /\ os[i][k] = procs[i].config
    /\ links[i] # None => /\ procs[i].running /\ procs[i].eng = "awg"
                          /\ links[i] = procs[i].config
    /\ \A e \in Engines : <<i, e>> \in files => procs[i].tracked /\ e = procs[i].eng
    /\ procs[i].running => procs[i].tracked
    /\ procs[i].managed => procs[i].eng \in Long
    /\ procs[i].tracked => procs[i].config.eng = procs[i].eng
    /\ procs[i].tracked /\ Settled(i) =>
          lastSpecs[i] # None /\ procs[i].config = NativeConfig(lastSpecs[i])
OwnInv == \A i \in Ids : Own(i)

(* NativeConfig keeps the engine: only the port is dropped. *)
LEMMA ConfigEngine ==
    ASSUME NEW s \in SpecVals
    PROVE  NativeConfig(s).eng = s.eng
  <1>1. "eng" \in DOMAIN s
    BY PluginsAssumption
  <1>. QED
    BY <1>1 DEF NativeConfig

LEMMA OwnInit == Init => OwnInv
  <1>. SUFFICES ASSUME Init, NEW i \in Ids
                PROVE  Own(i)
    BY DEF OwnInv
  <1>1. procs[i] = NoProc /\ links[i] = None /\ files = {}
    BY DEF Init
  <1>2. \A k \in Slots : os[i][k] = None
    BY DEF Init
  <1>. QED
    BY <1>1, <1>2 DEF Own, NoProc

(* An endpoint an action does not touch keeps what it owns. *)
LEMMA OwnFrame ==
    ASSUME NEW j \in Ids, Own(j),
           procs'[j] = procs[j], os'[j] = os[j], links'[j] = links[j],
           \A e \in Engines : <<j, e>> \in files' => <<j, e>> \in files,
           lastSpecs'[j] = lastSpecs[j],
           Settled(j)' => Settled(j)
    PROVE  Own(j)'
  <1>1. /\ procs[j].running => procs[j].tracked
        /\ procs[j].managed => procs[j].eng \in Long
        /\ procs[j].tracked => procs[j].config.eng = procs[j].eng
        /\ procs[j].tracked /\ Settled(j)' =>
              lastSpecs[j] # None /\ procs[j].config = NativeConfig(lastSpecs[j])
    BY Zenon DEF Own
  <1>2. /\ \A k \in Slots : os[j][k] # None => /\ procs[j].running /\ procs[j].cmd = k
                                               /\ os[j][k] = procs[j].config
        /\ links[j] # None => /\ procs[j].running /\ procs[j].eng = "awg"
                              /\ links[j] = procs[j].config
        /\ \A e \in Engines : <<j, e>> \in files' => procs[j].tracked /\ e = procs[j].eng
    BY Zenon DEF Own
  <1>. QED
    BY <1>1, <1>2, Zenon DEF Own

(* An endpoint without an entry has nothing running and no file. *)
LEMMA Bare ==
    ASSUME TypeOK, NEW i \in Ids, Own(i), ~procs[i].tracked
    PROVE  /\ \A k \in Slots : os[i][k] = None
           /\ links[i] = None
           /\ \A e \in Engines : <<i, e>> \notin files
  BY Zenon DEF Own

(* stop leaves nothing of the entries it stops. *)
LEMMA OwnStop ==
    ASSUME TypeOK, OwnInv, NEW I \in SUBSET Ids, Stop(I), UNCHANGED lastSpecs,
           NEW j \in Ids, j \notin I => (Settled(j)' => Settled(j))
    PROVE  Own(j)'
  <1>1. CASE j \in I
    <2>1. procs'[j] = NoProc
      BY <1>1 DEF Stop
    <2>2. \A k \in Slots : os'[j][k] = None
      BY <1>1 DEF Stop, Killed, OwnInv, Own
    <2>3. links'[j] = None
      BY <1>1 DEF Stop, Unlinked, OwnInv, Own
    <2>4. \A e \in Engines : <<j, e>> \notin files'
      BY <1>1 DEF Stop, OwnInv, Own
    <2>. QED
      BY <2>1, <2>2, <2>3, <2>4 DEF Own, NoProc
  <1>2. CASE j \notin I
    <2>1. procs'[j] = procs[j] /\ os'[j] = os[j] /\ links'[j] = links[j]
      BY <1>2 DEF Stop
    <2>2. \A e \in Engines : <<j, e>> \in files' => <<j, e>> \in files
      BY DEF Stop
    <2>. QED
      BY <1>2, <2>1, <2>2, OwnFrame DEF OwnInv
  <1>. QED
    BY <1>1, <1>2

LEMMA OwnSyncBegin ==
    ASSUME TypeOK, OwnInv, NEW specs \in SpecSets, SyncBegin(specs)
    PROVE  OwnInv'
  <1>. SUFFICES ASSUME NEW j \in Ids
                PROVE  Own(j)'
    BY DEF OwnInv
  <1>1. procs[j].tracked => ~Settled(j)'
    BY DEF SyncBegin, Settled
  <1>. QED
    BY <1>1 DEF SyncBegin, OwnInv, Own

LEMMA OwnSyncStop ==
    ASSUME TypeOK, OwnInv, NEW i \in Ids, SyncStop(i)
    PROVE  OwnInv'
  <1>. SUFFICES ASSUME NEW j \in Ids
                PROVE  Own(j)'
    BY DEF OwnInv
  <1>1. j # i => (Settled(j)' => Settled(j))
    BY DEF SyncStop, Settled, TypeOK
  <1>2. UNCHANGED lastSpecs
    BY DEF SyncStop
  <1>3. CASE ~Keeps(i) /\ Stop({i})
    BY <1>1, <1>2, <1>3, OwnStop
  <1>4. CASE Keeps(i) /\ procs' = [procs EXCEPT ![i].restarts = 0, ![i].cooldown = 0]
             /\ UNCHANGED <<os, links, files, waited>>
    <2>1. CASE j # i
      <3>1. procs'[j] = procs[j]
        BY <1>4, <2>1 DEF TypeOK
      <3>. QED
        BY <1>1, <1>2, <1>4, <2>1, <3>1, OwnFrame DEF OwnInv
    <2>2. CASE j = i
      <3>1. procs'[i] = [procs[i] EXCEPT !.restarts = 0, !.cooldown = 0]
        BY <1>4 DEF TypeOK, Proc
      <3>2. /\ procs'[i].tracked = procs[i].tracked /\ procs'[i].config = procs[i].config
            /\ procs'[i].eng = procs[i].eng /\ procs'[i].running = procs[i].running
            /\ procs'[i].managed = procs[i].managed /\ procs'[i].cmd = procs[i].cmd
        BY <3>1 DEF TypeOK, Proc
      <3>3. lastSpecs[i] # None /\ procs[i].config = NativeConfig(lastSpecs[i])
        BY <1>4 DEF Keeps, Unchanged
      <3>. QED
        <4>1. Own(i)
          BY DEF OwnInv
        <4>. QED
          BY <1>2, <1>4, <2>2, <3>2, <3>3, <4>1, Zenon DEF Own
    <2>. QED
      BY <2>1, <2>2
  <1>. QED
    BY <1>3, <1>4 DEF SyncStop

LEMMA OwnSyncStart ==
    ASSUME TypeOK, PaceInv, OwnInv, NEW i \in Ids, SyncStart(i)
    PROVE  OwnInv'
  <1>. SUFFICES ASSUME NEW j \in Ids
                PROVE  Own(j)'
    BY DEF OwnInv
  <1>. DEFINE s == lastSpecs[i]
              p == Entry(s)
  <1>1. op.pc = "start" /\ s \in SpecVals /\ ~procs[i].tracked
    BY DEF SyncStart, PaceInv, TypeOK, SpecSets
  <1>2. /\ \A k \in Slots : os[i][k] = None
        /\ links[i] = None
        /\ \A e \in Engines : <<i, e>> \notin files
    BY <1>1, Bare DEF OwnInv
  <1>3. /\ p.tracked /\ ~p.running /\ ~p.managed /\ p.config = NativeConfig(s)
        /\ p.eng = s.eng /\ p.config.eng = s.eng /\ s # None
        /\ p \in Proc
    BY <1>1, ConfigEngine, EntryType, PluginsAssumption DEF Entry, NoProc
  <1>4. UNCHANGED lastSpecs /\ op'.pc = "start"
    BY <1>1 DEF SyncStart, Started, NotStarted, TypeOK
  <1>5. files' = files \/ files' = files \cup {<<i, s.eng>>}
    BY Zenon DEF SyncStart
  <1>6. CASE j # i
    <2>1. procs'[j] = procs[j]
      BY <1>6 DEF SyncStart, TypeOK
    <2>2. os'[j] = os[j]
      BY <1>6 DEF SyncStart, NotStarted, Launch, TypeOK
    <2>3. links'[j] = links[j]
      BY <1>6 DEF SyncStart, NotStarted, TypeOK
    <2>4. \A e \in Engines : <<j, e>> \in files' => <<j, e>> \in files
      BY <1>5, <1>6
    <2>5. Settled(j)
      BY <1>1 DEF Settled
    <2>. QED
      BY <1>4, <2>1, <2>2, <2>3, <2>4, <2>5, OwnFrame DEF OwnInv
  <1>7. CASE j = i
    <2>1. \A e \in Engines : <<i, e>> \in files' => e = s.eng
      BY <1>2, <1>5
    <2>. HIDE DEF s, p
    <2>2. CASE /\ \/ procs' = [procs EXCEPT ![i] = p]
                  \/ procs' = [procs EXCEPT ![i] = [p EXCEPT !.needsBin = TRUE]]
               /\ UNCHANGED <<os, links>>
      <3>1. /\ procs'[i].tracked /\ ~procs'[i].running /\ ~procs'[i].managed
            /\ procs'[i].config = NativeConfig(s) /\ procs'[i].eng = s.eng
        <4>1. CASE procs'[i] = p
          BY <1>3, <4>1
        <4>2. CASE procs'[i] = [p EXCEPT !.needsBin = TRUE]
          BY <1>3, <4>2 DEF Proc
        <4>. QED
          BY <2>2, <4>1, <4>2 DEF TypeOK
      <3>. QED
        BY <1>2, <1>3, <1>4, <1>7, <2>1, <2>2, <3>1 DEF Own, s
    <2>3. ASSUME NEW k \in Slots, Launch(i, k, p.config), s.eng \in Long, UNCHANGED links,
                 procs' = [procs EXCEPT ![i] = [p EXCEPT !.running = TRUE,
                                                         !.managed = TRUE, !.cmd = k]]
          PROVE  Own(j)'
      <3>1. /\ procs'[i].tracked /\ procs'[i].running /\ procs'[i].cmd = k
            /\ procs'[i].config = p.config /\ procs'[i].eng = s.eng
        BY <1>3, <2>3 DEF TypeOK, Proc
      <3>2. \A l \in Slots : os'[i][l] # None => l = k /\ os'[i][l] = p.config
        BY <1>2, <2>3 DEF Launch, TypeOK
      <3>. QED
        BY <1>2, <1>3, <1>4, <1>7, <2>1, <2>3, <3>1, <3>2 DEF Own, s
    <2>4. CASE /\ s.eng \notin Long /\ links' = [links EXCEPT ![i] = p.config]
               /\ procs' = [procs EXCEPT ![i] = [p EXCEPT !.running = TRUE]]
               /\ UNCHANGED os
      <3>1. /\ procs'[i].tracked /\ procs'[i].running /\ ~procs'[i].managed
            /\ procs'[i].config = p.config /\ procs'[i].eng = s.eng
        BY <1>3, <2>4 DEF TypeOK, Proc
      <3>2. s.eng = "awg" /\ links'[i] = p.config
        BY <1>1, <2>4, EntryType DEF Engines, TypeOK
      <3>. QED
        BY <1>2, <1>3, <1>4, <1>7, <2>1, <2>4, <3>1, <3>2 DEF Own, s
    <2>5. \/ /\ \/ procs' = [procs EXCEPT ![i] = p]
                \/ procs' = [procs EXCEPT ![i] = [p EXCEPT !.needsBin = TRUE]]
             /\ UNCHANGED <<os, links>>
          \/ \E k \in Slots : /\ Launch(i, k, p.config) /\ s.eng \in Long /\ UNCHANGED links
                              /\ procs' = [procs EXCEPT ![i] = [p EXCEPT !.running = TRUE,
                                                                !.managed = TRUE, !.cmd = k]]
          \/ /\ s.eng \notin Long /\ links' = [links EXCEPT ![i] = p.config]
             /\ procs' = [procs EXCEPT ![i] = [p EXCEPT !.running = TRUE]]
             /\ UNCHANGED os
      BY DEF SyncStart, NotStarted, s, p
    <2>. QED
      BY <2>2, <2>3, <2>4, <2>5
  <1>. QED
    BY <1>6, <1>7

(* The turn from stopping to starting, and the ends of a Sync and a pass:    *)
(* every endpoint has been looked at.                                        *)
LEMMA OwnTurns ==
    ASSUME TypeOK, OwnInv, SyncTurn \/ SyncEnd \/ TickBegin \/ TickEnd
    PROVE  OwnInv'
  <1>. SUFFICES ASSUME NEW j \in Ids
                PROVE  Own(j)'
    BY DEF OwnInv
  <1>1. Settled(j)
    BY DEF SyncTurn, SyncEnd, TickBegin, TickEnd, Settled
  <1>2. UNCHANGED <<procs, os, links, files, lastSpecs>>
    BY DEF SyncTurn, SyncEnd, TickBegin, TickEnd
  <1>. QED
    BY <1>1, <1>2, OwnFrame DEF OwnInv

(* A Supervise pass retires only what is down, and relaunches from the entry. *)
LEMMA OwnPass ==
    ASSUME TypeOK, PaceInv, OwnInv, NEW i \in Ids, Healthy(i) \/ Throttle(i) \/ Relaunch(i)
    PROVE  OwnInv'
  <1>. SUFFICES ASSUME NEW j \in Ids
                PROVE  Own(j)'
    BY DEF OwnInv
  <1>1. Visited(i) /\ UNCHANGED <<lastSpecs, links, files>>
    BY DEF Healthy, Throttle, Relaunch
  <1>2. op.pc = "tick" /\ op'.pc = "tick" /\ procs[i].managed /\ procs[i] \in Proc
    BY <1>1, Watched DEF Visited, TypeOK
  <1>3. procs[i].tracked /\ links[i] = None
    BY <1>2 DEF PaceInv, OwnInv, Own, Long
  <1>4. CASE j # i
    <2>1. procs'[j] = procs[j]
      BY <1>4 DEF Healthy, Throttle, Relaunch, TypeOK
    <2>2. os'[j] = os[j]
      BY <1>4 DEF Healthy, Throttle, Relaunch, Launch, TypeOK
    <2>3. Settled(j)
      BY <1>2 DEF Settled
    <2>. QED
      BY <1>1, <2>1, <2>2, <2>3, OwnFrame DEF OwnInv
  <1>5. CASE j = i
    <2>1. /\ \A e \in Engines : <<i, e>> \in files => e = procs[i].eng
          /\ procs[i].eng \in Long /\ procs[i].config.eng = procs[i].eng
          /\ lastSpecs[i] # None /\ procs[i].config = NativeConfig(lastSpecs[i])
      BY <1>2, <1>3 DEF OwnInv, Own, Settled
    <2>2. Down(i) => \A k \in Slots : os[i][k] = None
      BY DEF OwnInv, Own, Down, Dead
    <2>3. \E q \in Proc :
             /\ procs' = [procs EXCEPT ![i] = q]
             /\ q.tracked /\ q.eng = procs[i].eng /\ q.config = procs[i].config
             /\ \A k \in Slots : os'[i][k] # None => /\ q.running /\ q.cmd = k
                                                     /\ os'[i][k] = procs[i].config
      <3>1. CASE Healthy(i)
        <4>. DEFINE q == [procs[i] EXCEPT !.restarts = 0, !.cooldown = 0]
        <4>1. 0 \in 0..RestartCap /\ 0 \in 0..MaxCooldown
          BY PluginsAssumption
        <4>2. /\ q \in Proc /\ q.tracked /\ q.eng = procs[i].eng /\ q.config = procs[i].config
              /\ q.running = procs[i].running /\ q.cmd = procs[i].cmd
          BY <1>2, <1>3, <4>1 DEF Proc
        <4>3. procs' = [procs EXCEPT ![i] = q] /\ UNCHANGED os
          BY <3>1 DEF Healthy, TypeOK
        <4>. HIDE DEF q
        <4>4. \A k \in Slots : os'[i][k] # None => /\ q.running /\ q.cmd = k
                                                   /\ os'[i][k] = procs[i].config
          BY <4>2, <4>3 DEF OwnInv, Own
        <4>. QED
          BY <4>2, <4>3, <4>4
      <3>2. CASE Throttle(i)
        <4>. DEFINE q == [Retired(i) EXCEPT !.cooldown = Left(i)]
        <4>1. procs[i].cooldown > 0 /\ Down(i) /\ UNCHANGED os
              /\ procs' = [procs EXCEPT ![i] = q]
          BY <3>2 DEF Throttle
        <4>2. Left(i) \in 0..MaxCooldown
          BY <1>2, <4>1, PluginsAssumption DEF Left, Proc
        <4>3. q \in Proc /\ q.tracked /\ q.eng = procs[i].eng /\ q.config = procs[i].config
          BY <1>2, <1>3, <4>2 DEF Retired, Proc, Slots
        <4>. HIDE DEF q
        <4>. QED
          BY <2>2, <4>1, <4>3
      <3>3. CASE Relaunch(i)
        <4>. DEFINE g == [Retired(i) EXCEPT !.needsBin = TRUE, !.managed = FALSE]
                    r == Relaunched(i)
                    u(k) == [r EXCEPT !.running = TRUE, !.cmd = k]
        <4>1. Down(i)
          BY <3>3 DEF Relaunch
        <4>2. g \in Proc /\ g.tracked /\ g.eng = procs[i].eng /\ g.config = procs[i].config
          BY <1>2, <1>3 DEF Retired, Proc, Slots
        <4>3. r \in Proc
          BY RelaunchedType DEF TypeOK
        <4>4. r.tracked /\ r.eng = procs[i].eng /\ r.config = procs[i].config
          BY <1>2, <1>3 DEF Relaunched, Retired, Proc
        <4>. HIDE DEF r
        <4>5. \A k \in Slots : /\ u(k) \in Proc /\ u(k).tracked /\ u(k).running /\ u(k).cmd = k
                               /\ u(k).eng = procs[i].eng /\ u(k).config = procs[i].config
          BY <4>3, <4>4 DEF Proc
        <4>6. \/ procs' = [procs EXCEPT ![i] = g] /\ UNCHANGED os
              \/ procs' = [procs EXCEPT ![i] = r] /\ UNCHANGED os
              \/ \E k \in Slots : /\ procs' = [procs EXCEPT ![i] = u(k)]
                                  /\ os' = [os EXCEPT ![i][k] = procs[i].config]
          BY <3>3, Zenon DEF Relaunch, Launch, r
        <4>. HIDE DEF g, u
        <4>7. CASE procs' = [procs EXCEPT ![i] = g] /\ UNCHANGED os
          BY <2>2, <4>1, <4>2, <4>7
        <4>8. CASE procs' = [procs EXCEPT ![i] = r] /\ UNCHANGED os
          BY <2>2, <4>1, <4>3, <4>4, <4>8
        <4>9. ASSUME NEW k \in Slots, procs' = [procs EXCEPT ![i] = u(k)],
                     os' = [os EXCEPT ![i][k] = procs[i].config]
              PROVE  \E q \in Proc :
                        /\ procs' = [procs EXCEPT ![i] = q]
                        /\ q.tracked /\ q.eng = procs[i].eng /\ q.config = procs[i].config
                        /\ \A l \in Slots : os'[i][l] # None => /\ q.running /\ q.cmd = l
                                                                /\ os'[i][l] = procs[i].config
          <5>1. \A l \in Slots : os'[i][l] # None => l = k /\ os'[i][l] = procs[i].config
            BY <2>2, <4>1, <4>9 DEF TypeOK
          <5>. QED
            BY <4>5, <4>9, <5>1
        <4>. QED
          BY <4>6, <4>7, <4>8, <4>9
      <3>. QED
        BY <3>1, <3>2, <3>3
    <2>4. PICK q \in Proc :
             /\ procs' = [procs EXCEPT ![i] = q]
             /\ q.tracked /\ q.eng = procs[i].eng /\ q.config = procs[i].config
             /\ \A k \in Slots : os'[i][k] # None => /\ q.running /\ q.cmd = k
                                                     /\ os'[i][k] = procs[i].config
      BY <2>3
    <2>5. procs'[i] = q
      BY <2>4 DEF TypeOK
    <2>. QED
      BY <1>1, <1>3, <1>5, <2>1, <2>4, <2>5 DEF Own
  <1>. QED
    BY <1>4, <1>5

LEMMA OwnStep == TypeOK /\ PaceInv /\ OwnInv /\ [Next]_vars => OwnInv'
  <1>. SUFFICES ASSUME TypeOK, PaceInv, OwnInv, [Next]_vars
                PROVE  OwnInv'
    OBVIOUS
  <1>1. CASE UNCHANGED vars \/ \E e \in Used : BinChange(e)
    BY <1>1 DEF vars, BinChange, OwnInv, Own, Settled
  <1>2. CASE \E i \in Ids, k \in Slots : Exit(i, k)
    <2>1. PICK i \in Ids, k \in Slots : Exit(i, k)
      BY <1>2
    <2>2. UNCHANGED <<procs, lastSpecs, op, links, files>>
      BY <2>1 DEF Exit
    <2>3. \A j \in Ids, l \in Slots : os'[j][l] # None => os'[j][l] = os[j][l]
      BY <2>1 DEF Exit, TypeOK
    <2>. QED
      BY <2>2, <2>3 DEF OwnInv, Own, Settled
  <1>3. CASE StopAll
    <2>1. Stop(Ids) /\ UNCHANGED lastSpecs
      BY <1>3 DEF StopAll
    <2>. QED
      BY <2>1, OwnStop DEF OwnInv
  <1>4. CASE \E specs \in SpecSets : SyncBegin(specs)
    BY <1>4, OwnSyncBegin
  <1>5. CASE Syncing
    BY <1>5, OwnSyncStop, OwnSyncStart, OwnTurns DEF Syncing
  <1>6. CASE Supervise
    BY <1>6, OwnPass, OwnTurns DEF Supervise
  <1>. QED
    BY <1>1, <1>2, <1>3, <1>4, <1>5, <1>6 DEF Next

(* Sync, Supervise and StopAll lose sight of no process, no interface and no *)
(* file, for any endpoints and engines (Serves): between Syncs what runs is  *)
(* what the last Sync asked for.                                             *)
THEOREM PluginsServe == Spec => []Serves
  <1>1. TypeOK /\ OwnInv => Serves
    <2>. SUFFICES ASSUME TypeOK, OwnInv
                  PROVE  Serves
      OBVIOUS
    <2>1. Tracked
      BY DEF OwnInv, Own, Tracked
    <2>2. ASSUME op.pc \in {"idle", "tick"}, NEW i \in Ids
          PROVE  /\ \A k \in Slots : os[i][k] # None =>
                       lastSpecs[i] # None /\ os[i][k] = NativeConfig(lastSpecs[i])
                 /\ links[i] # None =>
                       lastSpecs[i] # None /\ links[i] = NativeConfig(lastSpecs[i])
                 /\ \A e \in Engines : <<i, e>> \in files =>
                       lastSpecs[i] # None /\ e = lastSpecs[i].eng
      <3>1. procs[i].tracked => /\ lastSpecs[i] # None /\ lastSpecs[i] \in SpecVals
                                /\ procs[i].config = NativeConfig(lastSpecs[i])
                                /\ procs[i].eng = lastSpecs[i].eng
        <4>1. Settled(i)
          BY <2>2 DEF Settled
        <4>2. lastSpecs[i] \in SpecVals \cup {None}
          BY DEF TypeOK, SpecSets
        <4>. QED
          BY <4>1, <4>2, ConfigEngine DEF OwnInv, Own
      <3>. QED
        BY <3>1 DEF OwnInv, Own
    <2>. QED
      BY <2>1, <2>2 DEF Serves
  <1>. QED
    BY <1>1, TypeInit, PaceInit, OwnInit, Inductive, OwnStep, PTL DEF Spec

(* Where a Sync stands: what it has looked at and kept is marked running,    *)
(* and what it has turned to is done, failed, or still to do.                *)
SyncInv ==
    /\ op.pc = "stop" =>
          \A i \in Ids : procs[i].tracked /\ i \notin op.todo => procs[i].running
    /\ op.pc = "start" =>
          \A i \in Ids : lastSpecs[i] # None =>
             i \in op.todo \/ procs[i].running \/ i \in op.failed

LEMMA SyncStep == TypeOK /\ PaceInv /\ SyncInv /\ [Next]_vars => SyncInv'
  <1>. SUFFICES ASSUME TypeOK, PaceInv, SyncInv, [Next]_vars
                PROVE  SyncInv'
    OBVIOUS
  <1>1. ASSUME NEW specs \in SpecSets, SyncBegin(specs)
        PROVE  SyncInv'
    BY <1>1 DEF SyncBegin, SyncInv
  <1>2. ASSUME NEW i \in Ids, SyncStop(i)
        PROVE  SyncInv'
    <2>1. op'.pc = "stop" /\ op'.todo = op.todo \ {i} /\ op.pc = "stop"
      BY <1>2 DEF SyncStop, TypeOK
    <2>2. ASSUME NEW j \in Ids, procs'[j].tracked, j \notin op'.todo
          PROVE  procs'[j].running
      <3>1. CASE ~Keeps(i) /\ Stop({i})
        BY <2>1, <2>2, <3>1 DEF Stop, NoProc, SyncInv
      <3>2. CASE Keeps(i) /\ procs' = [procs EXCEPT ![i].restarts = 0, ![i].cooldown = 0]
        <4>1. CASE j # i
          BY <2>1, <2>2, <3>2, <4>1 DEF SyncInv, TypeOK
        <4>2. CASE j = i
          <5>1. procs'[i] = [procs[i] EXCEPT !.restarts = 0, !.cooldown = 0]
            BY <3>2 DEF TypeOK, Proc
          <5>2. procs'[i].running = procs[i].running
            BY <5>1 DEF TypeOK, Proc
          <5>. QED
            BY <3>2, <4>2, <5>2, Zenon DEF Keeps
        <4>. QED
          BY <4>1, <4>2
      <3>. QED
        BY <1>2, <3>1, <3>2 DEF SyncStop
    <2>. QED
      BY <2>1, <2>2 DEF SyncInv
  <1>3. CASE SyncTurn
    BY <1>3 DEF SyncTurn, SyncInv, TypeOK
  <1>4. ASSUME NEW i \in Ids, SyncStart(i)
        PROVE  SyncInv'
    <2>1. /\ op.pc = "start" /\ op'.pc = "start" /\ op'.todo = op.todo \ {i}
          /\ op.failed \subseteq op'.failed /\ UNCHANGED lastSpecs
      <3>1. \/ op' = [op EXCEPT !.todo = @ \ {i}]
            \/ op' = [op EXCEPT !.todo = @ \ {i}, !.failed = @ \cup {i}]
        BY <1>4, Zenon DEF SyncStart, NotStarted, Started
      <3>2. op.pc = "start" /\ UNCHANGED lastSpecs
        BY <1>4 DEF SyncStart
      <3>3. CASE op' = [op EXCEPT !.todo = @ \ {i}]
        BY <3>2, <3>3 DEF TypeOK
      <3>4. CASE op' = [op EXCEPT !.todo = @ \ {i}, !.failed = @ \cup {i}]
        BY <3>2, <3>4 DEF TypeOK
      <3>. QED
        BY <3>1, <3>3, <3>4
    <2>2. procs'[i].running \/ i \in op'.failed
      <3>. DEFINE s == lastSpecs[i]
                  p == Entry(s)
      <3>1. p \in Proc
        BY <1>4, EntryType DEF SyncStart, PaceInv, TypeOK, SpecSets
      <3>2. \/ NotStarted(i)
            \/ \E k \in Slots : procs' = [procs EXCEPT ![i] =
                                  [p EXCEPT !.running = TRUE, !.managed = TRUE, !.cmd = k]]
            \/ procs' = [procs EXCEPT ![i] = [p EXCEPT !.running = TRUE]]
        BY <1>4, Zenon DEF SyncStart
      <3>. HIDE DEF p
      <3>3. CASE NotStarted(i)
        BY <3>3 DEF NotStarted, TypeOK
      <3>4. CASE procs' = [procs EXCEPT ![i] = [p EXCEPT !.running = TRUE]]
        BY <3>1, <3>4 DEF TypeOK, Proc
      <3>5. ASSUME NEW k \in Slots,
                   procs' = [procs EXCEPT ![i] =
                               [p EXCEPT !.running = TRUE, !.managed = TRUE, !.cmd = k]]
            PROVE  procs'[i].running
        BY <3>1, <3>5 DEF TypeOK, Proc
      <3>. QED
        BY <3>2, <3>3, <3>4, <3>5
    <2>3. \A j \in Ids : j # i => procs'[j] = procs[j]
      BY <1>4 DEF SyncStart, TypeOK
    <2>. QED
      BY <2>1, <2>2, <2>3 DEF SyncInv
  <1>5. CASE SyncEnd
    BY <1>5 DEF SyncEnd, Idle, SyncInv
  <1>6. CASE Supervise \/ StopAll
    <2>1. op'.pc \in {"idle", "tick"}
      <3>1. ASSUME NEW i \in Ids, Visited(i)
            PROVE  op'.pc = "tick"
        BY <3>1 DEF Visited, TypeOK
      <3>2. CASE \E i \in Ids : Healthy(i) \/ Throttle(i) \/ Relaunch(i)
        BY <3>1, <3>2, Zenon DEF Healthy, Throttle, Relaunch
      <3>3. CASE TickBegin \/ TickEnd \/ StopAll
        BY <3>3 DEF TickBegin, TickEnd, StopAll, Idle
      <3>. QED
        BY <1>6, <3>2, <3>3 DEF Supervise
    <2>. QED
      BY <2>1 DEF SyncInv
  <1>7. CASE UNCHANGED <<procs, lastSpecs, op>>
    BY <1>7 DEF SyncInv
  <1>8. ASSUME \/ \E i \in Ids, k \in Slots : Exit(i, k)
               \/ \E e \in Used : BinChange(e)
               \/ UNCHANGED vars
        PROVE  UNCHANGED <<procs, lastSpecs, op>>
    BY <1>8 DEF Exit, BinChange, vars
  <1>. QED
    BY <1>1, <1>2, <1>3, <1>4, <1>5, <1>6, <1>7, <1>8 DEF Next, Syncing

(* A Sync leaves nothing it was asked for unattended (Resolved): each plugin *)
(* is marked running or was tried by this very Sync and failed, whatever     *)
(* crashes, whatever binary disappears and whichever order the map yields.   *)
THEOREM SyncResolves == Spec => Resolved
  <1>. DEFINE Done == op.pc = "start" /\ op'.pc = "idle" =>
                 \A i \in Ids : lastSpecs[i] # None => procs[i].running \/ i \in op.failed
  <1>1. TypeOK /\ SyncInv /\ [Next]_vars => Done
    <2>. SUFFICES ASSUME TypeOK, SyncInv, [Next]_vars, op.pc = "start", op'.pc = "idle"
                  PROVE  op.todo = {}
      BY DEF SyncInv
    <2>. QED
      BY DEF Next, vars, Syncing, Supervise, SyncBegin, SyncStop, SyncStart, Started, NotStarted,
             SyncTurn, SyncEnd, TickBegin, TickEnd, Healthy, Throttle, Relaunch, Visited, StopAll,
             Exit, BinChange, TypeOK
  <1>2. Init => SyncInv
    BY DEF Init, Idle, SyncInv
  <1>. QED
    BY <1>1, <1>2, TypeInit, PaceInit, Inductive, SyncStep, PTL DEF Spec, Resolved

-----------------------------------------------------------------------------
(* Share: what is imported is one of eight sorts of endpoint (Known), and   *)
(* the text of each sort, read key by key, is the endpoint again (Kept).    *)
LEMMA LeastIs == \A a, b \in Nat : (a <= b /\ b <= a => a = b) /\ (~(a < b) => b <= a)
  OBVIOUS

LEMMA FewLess ==
    \A j \in {1, 2, 3, 4} : ~(j < 1) /\ (j < 2 => j = 1) /\ (j < 3 => j \in {1, 2}) /\ (j < 4 => j \in {1, 2, 3})
  OBVIOUS

(* FirstNonEmpty, where there are two, three and four to choose from. *)
LEMMA FirstAt ==
    ASSUME NEW vs, DOMAIN vs \subseteq Nat, NEW i \in DOMAIN vs, vs[i] # "", \A j \in DOMAIN vs : j < i => vs[j] = ""
    PROVE  FirstNonEmpty(vs) = vs[i]
<1>. DEFINE ne == {j \in DOMAIN vs : vs[j] # ""}
<1>1. i \in Nat /\ ne \subseteq Nat
  OBVIOUS
<1>2. i \in ne
  OBVIOUS
<1>3. ASSUME NEW j \in ne PROVE i <= j
  <2>1. j \in Nat /\ ~(j < i)
    BY <1>3
  <2>. QED
    BY <1>1, <2>1, LeastIs
<1>. DEFINE m == CHOOSE j \in ne : \A k \in ne : j <= k
<1>4. FirstNonEmpty(vs) = vs[m]
  BY <1>2 DEF FirstNonEmpty
<1>. HIDE DEF ne
<1>5. m \in ne /\ \A k \in ne : m <= k
  BY <1>2, <1>3, Zenon
<1>. HIDE DEF m
<1>6. m = i
  <2>1. m \in Nat /\ m <= i /\ i <= m
    BY <1>1, <1>2, <1>3, <1>5
  <2>. QED
    BY <1>1, <2>1, LeastIs
<1>. QED
  BY <1>4, <1>6

LEMMA FirstNone == ASSUME NEW vs, \A i \in DOMAIN vs : vs[i] = "" PROVE FirstNonEmpty(vs) = ""
  BY DEF FirstNonEmpty

LEMMA First2 ==
    ASSUME NEW vs, DOMAIN vs = {1, 2}
    PROVE  FirstNonEmpty(vs) = IF vs[1] # "" THEN vs[1] ELSE vs[2]
<1>. DOMAIN vs \subseteq Nat
  OBVIOUS
<1>1. CASE vs[1] # ""
  <2>1. \A j \in DOMAIN vs : j < 1 => vs[j] = ""
    BY <1>1, FewLess
  <2>2. FirstNonEmpty(vs) = vs[1]
    BY <1>1, <2>1, FirstAt
  <2>. QED
    BY <1>1, <2>2
<1>2. CASE vs[1] = "" /\ vs[2] # ""
  <2>1. \A j \in DOMAIN vs : j < 2 => vs[j] = ""
    BY <1>2, FewLess
  <2>2. FirstNonEmpty(vs) = vs[2]
    BY <1>2, <2>1, FirstAt
  <2>. QED
    BY <1>2, <2>2
<1>3. CASE vs[1] = "" /\ vs[2] = ""
  <2>1. \A j \in DOMAIN vs : vs[j] = ""
    BY <1>3
  <2>. QED
    BY <1>3, <2>1, FirstNone
<1>. QED
  BY <1>1, <1>2, <1>3

LEMMA First3 ==
    ASSUME NEW vs, DOMAIN vs = {1, 2, 3}
    PROVE  FirstNonEmpty(vs) = IF vs[1] # "" THEN vs[1] ELSE IF vs[2] # "" THEN vs[2] ELSE vs[3]
<1>. DOMAIN vs \subseteq Nat
  OBVIOUS
<1>1. CASE vs[1] # ""
  <2>1. \A j \in DOMAIN vs : j < 1 => vs[j] = ""
    BY <1>1, FewLess
  <2>2. FirstNonEmpty(vs) = vs[1]
    BY <1>1, <2>1, FirstAt
  <2>. QED
    BY <1>1, <2>2
<1>2. CASE vs[1] = "" /\ vs[2] # ""
  <2>1. \A j \in DOMAIN vs : j < 2 => vs[j] = ""
    BY <1>2, FewLess
  <2>2. FirstNonEmpty(vs) = vs[2]
    BY <1>2, <2>1, FirstAt
  <2>. QED
    BY <1>2, <2>2
<1>3. CASE vs[1] = "" /\ vs[2] = "" /\ vs[3] # ""
  <2>1. \A j \in DOMAIN vs : j < 3 => vs[j] = ""
    BY <1>3, FewLess
  <2>2. FirstNonEmpty(vs) = vs[3]
    BY <1>3, <2>1, FirstAt
  <2>. QED
    BY <1>3, <2>2
<1>4. CASE vs[1] = "" /\ vs[2] = "" /\ vs[3] = ""
  <2>1. \A j \in DOMAIN vs : vs[j] = ""
    BY <1>4
  <2>. QED
    BY <1>4, <2>1, FirstNone
<1>. QED
  BY <1>1, <1>2, <1>3, <1>4

LEMMA First4 ==
    ASSUME NEW vs, DOMAIN vs = {1, 2, 3, 4}
    PROVE  FirstNonEmpty(vs) = IF vs[1] # "" THEN vs[1] ELSE IF vs[2] # "" THEN vs[2] ELSE IF vs[3] # "" THEN vs[3] ELSE vs[4]
<1>. DOMAIN vs \subseteq Nat
  OBVIOUS
<1>1. CASE vs[1] # ""
  <2>1. \A j \in DOMAIN vs : j < 1 => vs[j] = ""
    BY <1>1, FewLess
  <2>2. FirstNonEmpty(vs) = vs[1]
    BY <1>1, <2>1, FirstAt
  <2>. QED
    BY <1>1, <2>2
<1>2. CASE vs[1] = "" /\ vs[2] # ""
  <2>1. \A j \in DOMAIN vs : j < 2 => vs[j] = ""
    BY <1>2, FewLess
  <2>2. FirstNonEmpty(vs) = vs[2]
    BY <1>2, <2>1, FirstAt
  <2>. QED
    BY <1>2, <2>2
<1>3. CASE vs[1] = "" /\ vs[2] = "" /\ vs[3] # ""
  <2>1. \A j \in DOMAIN vs : j < 3 => vs[j] = ""
    BY <1>3, FewLess
  <2>2. FirstNonEmpty(vs) = vs[3]
    BY <1>3, <2>1, FirstAt
  <2>. QED
    BY <1>3, <2>2
<1>4. CASE vs[1] = "" /\ vs[2] = "" /\ vs[3] = "" /\ vs[4] # ""
  <2>1. \A j \in DOMAIN vs : j < 4 => vs[j] = ""
    BY <1>4, FewLess
  <2>2. FirstNonEmpty(vs) = vs[4]
    BY <1>4, <2>1, FirstAt
  <2>. QED
    BY <1>4, <2>2
<1>5. CASE vs[1] = "" /\ vs[2] = "" /\ vs[3] = "" /\ vs[4] = ""
  <2>1. \A j \in DOMAIN vs : vs[j] = ""
    BY <1>5
  <2>. QED
    BY <1>5, <2>1, FirstNone
<1>. QED
  BY <1>1, <1>2, <1>3, <1>4, <1>5

(* The first of a few values that is set. *)
Or(a, b) == IF a # "" THEN a ELSE b

LEMMA FirstOf2 == ASSUME NEW a, NEW b PROVE FirstNonEmpty(<<a, b>>) = Or(a, b)
<1>. DEFINE vs == <<a, b>>
<1>1. DOMAIN vs = {1, 2} /\ vs[1] = a /\ vs[2] = b
  OBVIOUS
<1>. HIDE DEF vs
<1>2. FirstNonEmpty(vs) = Or(a, b)
  BY <1>1, First2 DEF Or
<1>. QED
  BY <1>2 DEF vs

LEMMA FirstOf3 == ASSUME NEW a, NEW b, NEW c PROVE FirstNonEmpty(<<a, b, c>>) = Or(a, Or(b, c))
<1>. DEFINE vs == <<a, b, c>>
<1>1. DOMAIN vs = {1, 2, 3} /\ vs[1] = a /\ vs[2] = b /\ vs[3] = c
  OBVIOUS
<1>. HIDE DEF vs
<1>2. FirstNonEmpty(vs) = Or(a, Or(b, c))
  BY <1>1, First3 DEF Or
<1>. QED
  BY <1>2 DEF vs

LEMMA FirstOf4 == ASSUME NEW a, NEW b, NEW c, NEW d PROVE FirstNonEmpty(<<a, b, c, d>>) = Or(a, Or(b, Or(c, d)))
<1>. DEFINE vs == <<a, b, c, d>>
<1>1. DOMAIN vs = {1, 2, 3, 4} /\ vs[1] = a /\ vs[2] = b /\ vs[3] = c /\ vs[4] = d
  OBVIOUS
<1>. HIDE DEF vs
<1>2. FirstNonEmpty(vs) = Or(a, Or(b, Or(c, d)))
  BY <1>1, First4 DEF Or
<1>. QED
  BY <1>2 DEF vs

(* The spellings of a key, one after the other. *)
LEMMA Spelled2 ==
    ASSUME NEW q, NEW a, NEW b
    PROVE  Spelled(q, <<a, b>>) = Or(Get(q, a), Get(q, b))
<1>. DEFINE vs == [i \in DOMAIN <<a, b>> |-> Get(q, <<a, b>>[i])]
<1>1. DOMAIN vs = {1, 2} /\ vs[1] = Get(q, a) /\ vs[2] = Get(q, b)
  OBVIOUS
<1>2. Spelled(q, <<a, b>>) = FirstNonEmpty(vs)
  BY DEF Spelled
<1>. HIDE DEF vs
<1>. QED
  BY <1>1, <1>2, First2 DEF Or

LEMMA Spelled3 ==
    ASSUME NEW q, NEW a, NEW b, NEW c
    PROVE  Spelled(q, <<a, b, c>>) = Or(Get(q, a), Or(Get(q, b), Get(q, c)))
<1>. DEFINE vs == [i \in DOMAIN <<a, b, c>> |-> Get(q, <<a, b, c>>[i])]
<1>1. DOMAIN vs = {1, 2, 3} /\ vs[1] = Get(q, a) /\ vs[2] = Get(q, b) /\ vs[3] = Get(q, c)
  OBVIOUS
<1>2. Spelled(q, <<a, b, c>>) = FirstNonEmpty(vs)
  BY DEF Spelled
<1>. HIDE DEF vs
<1>. QED
  BY <1>1, <1>2, First3 DEF Or

LEMMA Spelled4 ==
    ASSUME NEW q, NEW a, NEW b, NEW c, NEW d
    PROVE  Spelled(q, <<a, b, c, d>>) = Or(Get(q, a), Or(Get(q, b), Or(Get(q, c), Get(q, d))))
<1>. DEFINE vs == [i \in DOMAIN <<a, b, c, d>> |-> Get(q, <<a, b, c, d>>[i])]
<1>1. DOMAIN vs = {1, 2, 3, 4} /\ vs[1] = Get(q, a) /\ vs[2] = Get(q, b) /\ vs[3] = Get(q, c) /\ vs[4] = Get(q, d)
  OBVIOUS
<1>2. Spelled(q, <<a, b, c, d>>) = FirstNonEmpty(vs)
  BY DEF Spelled
<1>. HIDE DEF vs
<1>. QED
  BY <1>1, <1>2, First4 DEF Or

-----------------------------------------------------------------------------
(* A set of pairs gives a key one value; another says nothing of it. *)
Gives(S, k, v) == (\A p \in S : p[1] = k => p[2] = v) /\ (v = "" \/ <<k, v>> \in S)
Silent(S, k) == \A p \in S : p[1] # k

LEMMA GivesMore ==
    ASSUME NEW A, NEW B, NEW k, NEW v
    PROVE  /\ Gives(A, k, v) /\ Silent(B, k) => Gives(A \cup B, k, v) /\ Gives(B \cup A, k, v)
           /\ Silent(A, k) => Gives(A, k, "")
           /\ Silent(A, k) /\ Silent(B, k) => Silent(A \cup B, k)
  BY DEF Gives, Silent

(* What Get reads of Pairs. *)
LEMMA GetIs == ASSUME NEW S, NEW k, NEW v, Gives(S, k, v) PROVE Get(Pairs(S), k) = v
<1>. DEFINE set == {p \in S : p[2] # ""}
            keys == {p[1] : p \in set}
            f == [x \in keys |-> (CHOOSE p \in set : p[1] = x)[2]]
<1>1. Pairs(S) = f
  BY DEF Pairs
<1>2. CASE v = ""
  <2>1. k \notin keys
    BY <1>2 DEF Gives
  <2>2. k \notin DOMAIN f
    BY <2>1
  <2>. HIDE DEF f
  <2>. QED
    BY <1>1, <1>2, <2>2 DEF Get
<1>3. CASE v # ""
  <2>1. <<k, v>> \in set /\ <<k, v>>[1] = k
    BY <1>3 DEF Gives
  <2>2. k \in keys
    BY <2>1
  <2>. DEFINE c == CHOOSE p \in set : p[1] = k
  <2>3. c \in set /\ c[1] = k
    <3>. HIDE DEF set
    <3>. QED
      BY <2>1, Zenon
  <2>4. c[2] = v
    <3>. HIDE DEF c
    <3>. QED
      BY <2>3 DEF Gives
  <2>5. k \in DOMAIN f /\ f[k] = c[2]
    BY <2>2
  <2>. HIDE DEF f, c
  <2>. QED
    BY <1>1, <2>4, <2>5 DEF Get
<1>. QED
  BY <1>2, <1>3

(* A map of keys to values that are set. *)
Clean(f) == \A k \in DOMAIN f : f[k] # ""

LEMMA PairsClean == ASSUME NEW S PROVE Clean(Pairs(S)) /\ \A k \in DOMAIN Pairs(S) : ~Silent(S, k)
<1>. DEFINE set == {p \in S : p[2] # ""}
            keys == {p[1] : p \in set}
            f == [x \in keys |-> (CHOOSE p \in set : p[1] = x)[2]]
<1>1. Pairs(S) = f
  BY DEF Pairs
<1>2. ASSUME NEW k \in keys PROVE f[k] # "" /\ ~Silent(S, k)
  <2>1. \E p \in set : p[1] = k
    BY <1>2
  <2>. DEFINE c == CHOOSE p \in set : p[1] = k
  <2>2. c \in set /\ c[1] = k
    BY <2>1, Zenon
  <2>3. f[k] = c[2]
    BY <1>2
  <2>. HIDE DEF c, f
  <2>. QED
    BY <2>2, <2>3 DEF Silent
<1>3. DOMAIN f = keys
  BY Zenon
<1>. HIDE DEF f
<1>. QED
  BY <1>1, <1>2, <1>3 DEF Clean

Without(f, X) == [k \in DOMAIN f \ X |-> f[k]]

(* A map that is read key by key and written back, but for the keys of X. *)
LEMMA WrittenBack ==
    ASSUME NEW f, Clean(f), NEW S, NEW X, "peers" \in X,
           \A p \in S : p[1] \notin X => p[2] = Get(f, p[1]),
           \A p \in S : p[1] \in X => p[2] = "" \/ p[1] = "peers",
           \A k \in DOMAIN f \ X : <<k, f[k]>> \in S
    PROVE  Without(Pairs(S), {"peers"}) = Without(f, X)
<1>. DEFINE g == Pairs(S)
<1>1. ASSUME NEW k \in DOMAIN f \ X PROVE k \in DOMAIN g \ {"peers"} /\ g[k] = f[k]
  <2>1. Gives(S, k, f[k])
    BY <1>1 DEF Gives, Get
  <2>2. Get(g, k) = f[k] /\ f[k] # ""
    BY <1>1, <2>1, GetIs DEF Clean
  <2>. HIDE DEF g
  <2>. QED
    BY <1>1, <2>2 DEF Get
<1>2. ASSUME NEW k \in DOMAIN g \ {"peers"} PROVE k \in DOMAIN f \ X
  <2>. SUFFICES ASSUME k \notin DOMAIN f \ X PROVE FALSE
    OBVIOUS
  <2>1. Gives(S, k, "")
    BY <1>2 DEF Gives, Get
  <2>2. Get(g, k) = ""
    BY <2>1, GetIs
  <2>3. g[k] # ""
    BY <1>2, PairsClean DEF Clean
  <2>. HIDE DEF g
  <2>. QED
    BY <1>2, <2>2, <2>3 DEF Get
<1>3. DOMAIN g \ {"peers"} = DOMAIN f \ X
  BY <1>1, <1>2
<1>. HIDE DEF g
<1>4. [k \in DOMAIN g \ {"peers"} |-> g[k]] = [k \in DOMAIN f \ X |-> f[k]]
  BY <1>1, <1>3
<1>. QED
  BY <1>4 DEF g, Without

-----------------------------------------------------------------------------
(* The transports and the TLS blocks an import makes. *)
TrOf(ty, p, h, s) == [type |-> ty, path |-> p, host |-> h, svc |-> s]
IsTransport(t) ==
    \E p, h, s : \/ t = TrOf("", "", "", "")
                 \/ t = TrOf("ws", p, h, "") \/ t = TrOf("http", p, h, "") \/ t = TrOf("httpupgrade", p, h, "")
                 \/ t = TrOf("grpc", p, h, s)
DialledBy(t) == IF t.type = "grpc" THEN [t EXCEPT !.path = "", !.host = ""] ELSE t

TlsOf(s, f, a, b) == [on |-> TRUE, type |-> "tls", sni |-> s, finger |-> f, key |-> "", sid |-> "", alpn |-> a, insecure |-> b]
RealityOf(s, f, k, i, a) ==
    [on |-> TRUE, type |-> "reality", sni |-> s, finger |-> f, key |-> k, sid |-> i, alpn |-> a, insecure |-> FALSE]
IsTls(t) ==
    \/ t = PlainText
    \/ \E s, f, a : s # "" /\ (t = TlsOf(s, f, a, TRUE) \/ t = TlsOf(s, f, a, FALSE))
    \/ \E s, f, k, i, a : t = RealityOf(s, f, k, i, a)
IsQuic(t) == \E s, a : s # "" /\ (t = TlsOf(s, "", a, TRUE) \/ t = TlsOf(s, "", a, FALSE))

LEMMA QuicIsTls == \A t : IsQuic(t) => IsTls(t)
  BY DEF IsQuic, IsTls

LEMMA OrSet == \A a : Or(a, "server") # ""
  BY DEF Or

(* Imported transports. *)
LEMMA TransportOfLink ==
    ASSUME NEW q
    PROVE  /\ Get(q, "type") = "grpc" => transportFromQuery(q) =
                  TrOf("grpc", "", "", Or(Get(q, "serviceName"), Or(Get(q, "service_name"), Get(q, "servicename"))))
           /\ Get(q, "type") \in {"ws", "http", "httpupgrade"} =>
                  transportFromQuery(q) = TrOf(Get(q, "type"), Get(q, "path"), Get(q, "host"), "")
           /\ Get(q, "type") = "h2" => transportFromQuery(q) = TrOf("http", Get(q, "path"), Get(q, "host"), "")
           /\ Get(q, "type") \notin {"grpc", "ws", "http", "h2", "httpupgrade"} =>
                  transportFromQuery(q) = TrOf("", "", "", "")
<1>. DEFINE svc == Spelled(q, <<"serviceName", "service_name", "servicename">>)
<1>1. svc = Or(Get(q, "serviceName"), Or(Get(q, "service_name"), Get(q, "servicename")))
  BY Spelled2, Spelled3
<1>2. Get(q, "type") = "grpc" => transportFromQuery(q) = TrOf("grpc", "", "", svc)
  BY DEF transportFromQuery, NoTransport, TrOf
<1>3. Get(q, "type") = "grpc" => transportFromQuery(q) =
          TrOf("grpc", "", "", Or(Get(q, "serviceName"), Or(Get(q, "service_name"), Get(q, "servicename"))))
  BY <1>1, <1>2
<1>. QED
  BY <1>3 DEF transportFromQuery, NoTransport, TrOf

LEMMA LinkTransport == ASSUME NEW q PROVE IsTransport(transportFromQuery(q))
  BY TransportOfLink DEF IsTransport

LEMMA TransportOfProxy ==
    ASSUME NEW p
    PROVE  /\ Get(p, "network") = "grpc" => clashTransport(p) =
                  TrOf("grpc", "", "", Or(Get(p, "grpc-opts.grpc-service-name"),
                                          Or(Get(p, "grpc-service-name"), Get(p, "grpc-opts.serviceName"))))
           /\ Get(p, "network") = "ws" =>
                  clashTransport(p) = TrOf("ws", Or(Get(p, "ws-opts.path"), Get(p, "ws-path")), wsHost(p), "")
           /\ Get(p, "network") = "httpupgrade" =>
                  clashTransport(p) = TrOf("httpupgrade", Get(p, "ws-opts.path"), wsHost(p), "")
           /\ Get(p, "network") \in {"http", "h2"} =>
                  clashTransport(p) =
                  TrOf("http", Or(Get(p, "http-opts.path"), Or(Get(p, "h2-opts.path"), Get(p, "ws-opts.path"))),
                       Or(Or(Get(p, "h2-opts.host"), Get(p, "http-opts.headers.Host")), wsHost(p)), "")
           /\ Get(p, "network") \notin {"grpc", "ws", "http", "h2", "httpupgrade"} => clashTransport(p) = TrOf("", "", "", "")
<1>1. Get(p, "network") = "grpc" => clashTransport(p) =
          TrOf("grpc", "", "", Or(Get(p, "grpc-opts.grpc-service-name"), Or(Get(p, "grpc-service-name"), Get(p, "grpc-opts.serviceName"))))
  <2>. DEFINE svc == Spelled(p, <<"grpc-opts.grpc-service-name", "grpc-service-name", "grpc-opts.serviceName">>)
  <2>1. svc = Or(Get(p, "grpc-opts.grpc-service-name"), Or(Get(p, "grpc-service-name"), Get(p, "grpc-opts.serviceName")))
    BY Spelled2, Spelled3
  <2>2. Get(p, "network") = "grpc" => clashTransport(p) = TrOf("grpc", "", "", svc)
    BY DEF clashTransport, NoTransport, TrOf
  <2>. QED
    BY <2>1, <2>2
<1>2. Get(p, "network") = "ws" => clashTransport(p) = TrOf("ws", Or(Get(p, "ws-opts.path"), Get(p, "ws-path")), wsHost(p), "")
  BY Spelled2, Spelled3 DEF clashTransport, NoTransport, TrOf
<1>3. Get(p, "network") = "httpupgrade" => clashTransport(p) = TrOf("httpupgrade", Get(p, "ws-opts.path"), wsHost(p), "")
  BY Spelled2, Spelled3 DEF clashTransport, NoTransport, TrOf
<1>4. Get(p, "network") \in {"http", "h2"} => clashTransport(p) =
          TrOf("http", Or(Get(p, "http-opts.path"), Or(Get(p, "h2-opts.path"), Get(p, "ws-opts.path"))),
               Or(Or(Get(p, "h2-opts.host"), Get(p, "http-opts.headers.Host")), wsHost(p)), "")
  <2>. DEFINE path == Spelled(p, <<"http-opts.path", "h2-opts.path", "ws-opts.path">>)
              host == Spelled(p, <<"h2-opts.host", "http-opts.headers.Host">>)
  <2>1. path = Or(Get(p, "http-opts.path"), Or(Get(p, "h2-opts.path"), Get(p, "ws-opts.path")))
    BY Spelled2, Spelled3
  <2>2. host = Or(Get(p, "h2-opts.host"), Get(p, "http-opts.headers.Host"))
    BY Spelled2, Spelled3
  <2>3. FirstNonEmpty(<<host, wsHost(p)>>) = Or(host, wsHost(p))
    BY FirstOf2, FirstOf3
  <2>4. Get(p, "network") \in {"http", "h2"} => clashTransport(p) = TrOf("http", path, FirstNonEmpty(<<host, wsHost(p)>>), "")
    BY DEF clashTransport, NoTransport, TrOf
  <2>. QED
    BY <2>1, <2>2, <2>3, <2>4
<1>5. Get(p, "network") \notin {"grpc", "ws", "http", "h2", "httpupgrade"} => clashTransport(p) = TrOf("", "", "", "")
  BY DEF clashTransport, NoTransport, TrOf
<1>. QED
  BY <1>1, <1>2, <1>3, <1>4, <1>5

LEMMA ProxyTransport == ASSUME NEW p PROVE IsTransport(clashTransport(p))
  BY TransportOfProxy DEF IsTransport

LEMMA NoneIsTransport == IsTransport(NoTransport) /\ NoTransport = TrOf("", "", "", "")
  BY DEF NoTransport, TrOf, IsTransport

(* Imported TLS. *)
IsBlock(t) == t = [x \in DOMAIN t |-> t[x]] /\ DOMAIN t = {"on", "type", "sni", "finger", "key", "sid", "alpn", "insecure"}

LEMMA SameBlock ==
    ASSUME NEW t, NEW u, IsBlock(t), IsBlock(u), t.on = u.on, t.insecure = u.insecure, t.type = u.type,
           t.sni = u.sni, t.finger = u.finger, t.key = u.key, t.sid = u.sid, t.alpn = u.alpn
    PROVE  t = u
  BY DEF IsBlock

LEMMA QuicMade ==
    ASSUME NEW s, NEW a, NEW b
    PROVE  [PlainText EXCEPT !.on = TRUE, !.type = "tls", !.alpn = a, !.sni = s, !.insecure = b] = TlsOf(s, "", a, b)
<1>. DEFINE t == [PlainText EXCEPT !.on = TRUE, !.type = "tls", !.alpn = a, !.sni = s, !.insecure = b]
            u == TlsOf(s, "", a, b)
<1>1. IsBlock(t) /\ IsBlock(u)
  BY DEF IsBlock, TlsOf, PlainText
<1>2. t.on = u.on /\ t.insecure = u.insecure
  BY DEF TlsOf, PlainText
<1>3. t.type = u.type /\ t.sni = u.sni /\ t.finger = u.finger /\ t.key = u.key /\ t.sid = u.sid /\ t.alpn = u.alpn
  BY DEF TlsOf, PlainText
<1>. HIDE DEF t, u
<1>4. t = u
  BY <1>1, <1>2, <1>3, SameBlock, Zenon
<1>. QED
  BY <1>4 DEF t, u

LEMMA TlsMade ==
    ASSUME NEW s, NEW f, NEW a, NEW b
    PROVE  [PlainText EXCEPT !.on = TRUE, !.type = "tls", !.sni = s, !.finger = f, !.insecure = b, !.alpn = a] = TlsOf(s, f, a, b)
<1>. DEFINE t == [PlainText EXCEPT !.on = TRUE, !.type = "tls", !.sni = s, !.finger = f, !.insecure = b, !.alpn = a]
            u == TlsOf(s, f, a, b)
<1>1. IsBlock(t) /\ IsBlock(u)
  BY DEF IsBlock, TlsOf, PlainText
<1>2. t.on = u.on /\ t.insecure = u.insecure
  BY DEF TlsOf, PlainText
<1>3. t.type = u.type /\ t.sni = u.sni /\ t.finger = u.finger /\ t.key = u.key /\ t.sid = u.sid /\ t.alpn = u.alpn
  BY DEF TlsOf, PlainText
<1>. HIDE DEF t, u
<1>4. t = u
  BY <1>1, <1>2, <1>3, SameBlock, Zenon
<1>. QED
  BY <1>4 DEF t, u

(* Without the fingerprint. *)
Fingerless(t) == [t EXCEPT !.finger = ""]

LEMMA NoFinger ==
    ASSUME NEW s, NEW f, NEW a, NEW b
    PROVE  Fingerless(TlsOf(s, f, a, b)) = TlsOf(s, "", a, b)
<1>. DEFINE t == Fingerless(TlsOf(s, f, a, b))
            u == TlsOf(s, "", a, b)
<1>1. IsBlock(t) /\ IsBlock(u)
  BY DEF IsBlock, Fingerless, TlsOf
<1>2. t.on = u.on /\ t.insecure = u.insecure
  BY DEF Fingerless, TlsOf
<1>3. t.type = u.type /\ t.sni = u.sni /\ t.finger = u.finger /\ t.key = u.key /\ t.sid = u.sid /\ t.alpn = u.alpn
  BY DEF Fingerless, TlsOf
<1>. HIDE DEF t, u
<1>4. t = u
  BY <1>1, <1>2, <1>3, SameBlock, Zenon
<1>. QED
  BY <1>4 DEF t, u

LEMMA TlsOfLink ==
    ASSUME NEW q, NEW d \in BOOLEAN
    PROVE  /\ Get(q, "security") = "reality" =>
                  tlsFromQuery(q, d) = RealityOf(Get(q, "sni"), Get(q, "fp"), Get(q, "pbk"), Get(q, "sid"), Get(q, "alpn"))
           /\ Get(q, "security") \in {"tls", "xtls"} \/ (Get(q, "security") = "" /\ d) =>
                  tlsFromQuery(q, d) =
                  TlsOf(Or(Get(q, "sni"), Or(Get(q, "host"), "server")), Get(q, "fp"), Get(q, "alpn"), insecureFromQuery(q))
           /\ Get(q, "security") \notin {"reality", "tls", "xtls", ""} \/ (Get(q, "security") = "" /\ ~d) =>
                  tlsFromQuery(q, d) = PlainText
<1>. DEFINE sec == Get(q, "security")
<1>1. sec = "reality" => tlsFromQuery(q, d) = RealityOf(Get(q, "sni"), Get(q, "fp"), Get(q, "pbk"), Get(q, "sid"), Get(q, "alpn"))
  BY DEF tlsFromQuery, RealityOf, PlainText
<1>2. sec \in {"tls", "xtls"} \/ (sec = "" /\ d) =>
          tlsFromQuery(q, d) =
          TlsOf(Or(Get(q, "sni"), Or(Get(q, "host"), "server")), Get(q, "fp"), Get(q, "alpn"), insecureFromQuery(q))
  <2>. DEFINE b == insecureFromQuery(q)
              sni == FirstNonEmpty(<<Get(q, "sni"), Get(q, "host"), "server">>)
  <2>1. sni = Or(Get(q, "sni"), Or(Get(q, "host"), "server"))
    BY FirstOf2, FirstOf3
  <2>2. sec \in {"tls", "xtls"} \/ (sec = "" /\ d) => tlsFromQuery(q, d) = TlsOf(sni, Get(q, "fp"), Get(q, "alpn"), b)
    BY DEF tlsFromQuery, TlsOf, PlainText
  <2>. QED
    BY <2>1, <2>2
<1>3. sec \notin {"reality", "tls", "xtls", ""} \/ (sec = "" /\ ~d) => tlsFromQuery(q, d) = PlainText
  BY DEF tlsFromQuery
<1>. QED
  BY <1>1, <1>2, <1>3

LEMMA TlsSorts ==
    ASSUME NEW s, s # "", NEW f, NEW a, NEW b \in BOOLEAN
    PROVE  IsTls(TlsOf(s, f, a, b)) /\ IsQuic(TlsOf(s, "", a, b))
<1>1. CASE b = TRUE
  BY <1>1 DEF IsTls, IsQuic
<1>2. CASE b = FALSE
  BY <1>2 DEF IsTls, IsQuic
<1>. QED
  BY <1>1, <1>2

LEMMA InsecureBoolean == \A q : insecureFromQuery(q) \in BOOLEAN /\ clashInsecure(q) \in BOOLEAN
  BY DEF insecureFromQuery, clashInsecure

LEMMA LinkTls == ASSUME NEW q, NEW d \in BOOLEAN PROVE IsTls(tlsFromQuery(q, d))
<1>. DEFINE sni == Or(Get(q, "sni"), Or(Get(q, "host"), "server"))
            b == insecureFromQuery(q)
<1>1. sni # ""
  BY DEF Or
<1>2. b \in BOOLEAN
  BY InsecureBoolean
<1>. HIDE DEF sni, b
<1>3. IsTls(TlsOf(sni, Get(q, "fp"), Get(q, "alpn"), b))
  BY <1>1, <1>2, TlsSorts
<1>4. IsTls(RealityOf(Get(q, "sni"), Get(q, "fp"), Get(q, "pbk"), Get(q, "sid"), Get(q, "alpn"))) /\ IsTls(PlainText)
  BY DEF IsTls
<1>. QED
  BY <1>3, <1>4, TlsOfLink DEF sni, b

LEMMA LinkQuic ==
    ASSUME NEW q
    PROVE  QuicTls(q) = TlsOf(Or(Get(q, "sni"), "server"), "", Get(q, "alpn"), insecureFromQuery(q)) /\ IsQuic(QuicTls(q))
<1>1. QuicTls(q) = TlsOf(Or(Get(q, "sni"), "server"), "", Get(q, "alpn"), insecureFromQuery(q))
  <2>. DEFINE sni == FirstNonEmpty(<<Get(q, "sni"), "server">>)
  <2>1. sni = Or(Get(q, "sni"), "server")
    BY FirstOf2, FirstOf3
  <2>2. QuicTls(q) = TlsOf(sni, "", Get(q, "alpn"), insecureFromQuery(q))
    BY QuicMade, Zenon DEF QuicTls
  <2>. QED
    BY <2>1, <2>2
<1>. QED
  BY <1>1, OrSet, TlsSorts, InsecureBoolean

LEMMA ProxyTls ==
    ASSUME NEW p, NEW ns
    PROVE  ClashTls(p, ns) = TlsOf(FirstNonEmpty(ns), Or(Get(p, "client-fingerprint"), Get(p, "fingerprint")),
                                   Get(p, "alpn"), clashInsecure(p))
<1>. DEFINE finger == Spelled(p, <<"client-fingerprint", "fingerprint">>)
<1>1. finger = Or(Get(p, "client-fingerprint"), Get(p, "fingerprint"))
  BY Spelled2, Spelled3
<1>2. ClashTls(p, ns) = TlsOf(FirstNonEmpty(ns), finger, Get(p, "alpn"), clashInsecure(p))
  BY TlsMade, Zenon DEF ClashTls
<1>. QED
  BY <1>1, <1>2

LEMMA ProxyNames ==
    ASSUME NEW p
    PROVE  /\ FirstNonEmpty(NameFirst(p)) = Or(Get(p, "servername"), Or(Get(p, "sni"), Or(wsHost(p), "server")))
           /\ FirstNonEmpty(SniFirst(p)) = Or(Get(p, "sni"), Or(Get(p, "servername"), Or(wsHost(p), "server")))
           /\ FirstNonEmpty(<<Get(p, "sni"), Get(p, "servername"), "server">>) =
                  Or(Get(p, "sni"), Or(Get(p, "servername"), "server"))
  BY FirstOf3, FirstOf4 DEF NameFirst, SniFirst

LEMMA ProxyIsTls ==
    ASSUME NEW p, NEW ns, FirstNonEmpty(ns) # ""
    PROVE  IsTls(ClashTls(p, ns))
  BY ProxyTls, TlsSorts, InsecureBoolean

LEMMA ProxyQuic ==
    ASSUME NEW p
    PROVE  /\ ClashQuicTls(p) = TlsOf(Or(Get(p, "sni"), Or(Get(p, "servername"), "server")), "", Get(p, "alpn"), clashInsecure(p))
           /\ IsQuic(ClashQuicTls(p))
<1>1. ClashQuicTls(p) = TlsOf(Or(Get(p, "sni"), Or(Get(p, "servername"), "server")), "", Get(p, "alpn"), clashInsecure(p))
  <2>. DEFINE ns == <<Get(p, "sni"), Get(p, "servername"), "server">>
              f == Or(Get(p, "client-fingerprint"), Get(p, "fingerprint"))
  <2>1. FirstNonEmpty(ns) = Or(Get(p, "sni"), Or(Get(p, "servername"), "server"))
    BY ProxyNames
  <2>2. ClashTls(p, ns) = TlsOf(FirstNonEmpty(ns), f, Get(p, "alpn"), clashInsecure(p))
    BY ProxyTls
  <2>3. ClashQuicTls(p) = Fingerless(ClashTls(p, ns))
    BY DEF ClashQuicTls, Fingerless
  <2>. DEFINE b == clashInsecure(p)
  <2>. HIDE DEF f, ns, b
  <2>4. Fingerless(TlsOf(FirstNonEmpty(ns), f, Get(p, "alpn"), b)) = TlsOf(FirstNonEmpty(ns), "", Get(p, "alpn"), b)
    BY NoFinger
  <2>. QED
    BY <2>1, <2>2, <2>3, <2>4 DEF b
<1>2. Or(Get(p, "sni"), Or(Get(p, "servername"), "server")) # ""
  BY DEF Or
<1>. QED
  BY <1>1, <1>2, TlsSorts, InsecureBoolean

-----------------------------------------------------------------------------
(* The endpoints an import makes, protocol by protocol. *)
Of(e, proto, K) ==
    /\ e = [proto |-> proto, par |-> e.par, transport |-> e.transport, tls |-> e.tls]
    /\ Clean(e.par) /\ DOMAIN e.par \subseteq K
    /\ IsTransport(e.transport) /\ IsTls(e.tls)

VlessKeys == {"uuid", "flow", "packet_encoding"}
Hy2Keys == {"password", "obfs", "obfs_password", "hop_ports", "up_mbps", "down_mbps"}
TuicKeys == {"uuid", "password", "congestion_control", "udp_relay_mode", "heartbeat", "zero_rtt_handshake", "udp_over_stream"}
VMessKeys == {"uuid", "alter_id", "security"}
SsKeys == {"method", "password", "plugin", "udp_over_tcp"} \cup PluginOpts
WgKeys == {"private_key", "peer_public_key", "pre_shared_key", "persistent_keepalive", "local_address", "reserved", "mtu", "peers"}

IsVless(e) == Of(e, "vless", VlessKeys)
IsTrojan(e) == Of(e, "trojan", {"password"})
IsAnyTLS(e) == Of(e, "anytls", {"password"}) /\ e.transport = NoTransport
IsHy2(e) == Of(e, "hysteria2", Hy2Keys) /\ e.transport = NoTransport /\ IsQuic(e.tls) /\
            (Get(e.par, "obfs") = "" => Get(e.par, "obfs_password") = "")
IsTuic(e) == Of(e, "tuic", TuicKeys) /\ e.transport = NoTransport /\ IsQuic(e.tls) /\
             \A k \in {"zero_rtt_handshake", "udp_over_stream"} : Get(e.par, k) \in {"", "1"}
IsVMess(e) == Of(e, "vmess", VMessKeys) /\ e.tls.type # "reality" /\ Get(e.par, "alter_id") # "" /\ Get(e.par, "security") # ""
IsSs(e) == Of(e, "shadowsocks", SsKeys) /\ e.transport = NoTransport /\ e.tls = PlainText /\
           Get(e.par, "udp_over_tcp") \in {"", "1"} /\ Get(e.par, "plugin") \notin {"obfs", "simple-obfs"} /\
           PluginOpts \cap DOMAIN e.par \subseteq OptsOf(Get(e.par, "plugin")) /\ Get(e.par, "opt.tls") \in {"", "1"}
IsWg(e) == Of(e, "wireguard", WgKeys) /\ e.transport = NoTransport /\ e.tls = PlainText /\
           Get(e.par, "local_address") \in {"", "v4", "v6", "v4,v6"}

(* An endpoint with the parameters of S. *)
Built(e, proto, S, tr, tls, K) == Of(e, proto, K) /\ e.par = Pairs(S) /\ e.transport = tr /\ e.tls = tls

LEMMA EndpointOf ==
    ASSUME NEW proto, NEW S, NEW tr, NEW tls, NEW K, \A p \in S : p[1] \in K, IsTransport(tr), IsTls(tls)
    PROVE  Built(Endpoint(proto, S, tr, tls), proto, S, tr, tls, K)
<1>. DEFINE e == Endpoint(proto, S, tr, tls)
<1>1. e.par = Pairs(S) /\ e.transport = tr /\ e.tls = tls /\ e = [proto |-> proto, par |-> e.par, transport |-> e.transport, tls |-> e.tls]
  BY DEF Endpoint
<1>2. DOMAIN Pairs(S) \subseteq K
  BY PairsClean DEF Silent
<1>. HIDE DEF e
<1>3. Of(e, proto, K)
  BY <1>1, <1>2, PairsClean DEF Of
<1>4. Built(e, proto, S, tr, tls, K)
  BY <1>1, <1>3 DEF Built
<1>. QED
  BY <1>4 DEF e

LEMMA PlainIsTls == IsTls(PlainText)
  BY DEF IsTls

(* The links. *)
LEMMA VlessLinkIs == ASSUME NEW l PROVE IsVless(parseVLESS(l))
<1>. DEFINE S == {<<"uuid", l.user>>, <<"flow", Get(l.q, "flow")>>,
                  <<"packet_encoding", Spelled(l.q, <<"packetEncoding", "packet_encoding">>)>>}
<1>1. \A p \in S : p[1] \in VlessKeys
  BY DEF VlessKeys
<1>2. parseVLESS(l) = Endpoint("vless", S, transportFromQuery(l.q), tlsFromQuery(l.q, FALSE))
  BY DEF parseVLESS
<1>. HIDE DEF S
<1>3. Built(parseVLESS(l), "vless", S, transportFromQuery(l.q), tlsFromQuery(l.q, FALSE), VlessKeys)
  BY <1>1, <1>2, EndpointOf, LinkTransport, LinkTls
<1>. QED
  BY <1>3 DEF Built, IsVless

LEMMA TrojanLinkIs == ASSUME NEW l PROVE IsTrojan(parseTrojan(l))
<1>. DEFINE S == {<<"password", l.user>>}
<1>1. \A p \in S : p[1] \in {"password"}
  OBVIOUS
<1>2. parseTrojan(l) = Endpoint("trojan", S, transportFromQuery(l.q), tlsFromQuery(l.q, TRUE))
  BY DEF parseTrojan
<1>. HIDE DEF S
<1>3. Built(parseTrojan(l), "trojan", S, transportFromQuery(l.q), tlsFromQuery(l.q, TRUE), {"password"})
  BY <1>1, <1>2, EndpointOf, LinkTransport, LinkTls
<1>. QED
  BY <1>3 DEF Built, IsTrojan

LEMMA AnyTLSLinkIs == ASSUME NEW l PROVE IsAnyTLS(parseAnyTLS(l))
<1>. DEFINE S == {<<"password", l.user>>}
<1>1. \A p \in S : p[1] \in {"password"}
  OBVIOUS
<1>2. parseAnyTLS(l) = Endpoint("anytls", S, NoTransport, tlsFromQuery(l.q, TRUE))
  BY DEF parseAnyTLS
<1>. HIDE DEF S
<1>3. Built(parseAnyTLS(l), "anytls", S, NoTransport, tlsFromQuery(l.q, TRUE), {"password"})
  BY <1>1, <1>2, EndpointOf, NoneIsTransport, LinkTls
<1>. QED
  BY <1>3 DEF Built, IsAnyTLS

LEMMA Hy2LinkIs == ASSUME NEW l PROVE IsHy2(parseHysteria2(l))
<1>. DEFINE pw == IF l.pass = "" THEN l.user ELSE "user:pass"
            ob == Get(l.q, "obfs")
            ow == IF ob = "" THEN "" ELSE Get(l.q, "obfs-password")
            hp == Spelled(l.q, <<"mport", "ports">>)
            S == {<<"password", pw>>, <<"obfs", ob>>, <<"obfs_password", ow>>, <<"hop_ports", hp>>}
<1>1. ob = "" => ow = ""
  OBVIOUS
<1>2. parseHysteria2(l) = Endpoint("hysteria2", S, NoTransport, QuicTls(l.q))
  BY DEF parseHysteria2
<1>. HIDE DEF pw, ob, ow, hp
<1>3. \A p \in S : p[1] \in Hy2Keys
  BY DEF Hy2Keys
<1>4. Gives(S, "obfs", ob) /\ Gives(S, "obfs_password", ow)
  BY DEF Gives
<1>. HIDE DEF S
<1>5. Get(Pairs(S), "obfs") = "" => Get(Pairs(S), "obfs_password") = ""
  BY <1>1, <1>4, GetIs
<1>6. Built(parseHysteria2(l), "hysteria2", S, NoTransport, QuicTls(l.q), Hy2Keys)
  BY <1>2, <1>3, EndpointOf, NoneIsTransport, LinkQuic, QuicIsTls
<1>. QED
  BY <1>5, <1>6, LinkQuic DEF Built, IsHy2

LEMMA TuicLinkIs == ASSUME NEW l PROVE IsTuic(parseTUIC(l))
<1>. DEFINE A == {<<"uuid", l.user>>, <<"password", l.pass>>}
            B == {<<k, Get(l.q, k)>> : k \in {"congestion_control", "udp_relay_mode", "heartbeat"}}
            C == {<<k, Bit(truthy(Get(l.q, k)))>> : k \in {"zero_rtt_handshake", "udp_over_stream"}}
            S == A \cup B \cup C
<1>1. \A p \in S : p[1] \in TuicKeys
  BY DEF TuicKeys
<1>2. ASSUME NEW k \in {"zero_rtt_handshake", "udp_over_stream"} PROVE Get(Pairs(S), k) \in {"", "1"}
  <2>1. Silent(A \cup B, k)
    BY DEF Silent
  <2>2. Gives(C, k, Bit(truthy(Get(l.q, k))))
    <3>1. <<k, Bit(truthy(Get(l.q, k)))>> \in C
      OBVIOUS
    <3>2. \A p \in C : p[2] = Bit(truthy(Get(l.q, p[1])))
      OBVIOUS
    <3>. HIDE DEF C
    <3>. QED
      BY <3>1, <3>2 DEF Gives
  <2>3. Gives(S, k, Bit(truthy(Get(l.q, k))))
    BY <2>1, <2>2, GivesMore
  <2>. QED
    BY <2>3, GetIs DEF Bit
<1>3. parseTUIC(l) = Endpoint("tuic", S, NoTransport, QuicTls(l.q))
  BY DEF parseTUIC
<1>. HIDE DEF S
<1>4. Built(parseTUIC(l), "tuic", S, NoTransport, QuicTls(l.q), TuicKeys)
  BY <1>1, <1>3, EndpointOf, NoneIsTransport, LinkQuic, QuicIsTls
<1>. QED
  BY <1>2, <1>4, LinkQuic DEF Built, IsTuic

(* What a VMess link says of the transport and of TLS. *)
VMessTransport(q) ==
    LET net == IF Get(q, "net") = "h2" THEN "http" ELSE Get(q, "net")
        tr  == [type |-> net, path |-> Get(q, "path"), host |-> Get(q, "host"),
                svc |-> IF net = "grpc" THEN Get(q, "path") ELSE ""]
    IN IF net \in {"ws", "grpc", "http", "httpupgrade"} THEN tr ELSE NoTransport
VMessTls(q) ==
    LET tls == [PlainText EXCEPT !.on = TRUE, !.type = "tls", !.finger = Get(q, "fp"), !.alpn = Get(q, "alpn"),
                   !.sni = FirstNonEmpty(<<Get(q, "sni"), Get(q, "host"), "server">>),
                   !.insecure = truthy(Get(q, "allowInsecure"))]
    IN IF Get(q, "tls") = "tls" \/ truthy(Get(q, "tls")) THEN tls ELSE PlainText

LEMMA VMessMade ==
    ASSUME NEW s, NEW f, NEW a, NEW b
    PROVE  [PlainText EXCEPT !.on = TRUE, !.type = "tls", !.finger = f, !.alpn = a, !.sni = s, !.insecure = b] = TlsOf(s, f, a, b)
<1>. DEFINE t == [PlainText EXCEPT !.on = TRUE, !.type = "tls", !.finger = f, !.alpn = a, !.sni = s, !.insecure = b]
            u == TlsOf(s, f, a, b)
<1>1. IsBlock(t) /\ IsBlock(u)
  BY DEF IsBlock, TlsOf, PlainText
<1>2. t.on = u.on /\ t.insecure = u.insecure
  BY DEF TlsOf, PlainText
<1>3. t.type = u.type /\ t.sni = u.sni /\ t.finger = u.finger /\ t.key = u.key /\ t.sid = u.sid /\ t.alpn = u.alpn
  BY DEF TlsOf, PlainText
<1>. HIDE DEF t, u
<1>4. t = u
  BY <1>1, <1>2, <1>3, SameBlock, Zenon
<1>. QED
  BY <1>4 DEF t, u

LEMMA VMessTransportIs ==
    ASSUME NEW q
    PROVE  /\ Get(q, "net") = "grpc" => VMessTransport(q) = TrOf("grpc", Get(q, "path"), Get(q, "host"), Get(q, "path"))
           /\ Get(q, "net") = "ws" => VMessTransport(q) = TrOf("ws", Get(q, "path"), Get(q, "host"), "")
           /\ Get(q, "net") = "httpupgrade" => VMessTransport(q) = TrOf("httpupgrade", Get(q, "path"), Get(q, "host"), "")
           /\ Get(q, "net") \in {"h2", "http"} => VMessTransport(q) = TrOf("http", Get(q, "path"), Get(q, "host"), "")
           /\ Get(q, "net") \notin {"grpc", "ws", "http", "h2", "httpupgrade"} => VMessTransport(q) = TrOf("", "", "", "")
  BY DEF VMessTransport, NoTransport, TrOf

LEMMA VMessTransportSort == ASSUME NEW q PROVE IsTransport(VMessTransport(q))
  BY VMessTransportIs DEF IsTransport

LEMMA VMessTlsIs ==
    ASSUME NEW q
    PROVE  /\ Get(q, "tls") \in {"tls", "1", "true", "yes"} =>
                  VMessTls(q) = TlsOf(Or(Get(q, "sni"), Or(Get(q, "host"), "server")), Get(q, "fp"), Get(q, "alpn"),
                                      truthy(Get(q, "allowInsecure")))
           /\ Get(q, "tls") \notin {"tls", "1", "true", "yes"} => VMessTls(q) = PlainText
<1>. DEFINE sni == FirstNonEmpty(<<Get(q, "sni"), Get(q, "host"), "server">>)
            b == truthy(Get(q, "allowInsecure"))
            tls == [PlainText EXCEPT !.on = TRUE, !.type = "tls", !.finger = Get(q, "fp"), !.alpn = Get(q, "alpn"), !.sni = sni, !.insecure = b]
            on == Get(q, "tls") = "tls" \/ truthy(Get(q, "tls"))
<1>1. sni = Or(Get(q, "sni"), Or(Get(q, "host"), "server"))
  BY FirstOf3
<1>2. VMessTls(q) = IF on THEN tls ELSE PlainText
  BY Zenon DEF VMessTls
<1>3. on <=> Get(q, "tls") \in {"tls", "1", "true", "yes"}
  BY DEF truthy
<1>4. tls = TlsOf(sni, Get(q, "fp"), Get(q, "alpn"), b)
  BY VMessMade, Zenon
<1>. HIDE DEF tls, on, sni, b
<1>5. (on => VMessTls(q) = TlsOf(sni, Get(q, "fp"), Get(q, "alpn"), b)) /\ (~on => VMessTls(q) = PlainText)
  BY <1>2, <1>4
<1>. QED
  BY <1>1, <1>3, <1>5 DEF b

LEMMA VMessTlsSort == ASSUME NEW q PROVE IsTls(VMessTls(q)) /\ VMessTls(q).type # "reality"
<1>. DEFINE sni == Or(Get(q, "sni"), Or(Get(q, "host"), "server"))
            b == truthy(Get(q, "allowInsecure"))
<1>1. sni # ""
  BY DEF Or
<1>5. b \in BOOLEAN
  BY DEF truthy
<1>2. VMessTls(q) = TlsOf(sni, Get(q, "fp"), Get(q, "alpn"), b) \/ VMessTls(q) = PlainText
  BY VMessTlsIs
<1>. HIDE DEF sni, b
<1>3. IsTls(VMessTls(q))
  BY <1>1, <1>5, <1>2, TlsSorts, PlainIsTls
<1>4. TlsOf(sni, Get(q, "fp"), Get(q, "alpn"), b).type = "tls" /\ PlainText.type = ""
  BY DEF TlsOf, PlainText
<1>. QED
  BY <1>2, <1>3, <1>4

LEMMA VMessLinkIs ==
    ASSUME NEW l
    PROVE  IsVMess(parseVMess(l))
<1>. DEFINE ai == FirstNonEmpty(<<Get(l.q, "aid"), "0">>)
            se == FirstNonEmpty(<<Get(l.q, "scy"), "auto">>)
            S == {<<"uuid", Get(l.q, "id")>>, <<"alter_id", ai>>, <<"security", se>>}
<1>1. ai # "" /\ se # ""
  <2>1. ai = Or(Get(l.q, "aid"), "0") /\ se = Or(Get(l.q, "scy"), "auto")
    BY FirstOf2
  <2>. HIDE DEF ai, se
  <2>. QED
    BY <2>1 DEF Or
<1>2. parseVMess(l) = Endpoint("vmess", S, VMessTransport(l.q), VMessTls(l.q))
  BY Zenon DEF parseVMess, VMessTransport, VMessTls
<1>. HIDE DEF ai, se
<1>3. \A p \in S : p[1] \in VMessKeys
  BY DEF VMessKeys
<1>4. Gives(S, "alter_id", ai) /\ Gives(S, "security", se)
  BY DEF Gives
<1>. HIDE DEF S
<1>5. Get(Pairs(S), "alter_id") = ai /\ Get(Pairs(S), "security") = se
  BY <1>4, GetIs
<1>6. Built(parseVMess(l), "vmess", S, VMessTransport(l.q), VMessTls(l.q), VMessKeys)
  BY <1>2, <1>3, EndpointOf, VMessTransportSort, VMessTlsSort
<1>. QED
  BY <1>1, <1>5, <1>6, VMessTlsSort DEF Built, IsVMess

(* What is assumed of a text. *)
AddressFits(l) ==
    Get(l.q, "address") \in {"", "v4", "v6", "v4,v6"} /\ Get(l.q, "ip") \in {"", "v4"} /\ Get(l.q, "ipv6") \in {"", "v6"}
PluginFits(l) ==
    /\ Get(l.q, "plugin") \notin {"obfs", "simple-obfs"}
    /\ PluginOpts \cap DOMAIN l.q \subseteq OptsOf(Get(l.q, "plugin"))
    /\ Get(l.q, "opt.tls") \in {"", "1"}

LEMMA WgUrlIs ==
    ASSUME NEW l, AddressFits(l)
    PROVE  IsWg(parseWireGuardURL(l))
<1>. DEFINE us == l.user
            pk == Get(l.q, "publickey")
            ps == Get(l.q, "presharedkey")
            ka == Spelled(l.q, <<"keepalive", "persistentkeepalive">>)
            ad == Get(l.q, "address")
            re == Get(l.q, "reserved")
            mt == Get(l.q, "mtu")
            S == {<<"private_key", us>>, <<"peer_public_key", pk>>, <<"pre_shared_key", ps>>, <<"persistent_keepalive", ka>>,
                  <<"local_address", ad>>, <<"reserved", re>>, <<"mtu", mt>>}
<1>1. parseWireGuardURL(l) = Endpoint("wireguard", S, NoTransport, PlainText) /\ ad \in {"", "v4", "v6", "v4,v6"}
  BY Zenon DEF AddressFits, parseWireGuardURL
<1>. HIDE DEF us, pk, ps, ka, ad, re, mt
<1>2. \A p \in S : p[1] \in WgKeys
  BY DEF WgKeys
<1>3. Gives(S, "local_address", ad)
  BY DEF Gives
<1>. HIDE DEF S
<1>4. Get(Pairs(S), "local_address") = ad
  BY <1>3, GetIs
<1>5. Built(parseWireGuardURL(l), "wireguard", S, NoTransport, PlainText, WgKeys)
  BY <1>1, <1>2, EndpointOf, NoneIsTransport, PlainIsTls
<1>. QED
  BY <1>1, <1>4, <1>5 DEF Built, IsWg

LEMMA ConfIs ==
    ASSUME NEW l, AddressFits(l)
    PROVE  IsWg(parseConf(l))
<1>. DEFINE pr == Get(l.q, "privatekey")
            pk == Get(l.q, "publickey")
            ps == Get(l.q, "presharedkey")
            ka == Get(l.q, "persistentkeepalive")
            ad == Get(l.q, "address")
            re == Get(l.q, "reserved")
            mt == Get(l.q, "mtu")
            pe == IF Get(l.q, "peer2") = "" THEN "one" ELSE "two"
            S == {<<"private_key", pr>>, <<"peer_public_key", pk>>, <<"pre_shared_key", ps>>, <<"persistent_keepalive", ka>>,
                  <<"local_address", ad>>, <<"reserved", re>>, <<"mtu", mt>>, <<"peers", pe>>}
<1>1. parseConf(l) = Endpoint("wireguard", S, NoTransport, PlainText) /\ ad \in {"", "v4", "v6", "v4,v6"}
  BY Zenon DEF AddressFits, parseConf
<1>. HIDE DEF pr, pk, ps, ka, ad, re, mt, pe
<1>2. \A p \in S : p[1] \in WgKeys
  BY DEF WgKeys
<1>3. Gives(S, "local_address", ad)
  BY DEF Gives
<1>. HIDE DEF S
<1>4. Get(Pairs(S), "local_address") = ad
  BY <1>3, GetIs
<1>5. Built(parseConf(l), "wireguard", S, NoTransport, PlainText, WgKeys)
  BY <1>1, <1>2, EndpointOf, NoneIsTransport, PlainIsTls
<1>. QED
  BY <1>1, <1>4, <1>5 DEF Built, IsWg

(* Shadowsocks: the options of the link are those of the plugin. *)
LEMMA SsLinkIs ==
    ASSUME NEW l, PluginFits(l)
    PROVE  IsSs(parseShadowsocks(l))
<1>. DEFINE us == l.user
            pa == l.pass
            pl == Get(l.q, "plugin")
            uo == Bit(\E k \in {"udp-over-tcp", "udp_over_tcp", "uot"} : truthy(Get(l.q, k)))
            A == {<<"method", us>>, <<"password", pa>>, <<"plugin", pl>>, <<"udp_over_tcp", uo>>}
            B == IF pl = "" THEN {} ELSE {<<k, Get(l.q, k)>> : k \in PluginOpts}
            S == A \cup B
<1>1. parseShadowsocks(l) = Endpoint("shadowsocks", S, NoTransport, PlainText)
  BY Zenon DEF parseShadowsocks
<1>2. uo \in {"", "1"} /\ pl \notin {"obfs", "simple-obfs"}
  BY DEF Bit, PluginFits
<1>3. PluginOpts \cap DOMAIN l.q \subseteq OptsOf(pl)
  BY DEF PluginFits
<1>4. \A p \in B : p[1] \in PluginOpts /\ p[2] = Get(l.q, p[1])
  <2>. DEFINE C == {<<k, Get(l.q, k)>> : k \in PluginOpts}
  <2>1. \A p \in C : p[1] \in PluginOpts /\ p[2] = Get(l.q, p[1])
    OBVIOUS
  <2>2. B \subseteq C
    <3>. HIDE DEF C
    <3>1. B = IF pl = "" THEN {} ELSE C
      BY DEF C
    <3>. HIDE DEF B
    <3>. QED
      BY <3>1
  <2>. HIDE DEF B, C
  <2>. QED
    BY <2>1, <2>2
<1>. HIDE DEF us, pa, pl, uo, B
<1>5. \A p \in A : p[1] \in {"method", "password", "plugin", "udp_over_tcp"}
  OBVIOUS
<1>6. \A p \in S : p[1] \in SsKeys
  BY <1>4, <1>5 DEF SsKeys
<1>7. Silent(B, "udp_over_tcp") /\ Silent(B, "plugin")
  BY <1>4 DEF Silent, PluginOpts
<1>8. Gives(A, "udp_over_tcp", uo) /\ Gives(A, "plugin", pl)
  BY DEF Gives
<1>. HIDE DEF A
<1>9. Get(Pairs(S), "udp_over_tcp") = uo /\ Get(Pairs(S), "plugin") = pl
  <2>1. Gives(S, "udp_over_tcp", uo) /\ Gives(S, "plugin", pl)
    BY <1>7, <1>8, GivesMore
  <2>. QED
    BY <2>1, GetIs
<1>10. ASSUME NEW k \in PluginOpts, k \in DOMAIN Pairs(S) PROVE k \in DOMAIN l.q /\ Get(Pairs(S), k) = Get(l.q, k)
  <2>1. Silent(A, k)
    BY <1>5, <1>10 DEF Silent, PluginOpts
  <2>2. PICK p \in S : p[1] = k
    BY <1>10, PairsClean DEF Silent
  <2>3. p \in B
    BY <2>1, <2>2 DEF Silent
  <2>4. <<k, Get(l.q, k)>> \in B
    BY <1>10, <2>3 DEF B
  <2>5. Gives(B, k, Get(l.q, k))
    BY <1>4, <2>4 DEF Gives
  <2>8. Gives(S, k, Get(l.q, k))
    BY <2>1, <2>5, GivesMore
  <2>6. Get(Pairs(S), k) = Get(l.q, k)
    BY <2>8, GetIs
  <2>7. Get(Pairs(S), k) # ""
    BY <1>10, PairsClean DEF Clean, Get
  <2>. QED
    BY <2>6, <2>7 DEF Get
<1>. HIDE DEF S
<1>11. PluginOpts \cap DOMAIN Pairs(S) \subseteq OptsOf(pl)
  BY <1>3, <1>10
<1>12. Get(Pairs(S), "opt.tls") \in {"", "1"}
  <2>1. "opt.tls" \in PluginOpts
    BY DEF PluginOpts
  <2>2. CASE "opt.tls" \in DOMAIN Pairs(S)
    BY <1>10, <2>1, <2>2 DEF PluginFits
  <2>3. CASE "opt.tls" \notin DOMAIN Pairs(S)
    BY <2>3 DEF Get
  <2>. QED
    BY <2>2, <2>3
<1>13. Built(parseShadowsocks(l), "shadowsocks", S, NoTransport, PlainText, SsKeys)
  BY <1>1, <1>6, EndpointOf, NoneIsTransport, PlainIsTls
<1>. QED
  BY <1>2, <1>9, <1>11, <1>12, <1>13 DEF Built, IsSs

(* The clash proxies. *)
LEMMA ProxyTlsOr ==
    ASSUME NEW p, NEW ns, FirstNonEmpty(ns) # "", NEW c \in BOOLEAN
    PROVE  IsTls(IF c THEN ClashTls(p, ns) ELSE PlainText)
<1>1. CASE c = TRUE
  BY <1>1, ProxyIsTls
<1>2. CASE c = FALSE
  BY <1>2, PlainIsTls
<1>. QED
  BY <1>1, <1>2

LEMMA NamesSet ==
    ASSUME NEW p
    PROVE  /\ FirstNonEmpty(NameFirst(p)) # "" /\ FirstNonEmpty(SniFirst(p)) # ""
           /\ FirstNonEmpty(<<Get(p, "sni"), Get(p, "servername"), "server">>) # ""
<1>1. \A a, b, c : Or(a, Or(b, Or(c, "server"))) # "" /\ Or(a, Or(b, "server")) # ""
  BY DEF Or
<1>. QED
  BY <1>1, ProxyNames

LEMMA VMessProxyIs == ASSUME NEW p PROVE IsVMess(clashVMess(p))
<1>. DEFINE uu == Get(p, "uuid")
            ai == FirstNonEmpty(<<Get(p, "alterId"), "0">>)
            se == FirstNonEmpty(<<Get(p, "cipher"), "auto">>)
            S == {<<"uuid", uu>>, <<"alter_id", ai>>, <<"security", se>>}
            T == IF clashTLSEnabled(p) THEN ClashTls(p, NameFirst(p)) ELSE PlainText
<1>1. ai # "" /\ se # ""
  <2>1. ai = Or(Get(p, "alterId"), "0") /\ se = Or(Get(p, "cipher"), "auto")
    BY FirstOf2
  <2>. HIDE DEF ai, se
  <2>. QED
    BY <2>1 DEF Or
<1>2. clashVMess(p) = Endpoint("vmess", S, clashTransport(p), T)
  BY Zenon DEF clashVMess
<1>3. IsTls(T) /\ T.type # "reality"
  <2>1. clashTLSEnabled(p) \in BOOLEAN
    BY DEF clashTLSEnabled, truthy
  <2>2. IsTls(T)
    BY <2>1, NamesSet, ProxyTlsOr
  <2>3. ClashTls(p, NameFirst(p)).type = "tls" /\ PlainText.type = ""
    BY ProxyTls DEF TlsOf, PlainText
  <2>4. T = ClashTls(p, NameFirst(p)) \/ T = PlainText
    OBVIOUS
  <2>. HIDE DEF T
  <2>. QED
    BY <2>2, <2>3, <2>4
<1>. HIDE DEF uu, ai, se, T
<1>4. \A x \in S : x[1] \in VMessKeys
  BY DEF VMessKeys
<1>5. Gives(S, "alter_id", ai) /\ Gives(S, "security", se)
  BY DEF Gives
<1>. HIDE DEF S
<1>6. Get(Pairs(S), "alter_id") = ai /\ Get(Pairs(S), "security") = se
  BY <1>5, GetIs
<1>7. Built(clashVMess(p), "vmess", S, clashTransport(p), T, VMessKeys)
  BY <1>2, <1>3, <1>4, EndpointOf, ProxyTransport
<1>. QED
  BY <1>1, <1>3, <1>6, <1>7 DEF Built, IsVMess

LEMMA TrojanProxyIs == ASSUME NEW p PROVE IsTrojan(clashTrojan(p))
<1>. DEFINE S == {<<"password", Get(p, "password")>>}
            T == IF clashTLSDefaultOn(p) THEN ClashTls(p, SniFirst(p)) ELSE PlainText
<1>1. \A x \in S : x[1] \in {"password"}
  OBVIOUS
<1>2. clashTrojan(p) = Endpoint("trojan", S, clashTransport(p), T)
  BY Zenon DEF clashTrojan
<1>3. IsTls(T)
  <2>1. clashTLSDefaultOn(p) \in BOOLEAN
    BY DEF clashTLSDefaultOn
  <2>. QED
    BY <2>1, NamesSet, ProxyTlsOr
<1>. HIDE DEF S, T
<1>4. Built(clashTrojan(p), "trojan", S, clashTransport(p), T, {"password"})
  BY <1>1, <1>2, <1>3, EndpointOf, ProxyTransport
<1>. QED
  BY <1>4 DEF Built, IsTrojan

LEMMA AnyTLSProxyIs == ASSUME NEW p PROVE IsAnyTLS(clashAnyTLS(p))
<1>. DEFINE S == {<<"password", Get(p, "password")>>}
            T == ClashTls(p, <<Get(p, "sni"), Get(p, "servername"), "server">>)
<1>1. \A x \in S : x[1] \in {"password"}
  OBVIOUS
<1>2. clashAnyTLS(p) = Endpoint("anytls", S, NoTransport, T)
  BY Zenon DEF clashAnyTLS
<1>3. IsTls(T)
  BY NamesSet, ProxyIsTls
<1>. HIDE DEF S, T
<1>4. Built(clashAnyTLS(p), "anytls", S, NoTransport, T, {"password"})
  BY <1>1, <1>2, <1>3, EndpointOf, NoneIsTransport
<1>. QED
  BY <1>4 DEF Built, IsAnyTLS

(* Reality in a vless proxy. *)
ProxyReality(p) ==
    LET key == Spelled(p, <<"reality-opts.public-key", "reality-opts.publicKey">>)
    IN [ClashTls(p, <<Get(p, "servername"), Get(p, "sni")>>) EXCEPT
            !.type = "reality", !.insecure = FALSE, !.key = key,
            !.sid = Spelled(p, <<"reality-opts.short-id", "reality-opts.shortId">>)]

AsReality(t, k, i) == [t EXCEPT !.type = "reality", !.insecure = FALSE, !.key = k, !.sid = i]

LEMMA RealityMade ==
    ASSUME NEW s, NEW f, NEW a, NEW b, NEW k, NEW i
    PROVE  AsReality(TlsOf(s, f, a, b), k, i) = RealityOf(s, f, k, i, a)
<1>. DEFINE t == AsReality(TlsOf(s, f, a, b), k, i)
            u == RealityOf(s, f, k, i, a)
<1>1. IsBlock(t) /\ IsBlock(u)
  BY DEF IsBlock, AsReality, TlsOf, RealityOf
<1>2. t.on = u.on /\ t.insecure = u.insecure
  BY DEF AsReality, TlsOf, RealityOf
<1>3. t.type = u.type /\ t.sni = u.sni /\ t.finger = u.finger /\ t.key = u.key /\ t.sid = u.sid /\ t.alpn = u.alpn
  BY DEF AsReality, TlsOf, RealityOf
<1>. HIDE DEF t, u
<1>4. t = u
  BY <1>1, <1>2, <1>3, SameBlock, Zenon
<1>. QED
  BY <1>4 DEF t, u

LEMMA ProxyRealityIs ==
    ASSUME NEW p
    PROVE  ProxyReality(p) = RealityOf(Or(Get(p, "servername"), Get(p, "sni")), Or(Get(p, "client-fingerprint"), Get(p, "fingerprint")),
                                       Or(Get(p, "reality-opts.public-key"), Get(p, "reality-opts.publicKey")),
                                       Or(Get(p, "reality-opts.short-id"), Get(p, "reality-opts.shortId")), Get(p, "alpn"))
<1>. DEFINE ns == <<Get(p, "servername"), Get(p, "sni")>>
            s == FirstNonEmpty(ns)
            f == Or(Get(p, "client-fingerprint"), Get(p, "fingerprint"))
            b == clashInsecure(p)
            k == Spelled(p, <<"reality-opts.public-key", "reality-opts.publicKey">>)
            i == Spelled(p, <<"reality-opts.short-id", "reality-opts.shortId">>)
            a == Get(p, "alpn")
            c == ClashTls(p, ns)
<1>1. s = Or(Get(p, "servername"), Get(p, "sni"))
  BY FirstOf2
<1>2. k = Or(Get(p, "reality-opts.public-key"), Get(p, "reality-opts.publicKey"))
  BY Spelled2
<1>3. i = Or(Get(p, "reality-opts.short-id"), Get(p, "reality-opts.shortId"))
  BY Spelled2
<1>4. ProxyReality(p) = AsReality(c, k, i)
  BY DEF ProxyReality, AsReality
<1>5. c = TlsOf(s, f, a, b)
  BY ProxyTls
<1>. HIDE DEF s, f, b, k, i, a, c, ns
<1>6. AsReality(TlsOf(s, f, a, b), k, i) = RealityOf(s, f, k, i, a)
  BY RealityMade
<1>7. ProxyReality(p) = RealityOf(s, f, k, i, a)
  BY <1>4, <1>5, <1>6
<1>. QED
  BY <1>1, <1>2, <1>3, <1>7 DEF f, a

ProxyVlessTls(p) ==
    IF Spelled(p, <<"reality-opts.public-key", "reality-opts.publicKey">>) # "" THEN ProxyReality(p)
    ELSE IF clashTLSEnabled(p) THEN ClashTls(p, NameFirst(p)) ELSE PlainText

LEMMA VlessProxyIs ==
    ASSUME NEW p
    PROVE  /\ IsVless(clashVLESS(p))
           /\ clashVLESS(p) = Endpoint("vless", {<<"uuid", Get(p, "uuid")>>, <<"flow", Get(p, "flow")>>},
                                       clashTransport(p), ProxyVlessTls(p))
<1>. DEFINE S == {<<"uuid", Get(p, "uuid")>>, <<"flow", Get(p, "flow")>>}
            T == ProxyVlessTls(p)
            E == IF clashTLSEnabled(p) THEN ClashTls(p, NameFirst(p)) ELSE PlainText
<1>1. \A x \in S : x[1] \in VlessKeys
  BY DEF VlessKeys
<1>2. clashVLESS(p) = Endpoint("vless", S, clashTransport(p), T)
  BY DEF clashVLESS, ProxyVlessTls, ProxyReality
<1>3. IsTls(T)
  <2>1. clashTLSEnabled(p) \in BOOLEAN
    BY DEF clashTLSEnabled, truthy
  <2>2. IsTls(E)
    BY <2>1, NamesSet, ProxyTlsOr
  <2>3. IsTls(ProxyReality(p))
    BY ProxyRealityIs DEF IsTls
  <2>4. T = ProxyReality(p) \/ T = E
    BY DEF ProxyVlessTls
  <2>. HIDE DEF T, E
  <2>. QED
    BY <2>2, <2>3, <2>4
<1>. HIDE DEF S, T
<1>4. Built(clashVLESS(p), "vless", S, clashTransport(p), T, VlessKeys)
  BY <1>1, <1>2, <1>3, EndpointOf, ProxyTransport
<1>5. IsVless(clashVLESS(p))
  BY <1>4 DEF Built, IsVless
<1>. QED
  BY <1>2, <1>5 DEF S, T

LEMMA Hy2ProxyIs == ASSUME NEW p PROVE IsHy2(clashHysteria2(p))
<1>. DEFINE pw == Spelled(p, <<"password", "auth">>)
            ob == Get(p, "obfs")
            ow == IF ob = "" THEN "" ELSE Spelled(p, <<"obfs-password", "obfs_password">>)
            hp == Spelled(p, <<"ports", "mport">>)
            up == Get(p, "up")
            dn == Get(p, "down")
            S == {<<"password", pw>>, <<"obfs", ob>>, <<"obfs_password", ow>>, <<"hop_ports", hp>>,
                  <<"up_mbps", up>>, <<"down_mbps", dn>>}
<1>1. ob = "" => ow = ""
  OBVIOUS
<1>2. clashHysteria2(p) = Endpoint("hysteria2", S, NoTransport, ClashQuicTls(p))
  BY Zenon DEF clashHysteria2
<1>. HIDE DEF pw, ob, ow, hp, up, dn
<1>3. \A x \in S : x[1] \in Hy2Keys
  BY DEF Hy2Keys
<1>4. Gives(S, "obfs", ob) /\ Gives(S, "obfs_password", ow)
  BY DEF Gives
<1>. HIDE DEF S
<1>5. Get(Pairs(S), "obfs") = "" => Get(Pairs(S), "obfs_password") = ""
  BY <1>1, <1>4, GetIs
<1>6. Built(clashHysteria2(p), "hysteria2", S, NoTransport, ClashQuicTls(p), Hy2Keys)
  BY <1>2, <1>3, EndpointOf, NoneIsTransport, ProxyQuic, QuicIsTls
<1>. QED
  BY <1>5, <1>6, ProxyQuic DEF Built, IsHy2

LEMMA TuicProxyIs == ASSUME NEW p PROVE IsTuic(clashTUIC(p))
<1>. DEFINE uu == Get(p, "uuid")
            pw == Get(p, "password")
            cc == Spelled(p, <<"congestion-controller", "congestion_control">>)
            ur == Spelled(p, <<"udp-relay-mode", "udp_relay_mode">>)
            S == {<<"uuid", uu>>, <<"password", pw>>, <<"congestion_control", cc>>, <<"udp_relay_mode", ur>>}
<1>1. clashTUIC(p) = Endpoint("tuic", S, NoTransport, ClashQuicTls(p))
  BY Zenon DEF clashTUIC
<1>. HIDE DEF uu, pw, cc, ur
<1>2. \A x \in S : x[1] \in TuicKeys
  BY DEF TuicKeys
<1>3. Gives(S, "zero_rtt_handshake", "") /\ Gives(S, "udp_over_stream", "")
  BY DEF Gives
<1>. HIDE DEF S
<1>4. Get(Pairs(S), "zero_rtt_handshake") = "" /\ Get(Pairs(S), "udp_over_stream") = ""
  BY <1>3, GetIs
<1>5. Built(clashTUIC(p), "tuic", S, NoTransport, ClashQuicTls(p), TuicKeys)
  BY <1>1, <1>2, EndpointOf, NoneIsTransport, ProxyQuic, QuicIsTls
<1>. QED
  BY <1>4, <1>5, ProxyQuic DEF Built, IsTuic

LEMMA WgProxyIs == ASSUME NEW l, AddressFits(l) PROVE IsWg(clashWireGuard(l.q))
<1>. DEFINE p == l.q
            pr == Spelled(p, <<"private-key", "private_key">>)
            pk == Spelled(p, <<"public-key", "public_key">>)
            ps == Spelled(p, <<"pre-shared-key", "preshared-key", "pre_shared_key">>)
            ad == Addresses(p)
            re == Get(p, "reserved")
            mt == Get(p, "mtu")
            S == {<<"private_key", pr>>, <<"peer_public_key", pk>>, <<"pre_shared_key", ps>>,
                  <<"local_address", ad>>, <<"reserved", re>>, <<"mtu", mt>>}
<1>1. clashWireGuard(p) = Endpoint("wireguard", S, NoTransport, PlainText)
  BY Zenon DEF clashWireGuard
<1>2. ad \in {"", "v4", "v6", "v4,v6"}
  <2>. DEFINE a == Get(p, "ip")
              b == Get(p, "ipv6")
  <2>1. a \in {"", "v4"} /\ b \in {"", "v6"}
    BY DEF AddressFits
  <2>2. ad = IF a # "" /\ b # "" THEN "v4,v6" ELSE Or(a, b)
    BY FirstOf2 DEF Addresses
  <2>. HIDE DEF a, b, ad
  <2>. QED
    BY <2>1, <2>2 DEF Or
<1>. HIDE DEF pr, pk, ps, ad, re, mt
<1>3. \A x \in S : x[1] \in WgKeys
  BY DEF WgKeys
<1>4. Gives(S, "local_address", ad)
  BY DEF Gives
<1>. HIDE DEF S
<1>5. Get(Pairs(S), "local_address") = ad
  BY <1>4, GetIs
<1>6. Built(clashWireGuard(p), "wireguard", S, NoTransport, PlainText, WgKeys)
  BY <1>1, <1>3, EndpointOf, NoneIsTransport, PlainIsTls
<1>. QED
  BY <1>2, <1>5, <1>6 DEF Built, IsWg

(* The plugin of a shadowsocks proxy, by its name. *)
SsMode(p) == Spelled(p, <<"plugin-opts.mode", "plugin_opts.mode">>)
SsHost(p) == Spelled(p, <<"plugin-opts.host", "plugin_opts.host">>)
SsPath(p) == Spelled(p, <<"plugin-opts.path", "plugin_opts.path">>)
SsTls(p) == Bit(truthy(Spelled(p, <<"plugin-opts.tls", "plugin_opts.tls">>)))

LEMMA SsPluginIs ==
    ASSUME NEW p
    PROVE  /\ Get(p, "plugin") \in {"obfs", "simple-obfs", "obfs-local"} =>
                  clashSSPlugin(p) = {<<"plugin", "obfs-local">>, <<"opt.obfs", SsMode(p)>>, <<"opt.obfs-host", SsHost(p)>>}
           /\ Get(p, "plugin") = "v2ray-plugin" =>
                  clashSSPlugin(p) = {<<"plugin", "v2ray-plugin">>, <<"opt.mode", SsMode(p)>>, <<"opt.host", SsHost(p)>>,
                                      <<"opt.path", SsPath(p)>>, <<"opt.tls", SsTls(p)>>}
           /\ Get(p, "plugin") \notin {"obfs", "simple-obfs", "obfs-local", "v2ray-plugin"} =>
                  clashSSPlugin(p) = {<<"plugin", Get(p, "plugin")>>}
<1>. DEFINE mode == SsMode(p)
            host == SsHost(p)
            path == SsPath(p)
            tls == SsTls(p)
            g == Get(p, "plugin")
<1>1. clashSSPlugin(p) =
        CASE g \in {"obfs", "simple-obfs", "obfs-local"} ->
                 {<<"plugin", "obfs-local">>, <<"opt.obfs", mode>>, <<"opt.obfs-host", host>>}
          [] g = "v2ray-plugin" ->
                 {<<"plugin", "v2ray-plugin">>, <<"opt.mode", mode>>, <<"opt.host", host>>, <<"opt.path", path>>, <<"opt.tls", tls>>}
          [] OTHER -> {<<"plugin", g>>}
  BY DEF clashSSPlugin, SsMode, SsHost, SsPath, SsTls
<1>. HIDE DEF mode, host, path, tls, g
<1>2. /\ g \in {"obfs", "simple-obfs", "obfs-local"} =>
             clashSSPlugin(p) = {<<"plugin", "obfs-local">>, <<"opt.obfs", mode>>, <<"opt.obfs-host", host>>}
      /\ g = "v2ray-plugin" =>
             clashSSPlugin(p) = {<<"plugin", "v2ray-plugin">>, <<"opt.mode", mode>>, <<"opt.host", host>>, <<"opt.path", path>>, <<"opt.tls", tls>>}
      /\ g \notin {"obfs", "simple-obfs", "obfs-local", "v2ray-plugin"} => clashSSPlugin(p) = {<<"plugin", g>>}
  BY <1>1
<1>. QED
  BY <1>2 DEF mode, host, path, tls, g

(* What a plugin's own options say. *)
PluginSays(B) ==
    \E pl : /\ Gives(B, "plugin", pl) /\ pl \notin {"obfs", "simple-obfs"}
            /\ \A x \in B : x[1] = "plugin" \/ x[1] \in OptsOf(pl)
            /\ \E v \in {"", "1"} : Gives(B, "opt.tls", v)

LEMMA SsPluginSays == ASSUME NEW p PROVE PluginSays(clashSSPlugin(p))
<1>. DEFINE B == clashSSPlugin(p)
            mode == SsMode(p)
            host == SsHost(p)
            path == SsPath(p)
            tls == SsTls(p)
            g == Get(p, "plugin")
<1>0. tls \in {"", "1"}
  BY DEF SsTls, Bit
<1>1. CASE g \in {"obfs", "simple-obfs", "obfs-local"}
  <2>1. B = {<<"plugin", "obfs-local">>, <<"opt.obfs", mode>>, <<"opt.obfs-host", host>>}
    BY <1>1, SsPluginIs
  <2>. HIDE DEF B, mode, host, g
  <2>2. Gives(B, "plugin", "obfs-local") /\ Gives(B, "opt.tls", "")
    BY <2>1 DEF Gives
  <2>3. OptsOf("obfs-local") = {"opt.obfs", "opt.obfs-host"}
    BY DEF OptsOf
  <2>4. \A x \in B : x[1] = "plugin" \/ x[1] \in OptsOf("obfs-local")
    BY <2>1, <2>3
  <2>5. PluginSays(B)
    BY <2>2, <2>4 DEF PluginSays
  <2>. QED
    BY <2>5 DEF B
<1>2. CASE g = "v2ray-plugin"
  <2>1. B = {<<"plugin", "v2ray-plugin">>, <<"opt.mode", mode>>, <<"opt.host", host>>, <<"opt.path", path>>, <<"opt.tls", tls>>}
    BY <1>2, SsPluginIs
  <2>. HIDE DEF B, mode, host, path, tls, g
  <2>2. Gives(B, "plugin", "v2ray-plugin") /\ Gives(B, "opt.tls", tls)
    BY <2>1 DEF Gives
  <2>3. OptsOf("v2ray-plugin") = {"opt.mode", "opt.host", "opt.path", "opt.tls", "opt.mux"}
    BY DEF OptsOf
  <2>4. \A x \in B : x[1] = "plugin" \/ x[1] \in OptsOf("v2ray-plugin")
    BY <2>1, <2>3
  <2>5. PluginSays(B)
    BY <1>0, <2>2, <2>4 DEF PluginSays
  <2>. QED
    BY <2>5 DEF B
<1>3. CASE g \notin {"obfs", "simple-obfs", "obfs-local", "v2ray-plugin"}
  <2>1. B = {<<"plugin", g>>}
    BY <1>3, SsPluginIs
  <2>. HIDE DEF B, g
  <2>2. Gives(B, "plugin", g) /\ Gives(B, "opt.tls", "")
    BY <2>1 DEF Gives
  <2>3. \A x \in B : x[1] = "plugin"
    BY <2>1
  <2>5. PluginSays(B)
    BY <1>3, <2>2, <2>3 DEF PluginSays
  <2>. QED
    BY <2>5 DEF B
<1>. QED
  BY <1>1, <1>2, <1>3

LEMMA SsProxyIs == ASSUME NEW p PROVE IsSs(clashShadowsocks(p))
<1>. DEFINE ci == Get(p, "cipher")
            pw == Get(p, "password")
            uo == Bit(truthy(Get(p, "udp-over-tcp")) \/ truthy(Get(p, "udp_over_tcp")))
            A == {<<"method", ci>>, <<"password", pw>>, <<"udp_over_tcp", uo>>}
            B == clashSSPlugin(p)
            S == A \cup B
<1>1. clashShadowsocks(p) = Endpoint("shadowsocks", S, NoTransport, PlainText)
  BY Zenon DEF clashShadowsocks
<1>2. uo \in {"", "1"}
  BY DEF Bit
<1>. HIDE DEF ci, pw, uo, B
<1>5. \A x \in A : x[1] \in {"method", "password", "udp_over_tcp"}
  OBVIOUS
<1>6. Gives(A, "udp_over_tcp", uo)
  BY DEF Gives
<1>. HIDE DEF A
<1>3. PICK pl : /\ Gives(B, "plugin", pl) /\ pl \notin {"obfs", "simple-obfs"}
                /\ \A x \in B : x[1] = "plugin" \/ x[1] \in OptsOf(pl)
                /\ \E v \in {"", "1"} : Gives(B, "opt.tls", v)
  BY SsPluginSays DEF PluginSays, B
<1>4. PICK v \in {"", "1"} : Gives(B, "opt.tls", v)
  BY <1>3
<1>7. OptsOf(pl) \subseteq PluginOpts
  BY DEF OptsOf, PluginOpts
<1>8. \A x \in S : x[1] \in SsKeys
  BY <1>3, <1>5, <1>7 DEF SsKeys
<1>9. Silent(B, "udp_over_tcp") /\ Silent(A, "plugin") /\ Silent(A, "opt.tls")
  BY <1>3, <1>5, <1>7 DEF Silent, PluginOpts
<1>10. Gives(S, "udp_over_tcp", uo) /\ Gives(S, "plugin", pl) /\ Gives(S, "opt.tls", v)
  BY <1>3, <1>4, <1>6, <1>9, GivesMore
<1>11. Get(Pairs(S), "udp_over_tcp") = uo /\ Get(Pairs(S), "plugin") = pl /\ Get(Pairs(S), "opt.tls") = v
  BY <1>10, GetIs
<1>12. PluginOpts \cap DOMAIN Pairs(S) \subseteq OptsOf(pl)
  <2>. SUFFICES ASSUME NEW k \in PluginOpts, k \in DOMAIN Pairs(S) PROVE k \in OptsOf(pl)
    OBVIOUS
  <2>1. PICK x \in S : x[1] = k
    BY PairsClean DEF Silent
  <2>2. k # "plugin" /\ k \notin {"method", "password", "udp_over_tcp"}
    BY DEF PluginOpts
  <2>. QED
    BY <1>3, <1>5, <2>1, <2>2
<1>. HIDE DEF S
<1>13. Built(clashShadowsocks(p), "shadowsocks", S, NoTransport, PlainText, SsKeys)
  BY <1>1, <1>8, EndpointOf, NoneIsTransport, PlainIsTls
<1>. QED
  BY <1>2, <1>3, <1>4, <1>11, <1>12, <1>13 DEF Built, IsSs

(* Whatever is imported is one of these endpoints. *)
Known(e) == IsVless(e) \/ IsTrojan(e) \/ IsAnyTLS(e) \/ IsHy2(e) \/ IsTuic(e) \/ IsVMess(e) \/ IsSs(e) \/ IsWg(e)

LEMMA ParseIs ==
    ASSUME NEW l, l.scheme \in {"vless", "trojan", "anytls", "hysteria2", "hy2", "tuic", "vmess", "ss", "wireguard", "wg", "[Interface]"},
           AddressFits(l), l.scheme = "ss" => PluginFits(l)
    PROVE  Known(Parse(l))
<1>1. CASE l.scheme = "vless"
  <2>1. Parse(l) = parseVLESS(l)  BY <1>1 DEF Parse
  <2>. QED  BY <2>1, VlessLinkIs DEF Known
<1>2. CASE l.scheme = "trojan"
  <2>1. Parse(l) = parseTrojan(l)  BY <1>2 DEF Parse
  <2>. QED  BY <2>1, TrojanLinkIs DEF Known
<1>3. CASE l.scheme = "anytls"
  <2>1. Parse(l) = parseAnyTLS(l)  BY <1>3 DEF Parse
  <2>. QED  BY <2>1, AnyTLSLinkIs DEF Known
<1>4. CASE l.scheme \in {"hysteria2", "hy2"}
  <2>1. Parse(l) = parseHysteria2(l)  BY <1>4 DEF Parse
  <2>. QED  BY <2>1, Hy2LinkIs DEF Known
<1>5. CASE l.scheme = "tuic"
  <2>1. Parse(l) = parseTUIC(l)  BY <1>5 DEF Parse
  <2>. QED  BY <2>1, TuicLinkIs DEF Known
<1>6. CASE l.scheme = "vmess"
  <2>1. Parse(l) = parseVMess(l)  BY <1>6 DEF Parse
  <2>. QED  BY <2>1, VMessLinkIs DEF Known
<1>7. CASE l.scheme = "ss"
  <2>1. Parse(l) = parseShadowsocks(l)  BY <1>7 DEF Parse
  <2>. QED  BY <1>7, <2>1, SsLinkIs DEF Known
<1>8. CASE l.scheme \in {"wireguard", "wg"}
  <2>1. Parse(l) = parseWireGuardURL(l)  BY <1>8 DEF Parse
  <2>. QED  BY <2>1, WgUrlIs DEF Known
<1>9. CASE l.scheme = "[Interface]"
  <2>1. Parse(l) = parseConf(l)  BY <1>9 DEF Parse
  <2>. QED  BY <2>1, ConfIs DEF Known
<1>. QED
  BY <1>1, <1>2, <1>3, <1>4, <1>5, <1>6, <1>7, <1>8, <1>9

LEMMA ProxyIs ==
    ASSUME NEW l, AddressFits(l),
           Get(l.q, "type") \in {"ss", "shadowsocks", "vmess", "trojan", "anytls", "vless", "hysteria2", "hy2", "tuic", "wireguard", "wg"}
    PROVE  Known(proxyToEndpoint(l.q))
<1>. DEFINE p == l.q
            t == Get(p, "type")
<1>1. CASE t \in {"ss", "shadowsocks"}
  <2>1. proxyToEndpoint(p) = clashShadowsocks(p)  BY <1>1 DEF proxyToEndpoint
  <2>. QED  BY <2>1, SsProxyIs DEF Known
<1>2. CASE t = "vmess"
  <2>1. proxyToEndpoint(p) = clashVMess(p)  BY <1>2 DEF proxyToEndpoint
  <2>. QED  BY <2>1, VMessProxyIs DEF Known
<1>3. CASE t = "trojan"
  <2>1. proxyToEndpoint(p) = clashTrojan(p)  BY <1>3 DEF proxyToEndpoint
  <2>. QED  BY <2>1, TrojanProxyIs DEF Known
<1>4. CASE t = "anytls"
  <2>1. proxyToEndpoint(p) = clashAnyTLS(p)  BY <1>4 DEF proxyToEndpoint
  <2>. QED  BY <2>1, AnyTLSProxyIs DEF Known
<1>5. CASE t = "vless"
  <2>1. proxyToEndpoint(p) = clashVLESS(p)  BY <1>5 DEF proxyToEndpoint
  <2>. QED  BY <2>1, VlessProxyIs DEF Known
<1>6. CASE t \in {"hysteria2", "hy2"}
  <2>1. proxyToEndpoint(p) = clashHysteria2(p)  BY <1>6 DEF proxyToEndpoint
  <2>. QED  BY <2>1, Hy2ProxyIs DEF Known
<1>7. CASE t = "tuic"
  <2>1. proxyToEndpoint(p) = clashTUIC(p)  BY <1>7 DEF proxyToEndpoint
  <2>. QED  BY <2>1, TuicProxyIs DEF Known
<1>8. CASE t \in {"wireguard", "wg"}
  <2>1. proxyToEndpoint(p) = clashWireGuard(p)  BY <1>8 DEF proxyToEndpoint
  <2>. QED  BY <2>1, WgProxyIs DEF Known
<1>. QED
  BY <1>1, <1>2, <1>3, <1>4, <1>5, <1>6, <1>7, <1>8

LEMMA ImportIs == ASSUME NEW l \in Texts PROVE Known(Import(l))
<1>1. AddressFits(l) /\ (l.scheme = "ss" => PluginFits(l))
  BY ShareAssumption DEF AddressFits, PluginFits
<1>2. CASE l.scheme = "clash"
  BY <1>1, <1>2, ShareAssumption, ProxyIs DEF Import
<1>3. CASE l.scheme # "clash"
  <2>1. l.scheme \in {"vless", "trojan", "anytls", "hysteria2", "hy2", "tuic", "vmess", "ss", "wireguard", "wg", "[Interface]"}
    BY <1>3, ShareAssumption
  <2>2. Import(l) = Parse(l)
    BY <1>3 DEF Import
  <2>. QED
    BY <1>1, <2>1, <2>2, ParseIs
<1>. QED
  BY <1>2, <1>3

-----------------------------------------------------------------------------
(* A set of pairs says of some keys what a part of it says. *)
Carries(Q, B, keys) == B \subseteq Q /\ \A p \in Q : p[1] \in keys => p \in B

LEMMA Carried ==
    ASSUME NEW Q, NEW B, NEW keys, Carries(Q, B, keys), NEW k \in keys, NEW v, Gives(B, k, v)
    PROVE  Get(Pairs(Q), k) = v
<1>1. Gives(Q, k, v)
  BY DEF Carries, Gives
<1>. QED
  BY <1>1, GetIs

(* A text read key by key. *)
Reads(q, B, keys) == \A k \in keys : \A v : Gives(B, k, v) => Get(q, k) = v

LEMMA CarriedAll == ASSUME NEW Q, NEW B, NEW keys, Carries(Q, B, keys) PROVE Reads(Pairs(Q), B, keys)
  BY Carried DEF Reads

(* An endpoint comes back from its text. *)
Kept(e, text) == Dialled(Import(text)) = [Dialled(e) EXCEPT !.par = [k \in DOMAIN @ \ Lost(text) |-> @[k]]]

(* The pairs S say what the map f says, but for the keys of X. *)
Back(f, S, X, K) ==
    /\ DOMAIN f \subseteq K
    /\ \A p \in S : (p[1] \notin X => p[2] = Get(f, p[1])) /\ (p[1] \in X => p[2] = "" \/ p[1] = "peers")
    /\ \A k \in K \ X : <<k, Get(f, k)>> \in S

Ep(proto, par, tr, tls) == [proto |-> proto, par |-> par, transport |-> tr, tls |-> tls]

LEMMA DialledIs ==
    ASSUME NEW proto, NEW par, NEW tr, NEW tls
    PROVE  Dialled(Ep(proto, par, tr, tls)) = Ep(proto, Without(par, {"peers"}), DialledBy(tr), tls)
<1>. DEFINE e == Ep(proto, par, tr, tls)
            h == Without(par, {"peers"})
            d == DialledBy(tr)
<1>1. e.par = par /\ e.transport = tr
  BY DEF Ep
<1>2. Dialled(e) = [e EXCEPT !.par = Without(e.par, {"peers"}), !.transport = DialledBy(e.transport)]
  <2>. HIDE DEF e
  <2>. QED
    BY Zenon DEF Dialled, DialledBy, Without
<1>3. Dialled(e) = [e EXCEPT !.par = h, !.transport = d]
  <2>. HIDE DEF e
  <2>. QED
    BY <1>1, <1>2
<1>. HIDE DEF h, d
<1>4. [e EXCEPT !.par = h, !.transport = d] = Ep(proto, h, d, tls)
  <2>. DEFINE u == [e EXCEPT !.par = h, !.transport = d]
              w == Ep(proto, h, d, tls)
  <2>1. DOMAIN u = {"proto", "par", "transport", "tls"} /\ DOMAIN w = {"proto", "par", "transport", "tls"}
    BY DEF Ep
  <2>2. u = [x \in DOMAIN u |-> u[x]] /\ w = [x \in DOMAIN w |-> w[x]]
    BY DEF Ep
  <2>3. u.proto = w.proto /\ u.par = w.par /\ u.transport = w.transport /\ u.tls = w.tls
    BY DEF Ep
  <2>. HIDE DEF u, w
  <2>4. u = w
    BY <2>1, <2>2, <2>3
  <2>. QED
    BY <2>4 DEF u, w
<1>. QED
  BY <1>3, <1>4 DEF h, d

(* But for the keys that a format loses. *)
Losing(e, L) == [e EXCEPT !.par = Without(@, L)]

LEMMA LosingIs ==
    ASSUME NEW proto, NEW par, NEW tr, NEW tls, NEW L
    PROVE  Losing(Ep(proto, par, tr, tls), L) = Ep(proto, Without(par, L), tr, tls)
<1>. DEFINE h == Without(par, L)
            u == [Ep(proto, par, tr, tls) EXCEPT !.par = h]
            w == Ep(proto, h, tr, tls)
<1>1. Losing(Ep(proto, par, tr, tls), L) = u
  BY DEF Losing, Ep
<1>. HIDE DEF h
<1>2. DOMAIN u = {"proto", "par", "transport", "tls"} /\ DOMAIN w = {"proto", "par", "transport", "tls"}
  BY DEF Ep
<1>3. u = [x \in DOMAIN u |-> u[x]] /\ w = [x \in DOMAIN w |-> w[x]]
  BY DEF Ep
<1>4. u.proto = w.proto /\ u.par = w.par /\ u.transport = w.transport /\ u.tls = w.tls
  BY DEF Ep
<1>. HIDE DEF u, w
<1>5. u = w
  BY <1>2, <1>3, <1>4
<1>. QED
  BY <1>1, <1>5 DEF w, h

LEMMA WithoutTwice == ASSUME NEW f, NEW X, NEW Y PROVE Without(Without(f, X), Y) = Without(f, X \cup Y)
<1>. DEFINE h == Without(f, X)
<1>1. DOMAIN h = DOMAIN f \ X /\ \A k \in DOMAIN h : h[k] = f[k]
  BY DEF Without
<1>. HIDE DEF h
<1>2. DOMAIN h \ Y = DOMAIN f \ (X \cup Y)
  BY <1>1
<1>3. [k \in DOMAIN h \ Y |-> h[k]] = [k \in DOMAIN f \ (X \cup Y) |-> f[k]]
  BY <1>1, <1>2
<1>. QED
  BY <1>3 DEF Without, h

(* An endpoint whose transport dials the same, whose TLS is the same and    *)
(* whose parameters are read back.                                          *)
LEMMA ComesBack ==
    ASSUME NEW e, NEW proto, NEW K, Of(e, proto, K), NEW text, NEW S, NEW tr, NEW K2,
           Built(Import(text), proto, S, tr, e.tls, K2), DialledBy(tr) = DialledBy(e.transport),
           Back(e.par, S, {"peers"} \cup Lost(text), K)
    PROVE  Kept(e, text)
<1>. DEFINE a == Import(text)
            X == {"peers"} \cup Lost(text)
            f == e.par
            L == Lost(text)
            d == DialledBy(tr)
            t == e.tls
<1>1. Without(Pairs(S), {"peers"}) = Without(f, X)
  <2>1. Clean(f)
    BY DEF Of
  <2>2. \A p \in S : p[1] \notin X => p[2] = Get(f, p[1])
    BY DEF Back
  <2>3. \A p \in S : p[1] \in X => p[2] = "" \/ p[1] = "peers"
    BY DEF Back
  <2>4. \A k \in DOMAIN f \ X : <<k, f[k]>> \in S
    BY DEF Back, Get
  <2>5. "peers" \in X
    OBVIOUS
  <2>. HIDE DEF X, f
  <2>. QED
    BY <2>1, <2>2, <2>3, <2>4, <2>5, WrittenBack
<1>2. a = Ep(proto, Pairs(S), tr, t)
  BY DEF Built, Of, Ep
<1>3. e = Ep(proto, f, e.transport, t)
  BY DEF Of, Ep
<1>. HIDE DEF f, t, a
<1>4. Dialled(e) = Ep(proto, Without(f, {"peers"}), d, t)
  <2>1. Dialled(Ep(proto, f, e.transport, t)) = Ep(proto, Without(f, {"peers"}), DialledBy(e.transport), t)
    BY DialledIs
  <2>. QED
    BY <1>3, <2>1
<1>5. Dialled(a) = Ep(proto, Without(Pairs(S), {"peers"}), d, t)
  <2>1. Dialled(Ep(proto, Pairs(S), tr, t)) = Ep(proto, Without(Pairs(S), {"peers"}), DialledBy(tr), t)
    BY DialledIs
  <2>. QED
    BY <1>2, <2>1
<1>. HIDE DEF X, d, L
<1>6. Losing(Dialled(e), L) = Ep(proto, Without(Without(f, {"peers"}), L), d, t)
  BY <1>4, LosingIs
<1>7. Without(Without(f, {"peers"}), L) = Without(f, X)
  BY WithoutTwice DEF X, L
<1>8. Dialled(a) = Losing(Dialled(e), L)
  BY <1>1, <1>5, <1>6, <1>7
<1>. QED
  BY <1>8, Zenon DEF Kept, Losing, Without, a, L

LEMMA OrIs == Or("", "") = "" /\ \A a, b : (Or(a, "") = a) /\ (Or("", b) = b) /\ (a # "" => Or(a, b) = a)
  BY DEF Or

LEMMA GrpcDialled == ASSUME NEW p, NEW h, NEW s PROVE DialledBy(TrOf("grpc", p, h, s)) = TrOf("grpc", "", "", s)
  BY DEF DialledBy, TrOf

TransportKeys == {"type", "serviceName", "service_name", "servicename", "path", "host"}
TlsKeys == {"sni", "fp", "alpn", "security", "pbk", "sid", "allowInsecure", "insecure", "allow_insecure"}

(* A transport comes back from the query of a link. *)
LEMMA TransportBack ==
    ASSUME NEW t, IsTransport(t), NEW Q, Carries(Q, setTransportQuery(t), TransportKeys)
    PROVE  DialledBy(transportFromQuery(Pairs(Q))) = DialledBy(t)
<1>. DEFINE q == Pairs(Q)
            B == setTransportQuery(t)
<1>0. \A k \in TransportKeys : \A v : Gives(B, k, v) => Get(q, k) = v
  BY Carried
<1>1. CASE t = TrOf("", "", "", "")
  <2>1. B = {<<"type", "">>}
    BY <1>1 DEF setTransportQuery, TrOf
  <2>. HIDE DEF q, B
  <2>2. Gives(B, "type", "")
    <3>1. <<"type", "">>[2] = ""
      OBVIOUS
    <3>2. \A p \in B : p = <<"type", "">>
      BY <2>1
    <3>. QED
      BY <3>1, <3>2, Zenon DEF Gives
  <2>3. Get(q, "type") = ""
    BY <1>0, <2>2 DEF TransportKeys
  <2>. QED
    BY <1>1, <2>3, TransportOfLink DEF q
<1>2. ASSUME NEW ty \in {"ws", "http", "httpupgrade"}, NEW p, NEW h, t = TrOf(ty, p, h, "")
      PROVE  transportFromQuery(q) = t
  <2>1. B = {<<"type", ty>>, <<"path", p>>, <<"host", h>>}
    BY <1>2 DEF setTransportQuery, TrOf
  <2>. HIDE DEF q, B
  <2>2. Gives(B, "type", ty) /\ Gives(B, "path", p) /\ Gives(B, "host", h)
    BY <2>1 DEF Gives
  <2>3. Get(q, "type") = ty /\ Get(q, "path") = p /\ Get(q, "host") = h
    BY <1>0, <2>2 DEF TransportKeys
  <2>. QED
    BY <1>2, <2>3, TransportOfLink DEF q
<1>3. ASSUME NEW p, NEW h, NEW s, t = TrOf("grpc", p, h, s)
      PROVE  DialledBy(transportFromQuery(q)) = DialledBy(t)
  <2>1. B = {<<"type", "grpc">>, <<"serviceName", s>>}
    BY <1>3 DEF setTransportQuery, TrOf
  <2>. HIDE DEF q, B
  <2>2. Gives(B, "type", "grpc") /\ Gives(B, "serviceName", s) /\ Gives(B, "service_name", "") /\ Gives(B, "servicename", "")
    BY <2>1 DEF Gives
  <2>3. Get(q, "type") = "grpc" /\ Get(q, "serviceName") = s /\ Get(q, "service_name") = "" /\ Get(q, "servicename") = ""
    BY <1>0, <2>2 DEF TransportKeys
  <2>4. transportFromQuery(q) = TrOf("grpc", "", "", s)
    <3>1. Or(s, Or("", "")) = s
      BY OrIs
    <3>2. transportFromQuery(q) = TrOf("grpc", "", "", Or(Get(q, "serviceName"), Or(Get(q, "service_name"), Get(q, "servicename"))))
      BY <2>3, TransportOfLink
    <3>. QED
      BY <2>3, <3>1, <3>2
  <2>. QED
    BY <1>3, <2>4, GrpcDialled
<1>. HIDE DEF q, B
<1>4. DialledBy(transportFromQuery(q)) = DialledBy(t)
  <2>1. PICK p, h, s : \/ t = TrOf("", "", "", "")
                       \/ t = TrOf("ws", p, h, "") \/ t = TrOf("http", p, h, "") \/ t = TrOf("httpupgrade", p, h, "")
                       \/ t = TrOf("grpc", p, h, s)
    BY DEF IsTransport
  <2>. QED
    BY <1>1, <1>2, <1>3, <2>1 DEF q
<1>. QED
  BY <1>4 DEF q

LEMMA BitIs == \A b \in BOOLEAN : truthy(Bit(b)) = b
<1>1. truthy(Bit(TRUE)) = TRUE /\ truthy(Bit(FALSE)) = FALSE /\ truthy("") = FALSE
  BY DEF truthy, Bit
<1>. QED
  BY <1>1

(* And the TLS block. *)
LEMMA TlsBack ==
    ASSUME NEW t, IsTls(t), NEW d \in BOOLEAN, t = PlainText => d = FALSE,
           NEW Q, Carries(Q, setTLSQuery(t), TlsKeys)
    PROVE  tlsFromQuery(Pairs(Q), d) = t
<1>. DEFINE q == Pairs(Q)
            B == setTLSQuery(t)
<1>0. \A k \in TlsKeys : \A v : Gives(B, k, v) => Get(q, k) = v
  BY Carried
<1>1. CASE t = PlainText
  <2>1. B = {}
    BY <1>1 DEF setTLSQuery, PlainText
  <2>. HIDE DEF q, B
  <2>2. Gives(B, "security", "")
    BY <2>1 DEF Gives
  <2>3. Get(q, "security") = ""
    BY <1>0, <2>2 DEF TlsKeys
  <2>. QED
    BY <1>1, <2>3, TlsOfLink DEF q
<1>2. ASSUME NEW s, NEW f, NEW a, NEW b \in BOOLEAN, s # "", t = TlsOf(s, f, a, b)
      PROVE  tlsFromQuery(q, d) = t
  <2>. DEFINE x == Bit(b)
  <2>1. t.on = TRUE /\ t.type = "tls" /\ t.sni = s /\ t.finger = f /\ t.alpn = a /\ t.insecure = b
    BY <1>2 DEF TlsOf
  <2>2. B = {<<"sni", s>>, <<"fp", f>>, <<"alpn", a>>, <<"security", "tls">>, <<"allowInsecure", x>>}
    BY <2>1 DEF setTLSQuery
  <2>. HIDE DEF q, B, x
  <2>3. Gives(B, "sni", s) /\ Gives(B, "fp", f) /\ Gives(B, "alpn", a) /\ Gives(B, "security", "tls")
    BY <2>2 DEF Gives
  <2>4. Gives(B, "allowInsecure", x) /\ Gives(B, "insecure", "") /\ Gives(B, "allow_insecure", "")
    BY <2>2 DEF Gives
  <2>5. Get(q, "sni") = s /\ Get(q, "fp") = f /\ Get(q, "alpn") = a /\ Get(q, "security") = "tls"
    BY <1>0, <2>3 DEF TlsKeys
  <2>6. Get(q, "allowInsecure") = x /\ Get(q, "insecure") = "" /\ Get(q, "allow_insecure") = ""
    BY <1>0, <2>4 DEF TlsKeys
  <2>7. insecureFromQuery(q) = b
    <3>1. insecureFromQuery(q) = (truthy(x) \/ truthy(""))
      BY <2>6 DEF insecureFromQuery
    <3>2. truthy(x) = b /\ ~truthy("")
      BY BitIs DEF x, truthy
    <3>. QED
      BY <3>1, <3>2
  <2>8. tlsFromQuery(q, d) = TlsOf(Or(s, Or(Get(q, "host"), "server")), f, a, insecureFromQuery(q))
    BY <2>5, TlsOfLink
  <2>9. Or(s, Or(Get(q, "host"), "server")) = s
    BY <1>2, OrIs
  <2>. QED
    BY <1>2, <2>7, <2>8, <2>9
<1>3. ASSUME NEW s, NEW f, NEW k, NEW i, NEW a, t = RealityOf(s, f, k, i, a)
      PROVE  tlsFromQuery(q, d) = t
  <2>1. t.on = TRUE /\ t.type = "reality" /\ t.sni = s /\ t.finger = f /\ t.alpn = a /\ t.key = k /\ t.sid = i
    BY <1>3 DEF RealityOf
  <2>2. B = {<<"sni", s>>, <<"fp", f>>, <<"alpn", a>>, <<"security", "reality">>, <<"pbk", k>>, <<"sid", i>>}
    BY <2>1 DEF setTLSQuery
  <2>. HIDE DEF q, B
  <2>3. Gives(B, "sni", s) /\ Gives(B, "fp", f) /\ Gives(B, "alpn", a)
    BY <2>2 DEF Gives
  <2>4. Gives(B, "security", "reality") /\ Gives(B, "pbk", k) /\ Gives(B, "sid", i)
    BY <2>2 DEF Gives
  <2>5. Get(q, "sni") = s /\ Get(q, "fp") = f /\ Get(q, "alpn") = a
    BY <1>0, <2>3 DEF TlsKeys
  <2>6. Get(q, "security") = "reality" /\ Get(q, "pbk") = k /\ Get(q, "sid") = i
    BY <1>0, <2>4 DEF TlsKeys
  <2>. QED
    BY <1>3, <2>5, <2>6, TlsOfLink
<1>. HIDE DEF q, B
<1>4. tlsFromQuery(q, d) = t
  BY <1>1, <1>2, <1>3 DEF IsTls, q
<1>. QED
  BY <1>4 DEF q

-----------------------------------------------------------------------------
(* The keys of a query. *)
LEMMA TransportQueryKeys ==
    ASSUME NEW t
    PROVE  \A p \in setTransportQuery(t) : p[1] \in {"type", "serviceName", "path", "host"}
<1>. DEFINE B == setTransportQuery(t)
<1>1. B = {<<"type", t.type>>, <<"serviceName", t.svc>>} \/ B = {<<"type", t.type>>}
      \/ B = {<<"type", t.type>>, <<"path", t.path>>, <<"host", t.host>>}
  BY DEF setTransportQuery
<1>. HIDE DEF B
<1>2. CASE B = {<<"type", t.type>>, <<"serviceName", t.svc>>}
  BY <1>2 DEF B
<1>3. CASE B = {<<"type", t.type>>}
  BY <1>3 DEF B
<1>4. CASE B = {<<"type", t.type>>, <<"path", t.path>>, <<"host", t.host>>}
  BY <1>4 DEF B
<1>. QED
  BY <1>1, <1>2, <1>3, <1>4

LEMMA TlsQueryKeys ==
    ASSUME NEW t
    PROVE  \A p \in setTLSQuery(t) : p[1] \in {"sni", "fp", "alpn", "security", "pbk", "sid", "allowInsecure"}
<1>. DEFINE D == {<<"sni", t.sni>>, <<"fp", t.finger>>, <<"alpn", t.alpn>>}
            R == {<<"security", "reality">>, <<"pbk", t.key>>, <<"sid", t.sid>>}
            T == {<<"security", "tls">>, <<"allowInsecure", Bit(t.insecure)>>}
<1>1. setTLSQuery(t) = {} \/ setTLSQuery(t) = D \cup R \/ setTLSQuery(t) = D \cup T
  BY DEF setTLSQuery
<1>2. \A p \in D : p[1] \in {"sni", "fp", "alpn"}
  OBVIOUS
<1>3. \A p \in R : p[1] \in {"security", "pbk", "sid"}
  OBVIOUS
<1>4. \A p \in T : p[1] \in {"security", "allowInsecure"}
  OBVIOUS
<1>. HIDE DEF D, R, T
<1>. QED
  BY <1>1, <1>2, <1>3, <1>4

LEMMA ComesBackAs ==
    ASSUME NEW e, NEW proto, NEW K, Of(e, proto, K), NEW text, NEW S, NEW tr,
           Import(text) = Endpoint(proto, S, tr, e.tls), IsTransport(tr), DialledBy(tr) = DialledBy(e.transport),
           \A p \in S : p[1] \in K, Back(e.par, S, {"peers"} \cup Lost(text), K)
    PROVE  Kept(e, text)
<1>1. Built(Import(text), proto, S, tr, e.tls, K)
  <2>1. IsTls(e.tls)
    BY DEF Of
  <2>. QED
    BY <2>1, EndpointOf
<1>. QED
  BY <1>1, ComesBack

LEMMA TextIs ==
    ASSUME NEW x, NEW scheme, NEW user, NEW pass, NEW Q, x = buildURI(scheme, user, pass, Q)
    PROVE  x.scheme = scheme /\ x.user = user /\ x.pass = pass /\ x.q = Pairs(Q)
  BY DEF buildURI

LEMMA LinkImport ==
    ASSUME NEW x, x.scheme # "clash"
    PROVE  Import(x) = Parse(x) /\ Lost(x) = {"up_mbps", "down_mbps"}
  BY DEF Import, Lost

(* The links. *)
LEMMA VlessLinkBack == ASSUME NEW e, IsVless(e) PROVE Kept(e, vlessLink(e))
<1>. DEFINE f == e.par
            uu == Get(f, "uuid")
            fl == Get(f, "flow")
            pe == Get(f, "packet_encoding")
            A == {<<"flow", fl>>, <<"packetEncoding", pe>>}
            B == setTransportQuery(e.transport)
            C == setTLSQuery(e.tls)
            Q == A \cup B \cup C
            q == Pairs(Q)
            x == vlessLink(e)
            S == {<<"uuid", uu>>, <<"flow", fl>>, <<"packet_encoding", pe>>}
<1>0. x = buildURI("vless", uu, "", Q)
  BY Zenon DEF vlessLink
<1>2. Of(e, "vless", VlessKeys)
  BY DEF IsVless
<1>3. IsTransport(e.transport) /\ IsTls(e.tls) /\ DOMAIN f \subseteq VlessKeys
  BY <1>2 DEF Of
<1>4. \A p \in B : p[1] \in {"type", "serviceName", "path", "host"}
  BY TransportQueryKeys
<1>5. \A p \in C : p[1] \in {"sni", "fp", "alpn", "security", "pbk", "sid", "allowInsecure"}
  BY TlsQueryKeys
<1>6. uu = Get(f, "uuid") /\ fl = Get(f, "flow") /\ pe = Get(f, "packet_encoding")
  OBVIOUS
<1>. HIDE DEF f, uu, fl, pe, B, C, x
<1>7. (\A p \in A : p[1] \in {"flow", "packetEncoding"}) /\ Gives(A, "flow", fl) /\ Gives(A, "packetEncoding", pe) /\ Gives(A, "packet_encoding", "")
  BY DEF Gives
<1>8. (\A p \in S : p[1] \in VlessKeys) /\ Back(f, S, {"peers", "up_mbps", "down_mbps"}, VlessKeys)
  BY <1>3, <1>6 DEF VlessKeys, Back
<1>. HIDE DEF A
<1>9. Carries(Q, B, TransportKeys) /\ Carries(Q, C, TlsKeys) /\ Carries(Q, A, {"flow", "packetEncoding", "packet_encoding"})
  BY <1>4, <1>5, <1>7 DEF Carries, TransportKeys, TlsKeys
<1>. HIDE DEF Q
<1>1. x.scheme = "vless" /\ x.user = uu /\ x.q = q
  BY <1>0 DEF buildURI
<1>10. Get(q, "flow") = fl /\ Get(q, "packetEncoding") = pe /\ Get(q, "packet_encoding") = ""
  <2>1. \A k \in {"flow", "packetEncoding", "packet_encoding"} : \A v : Gives(A, k, v) => Get(q, k) = v
    BY <1>9, Carried
  <2>. HIDE DEF q
  <2>. QED
    BY <1>7, <2>1
<1>. HIDE DEF q
<1>11. Spelled(q, <<"packetEncoding", "packet_encoding">>) = pe
  <2>1. Spelled(q, <<"packetEncoding", "packet_encoding">>) = Or(Get(q, "packetEncoding"), Get(q, "packet_encoding"))
    BY Spelled2
  <2>. QED
    BY <1>10, <2>1, OrIs
<1>12. tlsFromQuery(q, FALSE) = e.tls /\ DialledBy(transportFromQuery(q)) = DialledBy(e.transport)
  BY <1>3, <1>9, TransportBack, TlsBack DEF q, B, C
<1>13. Import(x) = parseVLESS(x) /\ Lost(x) = {"up_mbps", "down_mbps"}
  BY <1>1, LinkImport DEF Parse
<1>14. parseVLESS(x) = Endpoint("vless", S, transportFromQuery(q), e.tls)
  BY <1>1, <1>10, <1>11, <1>12 DEF parseVLESS
<1>15. {"peers"} \cup Lost(x) = {"peers", "up_mbps", "down_mbps"}
  BY <1>13
<1>. HIDE DEF S
<1>16. Back(e.par, S, {"peers"} \cup Lost(x), VlessKeys)
  BY <1>8, <1>15 DEF f
<1>17. Import(x) = Endpoint("vless", S, transportFromQuery(q), e.tls) /\ IsTransport(transportFromQuery(q))
  BY <1>13, <1>14, LinkTransport
<1>18. Kept(e, x)
  BY <1>2, <1>8, <1>12, <1>16, <1>17, ComesBackAs
<1>. QED
  BY <1>18 DEF x

LEMMA TrojanLinkBack == ASSUME NEW e, IsTrojan(e), e.tls # PlainText PROVE Kept(e, trojanLink(e))
<1>. DEFINE f == e.par
            pw == Get(f, "password")
            B == setTransportQuery(e.transport)
            C == setTLSQuery(e.tls)
            Q == B \cup C
            q == Pairs(Q)
            x == trojanLink(e)
            S == {<<"password", pw>>}
<1>0. x = buildURI("trojan", pw, "", Q)
  BY Zenon DEF trojanLink
<1>2. Of(e, "trojan", {"password"})
  BY DEF IsTrojan
<1>3. IsTransport(e.transport) /\ IsTls(e.tls) /\ DOMAIN f \subseteq {"password"}
  BY <1>2 DEF Of
<1>4. \A p \in B : p[1] \in {"type", "serviceName", "path", "host"}
  BY TransportQueryKeys
<1>5. \A p \in C : p[1] \in {"sni", "fp", "alpn", "security", "pbk", "sid", "allowInsecure"}
  BY TlsQueryKeys
<1>6. pw = Get(f, "password")
  OBVIOUS
<1>. HIDE DEF f, pw, B, C, x
<1>8. (\A p \in S : p[1] \in {"password"}) /\ Back(f, S, {"peers", "up_mbps", "down_mbps"}, {"password"})
  BY <1>3, <1>6 DEF Back
<1>9. Carries(Q, B, TransportKeys) /\ Carries(Q, C, TlsKeys)
  BY <1>4, <1>5 DEF Carries, TransportKeys, TlsKeys
<1>. HIDE DEF Q
<1>1. x.scheme = "trojan" /\ x.user = pw /\ x.q = q
  BY <1>0 DEF buildURI
<1>. HIDE DEF q
<1>12. tlsFromQuery(q, TRUE) = e.tls /\ DialledBy(transportFromQuery(q)) = DialledBy(e.transport)
  BY <1>3, <1>9, TransportBack, TlsBack DEF q, B, C
<1>13. Import(x) = parseTrojan(x) /\ Lost(x) = {"up_mbps", "down_mbps"}
  BY <1>1, LinkImport DEF Parse
<1>14. parseTrojan(x) = Endpoint("trojan", S, transportFromQuery(q), e.tls)
  BY <1>1, <1>12 DEF parseTrojan
<1>15. {"peers"} \cup Lost(x) = {"peers", "up_mbps", "down_mbps"}
  BY <1>13
<1>. HIDE DEF S
<1>16. Back(e.par, S, {"peers"} \cup Lost(x), {"password"})
  BY <1>8, <1>15 DEF f
<1>17. Import(x) = Endpoint("trojan", S, transportFromQuery(q), e.tls) /\ IsTransport(transportFromQuery(q))
  BY <1>13, <1>14, LinkTransport
<1>18. Kept(e, x)
  BY <1>2, <1>8, <1>12, <1>16, <1>17, ComesBackAs
<1>. QED
  BY <1>18 DEF x

LEMMA AnyTLSLinkBack == ASSUME NEW e, IsAnyTLS(e), e.tls # PlainText PROVE Kept(e, anytlsLink(e))
<1>. DEFINE f == e.par
            pw == Get(f, "password")
            Q == setTLSQuery(e.tls)
            q == Pairs(Q)
            x == anytlsLink(e)
            S == {<<"password", pw>>}
<1>0. x = buildURI("anytls", pw, "", Q)
  BY Zenon DEF anytlsLink
<1>2. Of(e, "anytls", {"password"}) /\ e.transport = NoTransport
  BY DEF IsAnyTLS
<1>3. IsTls(e.tls) /\ DOMAIN f \subseteq {"password"}
  BY <1>2 DEF Of
<1>6. pw = Get(f, "password")
  OBVIOUS
<1>. HIDE DEF f, pw, x
<1>8. (\A p \in S : p[1] \in {"password"}) /\ Back(f, S, {"peers", "up_mbps", "down_mbps"}, {"password"})
  BY <1>3, <1>6 DEF Back
<1>9. Carries(Q, Q, TlsKeys)
  BY DEF Carries
<1>1. x.scheme = "anytls" /\ x.user = pw /\ x.q = q
  <2>. HIDE DEF Q
  <2>. QED
    BY <1>0 DEF buildURI
<1>12. tlsFromQuery(q, TRUE) = e.tls
  BY <1>3, <1>9, TlsBack
<1>. HIDE DEF q
<1>13. Import(x) = parseAnyTLS(x) /\ Lost(x) = {"up_mbps", "down_mbps"}
  BY <1>1, LinkImport DEF Parse
<1>14. parseAnyTLS(x) = Endpoint("anytls", S, NoTransport, e.tls)
  BY <1>1, <1>12 DEF parseAnyTLS
<1>15. {"peers"} \cup Lost(x) = {"peers", "up_mbps", "down_mbps"}
  BY <1>13
<1>. HIDE DEF S
<1>16. Back(e.par, S, {"peers"} \cup Lost(x), {"password"})
  BY <1>8, <1>15 DEF f
<1>18. Kept(e, x)
  BY <1>2, <1>8, <1>13, <1>14, <1>16, ComesBackAs, NoneIsTransport
<1>. QED
  BY <1>18 DEF x

(* The TLS of a QUIC protocol, under each of the keys for "insecure". *)
LEMMA QuicBack ==
    ASSUME NEW t, IsQuic(t), NEW q, Get(q, "sni") = t.sni, Get(q, "alpn") = t.alpn,
           NEW k \in {"allowInsecure", "insecure", "allow_insecure"}, Get(q, k) = Bit(t.insecure),
           \A j \in {"allowInsecure", "insecure", "allow_insecure"} : j # k => Get(q, j) = ""
    PROVE  QuicTls(q) = t
<1>1. PICK s, a : s # "" /\ (t = TlsOf(s, "", a, TRUE) \/ t = TlsOf(s, "", a, FALSE))
  BY DEF IsQuic
<1>2. ASSUME NEW b \in BOOLEAN, t = TlsOf(s, "", a, b) PROVE QuicTls(q) = t
  <2>1. t.sni = s /\ t.alpn = a /\ t.insecure = b
    BY <1>2 DEF TlsOf
  <2>2. insecureFromQuery(q) = b
    <3>1. truthy(Bit(b)) = b /\ ~truthy("")
      BY BitIs DEF truthy
    <3>2. \A j \in {"allowInsecure", "insecure", "allow_insecure"} : truthy(Get(q, j)) <=> (j = k /\ b)
      BY <2>1, <3>1
    <3>. QED
      BY <3>2 DEF insecureFromQuery
  <2>3. Or(s, "server") = s
    BY <1>1, OrIs
  <2>4. QuicTls(q) = TlsOf(Or(s, "server"), "", a, insecureFromQuery(q))
    BY <2>1, LinkQuic
  <2>. QED
    BY <1>2, <2>2, <2>3, <2>4
<1>. QED
  BY <1>1, <1>2

LEMMA Hy2LinkBack == ASSUME NEW e, IsHy2(e) PROVE Kept(e, hysteria2Link(e))
<1>. DEFINE f == e.par
            pw == Get(f, "password")
            ob == Get(f, "obfs")
            ow == Get(f, "obfs_password")
            o2 == IF ob = "" THEN "" ELSE ow
            hp == Get(f, "hop_ports")
            sn == e.tls.sni
            al == e.tls.alpn
            bi == Bit(e.tls.insecure)
            Q == {<<"sni", sn>>, <<"insecure", bi>>, <<"alpn", al>>, <<"obfs", ob>>, <<"obfs-password", o2>>, <<"mport", hp>>}
            q == Pairs(Q)
            x == hysteria2Link(e)
            S == {<<"password", pw>>, <<"obfs", ob>>, <<"obfs_password", ow>>, <<"hop_ports", hp>>}
            X == {"peers", "up_mbps", "down_mbps"}
<1>0. x = buildURI("hysteria2", pw, "", Q)
  BY Zenon DEF hysteria2Link
<1>2. Of(e, "hysteria2", Hy2Keys) /\ e.transport = NoTransport /\ IsQuic(e.tls) /\ (ob = "" => ow = "")
  BY DEF IsHy2
<1>3. DOMAIN f \subseteq Hy2Keys
  BY <1>2 DEF Of
<1>4. o2 = ow
  BY <1>2
<1>6. pw = Get(f, "password") /\ ob = Get(f, "obfs") /\ ow = Get(f, "obfs_password") /\ hp = Get(f, "hop_ports")
  OBVIOUS
<1>7. sn = e.tls.sni /\ al = e.tls.alpn /\ bi = Bit(e.tls.insecure)
  OBVIOUS
<1>. HIDE DEF f, pw, ob, ow, o2, hp, sn, al, bi, x
<1>8. (\A p \in S : p[1] \in Hy2Keys) /\ Back(f, S, X, Hy2Keys)
  BY <1>3, <1>6 DEF Hy2Keys, Back
<1>9. Gives(Q, "sni", sn) /\ Gives(Q, "alpn", al) /\ Gives(Q, "insecure", bi) /\ Gives(Q, "allowInsecure", "") /\ Gives(Q, "allow_insecure", "")
  BY DEF Gives
<1>10. Gives(Q, "obfs", ob) /\ Gives(Q, "obfs-password", o2) /\ Gives(Q, "mport", hp) /\ Gives(Q, "ports", "")
  BY DEF Gives
<1>. HIDE DEF Q
<1>1. x.scheme = "hysteria2" /\ x.user = pw /\ x.pass = "" /\ x.q = q
  BY <1>0 DEF buildURI
<1>11. Get(q, "sni") = sn /\ Get(q, "alpn") = al /\ Get(q, "insecure") = bi /\ Get(q, "allowInsecure") = "" /\ Get(q, "allow_insecure") = ""
  BY <1>9, GetIs
<1>12. Get(q, "obfs") = ob /\ Get(q, "obfs-password") = ow /\ Get(q, "mport") = hp /\ Get(q, "ports") = ""
  BY <1>4, <1>10, GetIs
<1>. HIDE DEF q
<1>13. QuicTls(q) = e.tls
  <2>1. \A j \in {"allowInsecure", "insecure", "allow_insecure"} : j # "insecure" => Get(q, j) = ""
    BY <1>11
  <2>2. Get(q, "sni") = e.tls.sni /\ Get(q, "alpn") = e.tls.alpn /\ Get(q, "insecure") = Bit(e.tls.insecure)
    BY <1>7, <1>11
  <2>3. "insecure" \in {"allowInsecure", "insecure", "allow_insecure"}
    OBVIOUS
  <2>. QED
    BY <1>2, <2>1, <2>2, <2>3, QuicBack
<1>14. Spelled(q, <<"mport", "ports">>) = hp
  <2>1. Spelled(q, <<"mport", "ports">>) = Or(Get(q, "mport"), Get(q, "ports"))
    BY Spelled2
  <2>. QED
    BY <1>12, <2>1, OrIs
<1>15. Import(x) = parseHysteria2(x) /\ Lost(x) = {"up_mbps", "down_mbps"}
  BY <1>1, LinkImport DEF Parse
<1>16. parseHysteria2(x) = Endpoint("hysteria2", S, NoTransport, e.tls)
  <2>1. (IF x.pass = "" THEN x.user ELSE "user:pass") = pw
    BY <1>1
  <2>2. (IF Get(q, "obfs") = "" THEN "" ELSE Get(q, "obfs-password")) = ow
    BY <1>2, <1>12 DEF ob, ow
  <2>. QED
    BY <1>1, <1>12, <1>13, <1>14, <2>1, <2>2 DEF parseHysteria2
<1>17. {"peers"} \cup Lost(x) = X
  BY <1>15
<1>. HIDE DEF S, X
<1>18. Back(e.par, S, {"peers"} \cup Lost(x), Hy2Keys)
  BY <1>8, <1>17 DEF f
<1>19. Kept(e, x)
  BY <1>2, <1>8, <1>15, <1>16, <1>18, ComesBackAs, NoneIsTransport
<1>. QED
  BY <1>19 DEF x

LEMMA TuicLinkBack == ASSUME NEW e, IsTuic(e) PROVE Kept(e, tuicLink(e))
<1>. DEFINE f == e.par
            uu == Get(f, "uuid")
            pw == Get(f, "password")
            sn == e.tls.sni
            al == e.tls.alpn
            bi == Bit(e.tls.insecure)
            M == {"congestion_control", "udp_relay_mode", "heartbeat", "zero_rtt_handshake", "udp_over_stream"}
            A == {<<"sni", sn>>, <<"allow_insecure", bi>>, <<"alpn", al>>}
            B == {<<k, Get(f, k)>> : k \in M}
            Q == A \cup B
            q == Pairs(Q)
            x == tuicLink(e)
            S1 == {<<"uuid", uu>>, <<"password", pw>>}
            S2 == {<<k, Get(q, k)>> : k \in {"congestion_control", "udp_relay_mode", "heartbeat"}}
            S3 == {<<k, Bit(truthy(Get(q, k)))>> : k \in {"zero_rtt_handshake", "udp_over_stream"}}
            S == S1 \cup S2 \cup S3
            X == {"peers", "up_mbps", "down_mbps"}
<1>0. x = buildURI("tuic", uu, pw, Q)
  BY Zenon DEF tuicLink
<1>2. Of(e, "tuic", TuicKeys) /\ e.transport = NoTransport /\ IsQuic(e.tls)
  BY DEF IsTuic
<1>3. \A k \in {"zero_rtt_handshake", "udp_over_stream"} : Get(f, k) \in {"", "1"}
  BY DEF IsTuic
<1>4. DOMAIN f \subseteq TuicKeys
  BY <1>2 DEF Of
<1>5. \A p \in B : p[1] \in M /\ p[2] = Get(f, p[1])
  OBVIOUS
<1>6. \A k \in M : <<k, Get(f, k)>> \in B
  OBVIOUS
<1>7. uu = Get(f, "uuid") /\ pw = Get(f, "password") /\ sn = e.tls.sni /\ al = e.tls.alpn /\ bi = Bit(e.tls.insecure)
  OBVIOUS
<1>. HIDE DEF f, uu, pw, sn, al, bi, B, x
<1>8. Gives(A, "sni", sn) /\ Gives(A, "alpn", al) /\ Gives(A, "allow_insecure", bi) /\ Gives(A, "allowInsecure", "") /\ Gives(A, "insecure", "")
  BY DEF Gives
<1>9. \A p \in A : p[1] \in {"sni", "allow_insecure", "alpn"}
  OBVIOUS
<1>. HIDE DEF A
<1>10. Carries(Q, A, {"sni", "alpn", "allow_insecure", "allowInsecure", "insecure"}) /\ Carries(Q, B, M)
  BY <1>5, <1>9 DEF Carries
<1>. HIDE DEF Q
<1>1. x.scheme = "tuic" /\ x.user = uu /\ x.pass = pw /\ x.q = q
  BY <1>0 DEF buildURI
<1>11. \A k \in {"sni", "alpn", "allow_insecure", "allowInsecure", "insecure"} : \A v : Gives(A, k, v) => Get(q, k) = v
  BY <1>10, Carried
<1>12. \A k \in M : Get(q, k) = Get(f, k)
  <2>1. \A k \in M : Gives(B, k, Get(f, k))
    BY <1>5, <1>6 DEF Gives
  <2>. QED
    BY <1>10, <2>1, Carried
<1>. HIDE DEF q
<1>13. QuicTls(q) = e.tls
  <2>1. Get(q, "sni") = sn /\ Get(q, "alpn") = al /\ Get(q, "allow_insecure") = bi /\ Get(q, "allowInsecure") = "" /\ Get(q, "insecure") = ""
    BY <1>8, <1>11
  <2>2. \A j \in {"allowInsecure", "insecure", "allow_insecure"} : j # "allow_insecure" => Get(q, j) = ""
    BY <2>1
  <2>3. Get(q, "sni") = e.tls.sni /\ Get(q, "alpn") = e.tls.alpn /\ Get(q, "allow_insecure") = Bit(e.tls.insecure)
    BY <1>7, <2>1
  <2>4. "allow_insecure" \in {"allowInsecure", "insecure", "allow_insecure"}
    OBVIOUS
  <2>. QED
    BY <1>2, <2>2, <2>3, <2>4, QuicBack
<1>14. \A k \in {"zero_rtt_handshake", "udp_over_stream"} : Bit(truthy(Get(q, k))) = Get(f, k)
  <2>1. Bit(truthy("")) = "" /\ Bit(truthy("1")) = "1"
    BY DEF Bit, truthy
  <2>. QED
    BY <1>3, <1>12, <2>1
<1>15. \A p \in S : p[1] \in TuicKeys /\ p[2] = Get(f, p[1])
  <2>1. \A p \in S1 : p[1] \in TuicKeys /\ p[2] = Get(f, p[1])
    BY <1>7 DEF TuicKeys
  <2>2. \A p \in S2 : p[1] \in TuicKeys /\ p[2] = Get(f, p[1])
    BY <1>12 DEF TuicKeys
  <2>3. \A p \in S3 : p[1] \in TuicKeys /\ p[2] = Get(f, p[1])
    BY <1>14 DEF TuicKeys
  <2>. QED
    BY <2>1, <2>2, <2>3
<1>16. \A k \in TuicKeys : <<k, Get(f, k)>> \in S
  <2>1. <<"uuid", Get(f, "uuid")>> \in S1 /\ <<"password", Get(f, "password")>> \in S1
    BY <1>7
  <2>2. \A k \in {"congestion_control", "udp_relay_mode", "heartbeat"} : <<k, Get(f, k)>> \in S2
    BY <1>12
  <2>3. \A k \in {"zero_rtt_handshake", "udp_over_stream"} : <<k, Get(f, k)>> \in S3
    BY <1>14
  <2>. HIDE DEF S1, S2, S3
  <2>. QED
    BY <2>1, <2>2, <2>3 DEF TuicKeys
<1>17. Import(x) = parseTUIC(x) /\ Lost(x) = {"up_mbps", "down_mbps"}
  BY <1>1, LinkImport DEF Parse
<1>18. parseTUIC(x) = Endpoint("tuic", S, NoTransport, e.tls)
  BY <1>1, <1>13 DEF parseTUIC
<1>. HIDE DEF S
<1>19. Back(e.par, S, {"peers"} \cup Lost(x), TuicKeys)
  <2>1. {"peers"} \cup Lost(x) = X
    BY <1>17
  <2>2. TuicKeys \cap X = {}
    BY DEF TuicKeys
  <2>. HIDE DEF X
  <2>3. Back(f, S, X, TuicKeys)
    BY <1>4, <1>15, <1>16, <2>2 DEF Back
  <2>. QED
    BY <2>1, <2>3 DEF f
<1>20. Kept(e, x)
  BY <1>2, <1>15, <1>17, <1>18, <1>19, ComesBackAs, NoneIsTransport
<1>. QED
  BY <1>20 DEF x

(* The transport and the TLS block of a VMess link. *)
VMessNet(t) == CASE t.type = "" -> "tcp" [] t.type = "http" -> "h2" [] OTHER -> t.type
VMessPath(t) == IF t.type = "" THEN {} ELSE {<<"path", IF t.type = "grpc" THEN t.svc ELSE t.path>>, <<"host", t.host>>}
VMessTlsOut(t) ==
    IF ~t.on THEN {}
    ELSE {<<"tls", "tls">>, <<"sni", t.sni>>, <<"fp", t.finger>>, <<"alpn", t.alpn>>, <<"allowInsecure", Bit(t.insecure)>>}

LEMMA VMessTransportBack ==
    ASSUME NEW t, IsTransport(t), NEW q, Get(q, "net") = VMessNet(t),
           Reads(q, VMessPath(t), {"path", "host"})
    PROVE  DialledBy(VMessTransport(q)) = DialledBy(t)
<1>. DEFINE B == VMessPath(t)
<1>1. CASE t = TrOf("", "", "", "")
  <2>1. Get(q, "net") = "tcp"
    BY <1>1 DEF TrOf, VMessNet
  <2>. QED
    BY <1>1, <2>1, VMessTransportIs
<1>2. ASSUME NEW ty \in {"ws", "http", "httpupgrade"}, NEW p, NEW h, t = TrOf(ty, p, h, "")
      PROVE  VMessTransport(q) = t
  <2>1. B = {<<"path", p>>, <<"host", h>>}
    BY <1>2 DEF VMessPath, TrOf
  <2>2. Get(q, "net") = IF ty = "http" THEN "h2" ELSE ty
    BY <1>2 DEF VMessNet, TrOf
  <2>. HIDE DEF B
  <2>3. Gives(B, "path", p) /\ Gives(B, "host", h)
    BY <2>1 DEF Gives
  <2>4. Get(q, "path") = p /\ Get(q, "host") = h
    BY <2>3 DEF Reads, B
  <2>. QED
    BY <1>2, <2>2, <2>4, VMessTransportIs
<1>3. ASSUME NEW p, NEW h, NEW s, t = TrOf("grpc", p, h, s)
      PROVE  DialledBy(VMessTransport(q)) = DialledBy(t)
  <2>1. B = {<<"path", s>>, <<"host", h>>}
    BY <1>3 DEF VMessPath, TrOf
  <2>2. Get(q, "net") = "grpc"
    BY <1>3 DEF VMessNet, TrOf
  <2>. HIDE DEF B
  <2>3. Gives(B, "path", s) /\ Gives(B, "host", h)
    BY <2>1 DEF Gives
  <2>4. Get(q, "path") = s /\ Get(q, "host") = h
    BY <2>3 DEF Reads, B
  <2>5. VMessTransport(q) = TrOf("grpc", s, h, s)
    BY <2>2, <2>4, VMessTransportIs
  <2>. QED
    BY <1>3, <2>5, GrpcDialled
<1>4. PICK p, h, s : \/ t = TrOf("", "", "", "")
                     \/ t = TrOf("ws", p, h, "") \/ t = TrOf("http", p, h, "") \/ t = TrOf("httpupgrade", p, h, "")
                     \/ t = TrOf("grpc", p, h, s)
  BY DEF IsTransport
<1>. QED
  BY <1>1, <1>2, <1>3, <1>4

LEMMA VMessTlsBack ==
    ASSUME NEW t, IsTls(t), t.type # "reality", NEW q,
           Reads(q, VMessTlsOut(t), {"tls", "sni", "fp", "alpn", "allowInsecure"})
    PROVE  VMessTls(q) = t
<1>. DEFINE B == VMessTlsOut(t)
<1>1. CASE t = PlainText
  <2>1. B = {}
    BY <1>1 DEF VMessTlsOut, PlainText
  <2>2. Gives(B, "tls", "")
    BY <2>1 DEF Gives
  <2>3. Get(q, "tls") = ""
    BY <2>2 DEF Reads
  <2>. QED
    BY <1>1, <2>3, VMessTlsIs
<1>2. ASSUME NEW s, NEW f, NEW a, NEW b \in BOOLEAN, s # "", t = TlsOf(s, f, a, b)
      PROVE  VMessTls(q) = t
  <2>. DEFINE x == Bit(b)
  <2>1. t.on = TRUE /\ t.sni = s /\ t.finger = f /\ t.alpn = a /\ t.insecure = b
    BY <1>2 DEF TlsOf
  <2>2. B = {<<"tls", "tls">>, <<"sni", s>>, <<"fp", f>>, <<"alpn", a>>, <<"allowInsecure", x>>}
    BY <2>1 DEF VMessTlsOut
  <2>. HIDE DEF B, x
  <2>3. Gives(B, "tls", "tls") /\ Gives(B, "sni", s) /\ Gives(B, "fp", f) /\ Gives(B, "alpn", a) /\ Gives(B, "allowInsecure", x)
    BY <2>2 DEF Gives
  <2>4. Get(q, "tls") = "tls" /\ Get(q, "sni") = s /\ Get(q, "fp") = f /\ Get(q, "alpn") = a /\ Get(q, "allowInsecure") = x
    BY <2>3 DEF Reads, B
  <2>5. truthy(Get(q, "allowInsecure")) = b
    BY <2>4, BitIs DEF x
  <2>6. VMessTls(q) = TlsOf(Or(s, Or(Get(q, "host"), "server")), f, a, truthy(Get(q, "allowInsecure")))
    BY <2>4, VMessTlsIs
  <2>7. Or(s, Or(Get(q, "host"), "server")) = s
    BY <1>2, OrIs
  <2>. QED
    BY <1>2, <2>5, <2>6, <2>7
<1>3. \A s, f, k, i, a : t # RealityOf(s, f, k, i, a)
  BY DEF RealityOf
<1>. QED
  BY <1>1, <1>2, <1>3 DEF IsTls

LEMMA VMessLinkBack == ASSUME NEW e, IsVMess(e) PROVE Kept(e, vmessLink(e))
<1>. DEFINE f == e.par
            uu == Get(f, "uuid")
            ai == Get(f, "alter_id")
            se == Get(f, "security")
            nt == VMessNet(e.transport)
            A == {<<"id", uu>>, <<"aid", ai>>, <<"scy", se>>, <<"net", nt>>}
            B == VMessPath(e.transport)
            C == VMessTlsOut(e.tls)
            Q == A \cup B \cup C
            q == Pairs(Q)
            x == vmessLink(e)
            S == {<<"uuid", uu>>, <<"alter_id", ai>>, <<"security", se>>}
<1>2. Of(e, "vmess", VMessKeys) /\ e.tls.type # "reality" /\ ai # "" /\ se # ""
  BY DEF IsVMess
<1>3. FirstNonEmpty(<<ai, "0">>) = ai /\ FirstNonEmpty(<<se, "auto">>) = se
  <2>1. FirstNonEmpty(<<ai, "0">>) = Or(ai, "0") /\ FirstNonEmpty(<<se, "auto">>) = Or(se, "auto")
    BY FirstOf2
  <2>. HIDE DEF ai, se
  <2>. QED
    BY <1>2, <2>1, OrIs
<1>0. x = buildURI("vmess", "", "", Q)
  <2>1. x = buildURI("vmess", "", "", {<<"id", uu>>, <<"aid", FirstNonEmpty(<<ai, "0">>)>>, <<"scy", FirstNonEmpty(<<se, "auto">>)>>, <<"net", nt>>} \cup B \cup C)
    BY Zenon DEF vmessLink, VMessNet, VMessPath, VMessTlsOut
  <2>. QED
    BY <1>3, <2>1
<1>4. IsTransport(e.transport) /\ IsTls(e.tls) /\ DOMAIN f \subseteq VMessKeys
  BY <1>2 DEF Of
<1>5. \A p \in B : p[1] \in {"path", "host"}
  <2>. DEFINE t == e.transport
              v == IF t.type = "grpc" THEN t.svc ELSE t.path
              D == {<<"path", v>>, <<"host", t.host>>}
  <2>1. B = {} \/ B = D
    BY DEF VMessPath
  <2>. HIDE DEF B, v
  <2>2. \A p \in D : p[1] \in {"path", "host"}
    OBVIOUS
  <2>. HIDE DEF D
  <2>. QED
    BY <2>1, <2>2
<1>6. \A p \in C : p[1] \in {"tls", "sni", "fp", "alpn", "allowInsecure"}
  <2>. DEFINE D == {<<"tls", "tls">>, <<"sni", e.tls.sni>>, <<"fp", e.tls.finger>>, <<"alpn", e.tls.alpn>>, <<"allowInsecure", Bit(e.tls.insecure)>>}
  <2>1. \A p \in D : p[1] \in {"tls", "sni", "fp", "alpn", "allowInsecure"}
    OBVIOUS
  <2>2. C = {} \/ C = D
    BY DEF VMessTlsOut
  <2>. HIDE DEF C, D
  <2>. QED
    BY <2>1, <2>2
<1>7. uu = Get(f, "uuid") /\ ai = Get(f, "alter_id") /\ se = Get(f, "security")
  OBVIOUS
<1>. HIDE DEF f, uu, ai, se, nt, B, C, x
<1>8. (\A p \in S : p[1] \in VMessKeys) /\ Back(f, S, {"peers", "up_mbps", "down_mbps"}, VMessKeys)
  BY <1>4, <1>7 DEF VMessKeys, Back
<1>9. (\A p \in A : p[1] \in {"id", "aid", "scy", "net"}) /\ Gives(A, "id", uu) /\ Gives(A, "aid", ai) /\ Gives(A, "scy", se) /\ Gives(A, "net", nt)
  BY DEF Gives
<1>. HIDE DEF A
<1>10. Carries(Q, A, {"id", "aid", "scy", "net"}) /\ Carries(Q, B, {"path", "host"}) /\ Carries(Q, C, {"tls", "sni", "fp", "alpn", "allowInsecure"})
  BY <1>5, <1>6, <1>9 DEF Carries
<1>. HIDE DEF Q
<1>1. x.scheme = "vmess" /\ x.q = q
  BY <1>0 DEF buildURI
<1>11. Reads(q, A, {"id", "aid", "scy", "net"})
  BY <1>10, CarriedAll
<1>12. Reads(q, B, {"path", "host"})
  BY <1>10, CarriedAll
<1>13. Reads(q, C, {"tls", "sni", "fp", "alpn", "allowInsecure"})
  BY <1>10, CarriedAll
<1>. HIDE DEF q
<1>14. Get(q, "id") = uu /\ Get(q, "aid") = ai /\ Get(q, "scy") = se /\ Get(q, "net") = nt
  BY <1>9, <1>11 DEF Reads
<1>15. DialledBy(VMessTransport(q)) = DialledBy(e.transport)
  BY <1>4, <1>12, <1>14, VMessTransportBack DEF B, nt
<1>16. VMessTls(q) = e.tls
  BY <1>2, <1>4, <1>13, VMessTlsBack DEF C
<1>17. Import(x) = parseVMess(x) /\ Lost(x) = {"up_mbps", "down_mbps"}
  BY <1>1, LinkImport DEF Parse
<1>18. parseVMess(x) = Endpoint("vmess", S, VMessTransport(q), e.tls)
  <2>1. parseVMess(x) = Endpoint("vmess", {<<"uuid", Get(x.q, "id")>>, <<"alter_id", FirstNonEmpty(<<Get(x.q, "aid"), "0">>)>>,
                          <<"security", FirstNonEmpty(<<Get(x.q, "scy"), "auto">>)>>}, VMessTransport(x.q), VMessTls(x.q))
    BY Zenon DEF parseVMess, VMessTransport, VMessTls
  <2>. QED
    BY <1>1, <1>3, <1>14, <1>16, <2>1
<1>. HIDE DEF S
<1>19. Back(e.par, S, {"peers"} \cup Lost(x), VMessKeys)
  <2>1. {"peers"} \cup Lost(x) = {"peers", "up_mbps", "down_mbps"}
    BY <1>17
  <2>. QED
    BY <1>8, <2>1 DEF f
<1>20. Import(x) = Endpoint("vmess", S, VMessTransport(q), e.tls) /\ IsTransport(VMessTransport(q))
  BY <1>17, <1>18, VMessTransportSort
<1>21. Kept(e, x)
  BY <1>2, <1>8, <1>15, <1>19, <1>20, ComesBackAs
<1>. QED
  BY <1>21 DEF x

LEMMA WgConfBack == ASSUME NEW e, IsWg(e) PROVE Kept(e, plainWGConf(e))
<1>. DEFINE f == e.par
            pr == Get(f, "private_key")
            pk == Get(f, "peer_public_key")
            ps == Get(f, "pre_shared_key")
            ad == Get(f, "local_address")
            ka == Get(f, "persistent_keepalive")
            re == Get(f, "reserved")
            mt == Get(f, "mtu")
            Q == {<<"privatekey", pr>>, <<"publickey", pk>>, <<"presharedkey", ps>>, <<"address", ad>>,
                  <<"persistentkeepalive", ka>>, <<"reserved", re>>, <<"mtu", mt>>}
            q == Pairs(Q)
            x == plainWGConf(e)
            S == {<<"private_key", pr>>, <<"peer_public_key", pk>>, <<"pre_shared_key", ps>>, <<"persistent_keepalive", ka>>,
                  <<"local_address", ad>>, <<"reserved", re>>, <<"mtu", mt>>, <<"peers", "one">>}
            X == {"peers", "up_mbps", "down_mbps"}
<1>0. x = buildURI("[Interface]", "", "", Q)
  BY Zenon DEF plainWGConf
<1>2. Of(e, "wireguard", WgKeys) /\ e.transport = NoTransport /\ e.tls = PlainText
  BY DEF IsWg
<1>3. DOMAIN f \subseteq WgKeys
  BY <1>2 DEF Of
<1>4. pr = Get(f, "private_key") /\ pk = Get(f, "peer_public_key") /\ ps = Get(f, "pre_shared_key") /\ ad = Get(f, "local_address")
  OBVIOUS
<1>5. ka = Get(f, "persistent_keepalive") /\ re = Get(f, "reserved") /\ mt = Get(f, "mtu")
  OBVIOUS
<1>. HIDE DEF f, pr, pk, ps, ad, ka, re, mt, x
<1>6. \A p \in S : p[1] \in WgKeys /\ (p[1] = "peers" \/ (p[1] \notin X /\ p[2] = Get(f, p[1])))
  <2>1. \A p \in S : p[1] \in WgKeys
    BY DEF WgKeys
  <2>2. \A p \in S : p[1] = "peers" \/ p[1] \notin X
    OBVIOUS
  <2>3. \A p \in S : p[1] = "peers" \/ p[2] = Get(f, p[1])
    BY <1>4, <1>5
  <2>. HIDE DEF S, X
  <2>. QED
    BY <2>1, <2>2, <2>3, Zenon
<1>7. \A k \in WgKeys \ X : <<k, Get(f, k)>> \in S
  BY <1>4, <1>5 DEF WgKeys
<1>8. Gives(Q, "privatekey", pr) /\ Gives(Q, "publickey", pk) /\ Gives(Q, "presharedkey", ps) /\ Gives(Q, "address", ad)
  BY DEF Gives
<1>9. Gives(Q, "persistentkeepalive", ka) /\ Gives(Q, "reserved", re) /\ Gives(Q, "mtu", mt) /\ Gives(Q, "peer2", "")
  BY DEF Gives
<1>. HIDE DEF Q
<1>1. x.scheme = "[Interface]" /\ x.q = q
  BY <1>0 DEF buildURI
<1>10. Get(q, "privatekey") = pr /\ Get(q, "publickey") = pk /\ Get(q, "presharedkey") = ps /\ Get(q, "address") = ad
  BY <1>8, GetIs
<1>11. Get(q, "persistentkeepalive") = ka /\ Get(q, "reserved") = re /\ Get(q, "mtu") = mt /\ Get(q, "peer2") = ""
  BY <1>9, GetIs
<1>. HIDE DEF q
<1>12. Import(x) = parseConf(x) /\ Lost(x) = {"up_mbps", "down_mbps"}
  BY <1>1, LinkImport DEF Parse
<1>13. parseConf(x) = Endpoint("wireguard", S, NoTransport, PlainText)
  BY <1>1, <1>10, <1>11 DEF parseConf
<1>. HIDE DEF S
<1>14. Back(e.par, S, {"peers"} \cup Lost(x), WgKeys)
  <2>1. {"peers"} \cup Lost(x) = X
    BY <1>12
  <2>. HIDE DEF X
  <2>2. Back(f, S, X, WgKeys)
    BY <1>3, <1>6, <1>7 DEF Back, X
  <2>. QED
    BY <2>1, <2>2 DEF f
<1>15. Kept(e, x)
  BY <1>2, <1>6, <1>12, <1>13, <1>14, ComesBackAs, NoneIsTransport
<1>. QED
  BY <1>15 DEF x

(* The keys of a shadowsocks endpoint: no options without a plugin. *)
SsKeysOf(e) == IF Get(e.par, "plugin") = "" THEN {"method", "password", "plugin", "udp_over_tcp"} ELSE SsKeys

LEMMA SsOf == ASSUME NEW e, IsSs(e) PROVE Of(e, "shadowsocks", SsKeysOf(e))
<1>1. Of(e, "shadowsocks", SsKeys) /\ PluginOpts \cap DOMAIN e.par \subseteq OptsOf(Get(e.par, "plugin"))
  BY DEF IsSs
<1>2. OptsOf("") = {}
  BY DEF OptsOf
<1>3. DOMAIN e.par \subseteq SsKeysOf(e)
  BY <1>1, <1>2 DEF Of, SsKeysOf, SsKeys
<1>. QED
  BY <1>1, <1>3 DEF Of

LEMMA FlagIs == ASSUME NEW f, NEW k, Clean(f), Get(f, k) \in {"", "1"} PROVE Flag(f, k) = Get(f, k)
  BY DEF Flag, Bit, Get, Clean

LEMMA SsLinkBack == ASSUME NEW e, IsSs(e) PROVE Kept(e, ssLink(e))
<1>. DEFINE f == e.par
            K == SsKeysOf(e)
            me == Get(f, "method")
            pw == Get(f, "password")
            pl == Get(f, "plugin")
            uo == Get(f, "udp_over_tcp")
            A == {<<"udp-over-tcp", uo>>, <<"plugin", pl>>}
            B == IF pl = "" THEN {} ELSE {<<k, Get(f, k)>> : k \in PluginOpts}
            Q == A \cup B
            q == Pairs(Q)
            x == ssLink(e)
            S1 == {<<"method", me>>, <<"password", pw>>, <<"plugin", pl>>, <<"udp_over_tcp", uo>>}
            S == S1 \cup B
            X == {"peers", "up_mbps", "down_mbps"}
<1>2. Of(e, "shadowsocks", K) /\ e.transport = NoTransport /\ e.tls = PlainText /\ uo \in {"", "1"}
  BY SsOf DEF IsSs
<1>3. Clean(f) /\ DOMAIN f \subseteq K
  BY <1>2 DEF Of
<1>0. x = buildURI("ss", me, pw, Q)
  <2>1. Flag(f, "udp_over_tcp") = uo
    BY <1>2, <1>3, FlagIs
  <2>2. x = buildURI("ss", me, pw, {<<"udp-over-tcp", Flag(f, "udp_over_tcp")>>, <<"plugin", pl>>} \cup B)
    BY Zenon DEF ssLink
  <2>. QED
    BY <2>1, <2>2
<1>4. me = Get(f, "method") /\ pw = Get(f, "password") /\ pl = Get(f, "plugin") /\ uo = Get(f, "udp_over_tcp")
  OBVIOUS
<1>5. pl = "" => B = {} /\ K = {"method", "password", "plugin", "udp_over_tcp"}
  BY DEF SsKeysOf
<1>6. pl # "" => B = {<<k, Get(f, k)>> : k \in PluginOpts} /\ K = SsKeys
  BY DEF SsKeysOf
<1>. HIDE DEF f, me, pw, pl, uo, B, K, x
<1>7. \A p \in B : p[1] \in PluginOpts /\ p[2] = Get(f, p[1])
  <2>. DEFINE D == {<<k, Get(f, k)>> : k \in PluginOpts}
  <2>1. \A p \in D : p[1] \in PluginOpts /\ p[2] = Get(f, p[1])
    OBVIOUS
  <2>2. B = {} \/ B = D
    BY <1>5, <1>6
  <2>. HIDE DEF D
  <2>. QED
    BY <2>1, <2>2
<1>8. pl # "" => \A k \in PluginOpts : <<k, Get(f, k)>> \in B
  BY <1>6
<1>9. Gives(A, "udp-over-tcp", uo) /\ Gives(A, "plugin", pl) /\ Gives(A, "udp_over_tcp", "") /\ Gives(A, "uot", "")
  BY DEF Gives
<1>10. \A p \in A : p[1] \in {"udp-over-tcp", "plugin"}
  OBVIOUS
<1>. HIDE DEF A
<1>11. \A k \in PluginOpts : k \notin {"udp-over-tcp", "plugin", "udp_over_tcp", "uot", "method", "password", "peers", "up_mbps", "down_mbps"}
  BY DEF PluginOpts
<1>12. Carries(Q, A, {"udp-over-tcp", "plugin", "udp_over_tcp", "uot"}) /\ Carries(Q, B, PluginOpts)
  BY <1>7, <1>10, <1>11 DEF Carries
<1>. HIDE DEF Q
<1>1. x.scheme = "ss" /\ x.user = me /\ x.pass = pw /\ x.q = q
  BY <1>0 DEF buildURI
<1>13. Reads(q, A, {"udp-over-tcp", "plugin", "udp_over_tcp", "uot"}) /\ Reads(q, B, PluginOpts)
  BY <1>12, CarriedAll
<1>. HIDE DEF q
<1>14. Get(q, "udp-over-tcp") = uo /\ Get(q, "plugin") = pl /\ Get(q, "udp_over_tcp") = "" /\ Get(q, "uot") = ""
  BY <1>9, <1>13 DEF Reads
<1>15. pl # "" => \A k \in PluginOpts : Get(q, k) = Get(f, k)
  <2>1. pl # "" => \A k \in PluginOpts : Gives(B, k, Get(f, k))
    BY <1>7, <1>8 DEF Gives
  <2>. QED
    BY <1>13, <2>1 DEF Reads
<1>16. Bit(\E k \in {"udp-over-tcp", "udp_over_tcp", "uot"} : truthy(Get(q, k))) = uo
  <2>1. (\E k \in {"udp-over-tcp", "udp_over_tcp", "uot"} : truthy(Get(q, k))) <=> uo = "1"
    BY <1>2, <1>14 DEF truthy
  <2>2. CASE uo = "1"
    BY <2>1, <2>2 DEF Bit
  <2>3. CASE uo = ""
    BY <2>1, <2>3 DEF Bit
  <2>. QED
    BY <1>2, <2>2, <2>3
<1>17. (IF pl = "" THEN {} ELSE {<<k, Get(q, k)>> : k \in PluginOpts}) = B
  BY <1>5, <1>6, <1>15
<1>18. Import(x) = parseShadowsocks(x) /\ Lost(x) = {"up_mbps", "down_mbps"}
  BY <1>1, LinkImport DEF Parse
<1>19. parseShadowsocks(x) = Endpoint("shadowsocks", S, NoTransport, PlainText)
  <2>1. parseShadowsocks(x) = Endpoint("shadowsocks",
          {<<"method", x.user>>, <<"password", x.pass>>, <<"plugin", Get(x.q, "plugin")>>,
           <<"udp_over_tcp", Bit(\E k \in {"udp-over-tcp", "udp_over_tcp", "uot"} : truthy(Get(x.q, k)))>>} \cup
          (IF Get(x.q, "plugin") = "" THEN {} ELSE {<<k, Get(x.q, k)>> : k \in PluginOpts}), NoTransport, PlainText)
    BY Zenon DEF parseShadowsocks
  <2>. QED
    BY <1>1, <1>14, <1>16, <1>17, <2>1
<1>20. (\A p \in S1 : p[1] \in {"method", "password", "plugin", "udp_over_tcp"}) /\ \A p \in S1 : p[2] = Get(f, p[1])
  BY <1>4
<1>21. \A k \in {"method", "password", "plugin", "udp_over_tcp"} : <<k, Get(f, k)>> \in S1
  BY <1>4
<1>. HIDE DEF S1
<1>22. \A p \in S : p[1] \in K /\ p[1] \notin X /\ p[2] = Get(f, p[1])
  BY <1>5, <1>6, <1>7, <1>11, <1>20 DEF SsKeys
<1>23. \A k \in K : <<k, Get(f, k)>> \in S
  BY <1>5, <1>6, <1>8, <1>21 DEF SsKeys
<1>. HIDE DEF S
<1>24. Back(e.par, S, {"peers"} \cup Lost(x), K)
  <2>1. {"peers"} \cup Lost(x) = X
    BY <1>18
  <2>. HIDE DEF X
  <2>2. Back(f, S, X, K)
    BY <1>3, <1>22, <1>23 DEF Back
  <2>. QED
    BY <2>1, <2>2 DEF f
<1>25. Kept(e, x)
  BY <1>2, <1>18, <1>19, <1>22, <1>24, ComesBackAs, NoneIsTransport
<1>. QED
  BY <1>25 DEF x

-----------------------------------------------------------------------------
(* The keys of a clash proxy. *)
ProxyTransportKeys ==
    {"network", "ws-opts.path", "ws-path", "ws-opts.headers.Host", "ws-opts.headers.host", "ws-headers.Host", "ws-host",
     "grpc-opts.grpc-service-name", "grpc-service-name", "grpc-opts.serviceName", "http-opts.path", "h2-opts.path",
     "h2-opts.host", "http-opts.headers.Host"}
ProxyTlsKeys ==
    {"tls", "servername", "sni", "client-fingerprint", "fingerprint", "skip-cert-verify", "skip_cert_verify",
     "allowInsecure", "insecure", "allow_insecure", "alpn", "reality-opts.public-key", "reality-opts.publicKey",
     "reality-opts.short-id", "reality-opts.shortId"}

LEMMA wsHostIs ==
    ASSUME NEW p
    PROVE  wsHost(p) = Or(Get(p, "ws-opts.headers.Host"), Or(Get(p, "ws-opts.headers.host"), Or(Get(p, "ws-headers.Host"), Get(p, "ws-host"))))
  BY Spelled4 DEF wsHost

LEMMA OrMore == ASSUME NEW a PROVE Or(a, Or("", Or("", ""))) = a /\ Or(a, Or("", "")) = a /\ Or("", Or(a, "")) = a /\ Or(Or(a, ""), "") = a /\ Or(a, "") = a
  BY DEF Or

(* A transport comes back from a proxy. *)
LEMMA ProxyTransportBack ==
    ASSUME NEW t, IsTransport(t), NEW q, Reads(q, clashTransportOut(t), ProxyTransportKeys)
    PROVE  DialledBy(clashTransport(q)) = DialledBy(t)
<1>. DEFINE B == clashTransportOut(t)
<1>0. Reads(q, B, ProxyTransportKeys)
  OBVIOUS
<1>1. CASE t = TrOf("", "", "", "")
  <2>1. B = {}
    BY <1>1 DEF clashTransportOut, TrOf
  <2>. HIDE DEF B
  <2>2. Gives(B, "network", "")
    BY <2>1 DEF Gives
  <2>3. Get(q, "network") = ""
    BY <1>0, <2>2 DEF Reads, ProxyTransportKeys
  <2>. QED
    BY <1>1, <2>3, TransportOfProxy
<1>2. ASSUME NEW ty \in {"ws", "httpupgrade"}, NEW p, NEW h, t = TrOf(ty, p, h, "")
      PROVE  clashTransport(q) = t
  <2>1. B = {<<"network", ty>>, <<"ws-opts.path", p>>, <<"ws-opts.headers.Host", h>>}
    BY <1>2 DEF clashTransportOut, TrOf
  <2>. HIDE DEF B
  <2>2. Gives(B, "network", ty) /\ Gives(B, "ws-opts.path", p) /\ Gives(B, "ws-opts.headers.Host", h) /\ Gives(B, "ws-path", "")
    BY <2>1 DEF Gives
  <2>3. Gives(B, "ws-opts.headers.host", "") /\ Gives(B, "ws-headers.Host", "") /\ Gives(B, "ws-host", "")
    BY <2>1 DEF Gives
  <2>4. Get(q, "network") = ty /\ Get(q, "ws-opts.path") = p /\ Get(q, "ws-opts.headers.Host") = h /\ Get(q, "ws-path") = ""
    BY <1>0, <2>2 DEF Reads, ProxyTransportKeys
  <2>5. Get(q, "ws-opts.headers.host") = "" /\ Get(q, "ws-headers.Host") = "" /\ Get(q, "ws-host") = ""
    BY <1>0, <2>3 DEF Reads, ProxyTransportKeys
  <2>6. wsHost(q) = h
    BY <2>4, <2>5, wsHostIs, OrMore
  <2>7. Or(Get(q, "ws-opts.path"), Get(q, "ws-path")) = p
    BY <2>4, OrMore
  <2>. QED
    BY <1>2, <2>4, <2>6, <2>7, TransportOfProxy
<1>3. ASSUME NEW p, NEW h, t = TrOf("http", p, h, "")
      PROVE  clashTransport(q) = t
  <2>1. B = {<<"network", "h2">>, <<"h2-opts.path", p>>, <<"h2-opts.host", h>>}
    BY <1>3 DEF clashTransportOut, TrOf
  <2>. HIDE DEF B
  <2>2. Gives(B, "network", "h2") /\ Gives(B, "h2-opts.path", p) /\ Gives(B, "h2-opts.host", h) /\ Gives(B, "ws-opts.path", "")
    BY <2>1 DEF Gives
  <2>3. Gives(B, "http-opts.path", "") /\ Gives(B, "http-opts.headers.Host", "") /\ Gives(B, "ws-opts.headers.Host", "")
        /\ Gives(B, "ws-opts.headers.host", "") /\ Gives(B, "ws-headers.Host", "") /\ Gives(B, "ws-host", "")
    BY <2>1 DEF Gives
  <2>4. Get(q, "network") = "h2" /\ Get(q, "h2-opts.path") = p /\ Get(q, "h2-opts.host") = h /\ Get(q, "ws-opts.path") = ""
    BY <1>0, <2>2 DEF Reads, ProxyTransportKeys
  <2>5. Get(q, "http-opts.path") = "" /\ Get(q, "http-opts.headers.Host") = "" /\ Get(q, "ws-opts.headers.Host") = ""
        /\ Get(q, "ws-opts.headers.host") = "" /\ Get(q, "ws-headers.Host") = "" /\ Get(q, "ws-host") = ""
    BY <1>0, <2>3 DEF Reads, ProxyTransportKeys
  <2>6. wsHost(q) = ""
    BY <2>5, wsHostIs, OrMore
  <2>7. Or(Get(q, "http-opts.path"), Or(Get(q, "h2-opts.path"), Get(q, "ws-opts.path"))) = p
    BY <2>4, <2>5, OrMore
  <2>8. Or(Or(Get(q, "h2-opts.host"), Get(q, "http-opts.headers.Host")), wsHost(q)) = h
    BY <2>4, <2>5, <2>6, OrMore
  <2>9. clashTransport(q) = TrOf("http", Or(Get(q, "http-opts.path"), Or(Get(q, "h2-opts.path"), Get(q, "ws-opts.path"))),
                                 Or(Or(Get(q, "h2-opts.host"), Get(q, "http-opts.headers.Host")), wsHost(q)), "")
    BY <2>4, TransportOfProxy
  <2>. QED
    BY <1>3, <2>7, <2>8, <2>9
<1>4. ASSUME NEW p, NEW h, NEW s, t = TrOf("grpc", p, h, s)
      PROVE  DialledBy(clashTransport(q)) = DialledBy(t)
  <2>1. B = {<<"network", "grpc">>, <<"grpc-opts.grpc-service-name", s>>}
    BY <1>4 DEF clashTransportOut, TrOf
  <2>. HIDE DEF B
  <2>2. Gives(B, "network", "grpc") /\ Gives(B, "grpc-opts.grpc-service-name", s) /\ Gives(B, "grpc-service-name", "") /\ Gives(B, "grpc-opts.serviceName", "")
    BY <2>1 DEF Gives
  <2>3. Get(q, "network") = "grpc" /\ Get(q, "grpc-opts.grpc-service-name") = s /\ Get(q, "grpc-service-name") = "" /\ Get(q, "grpc-opts.serviceName") = ""
    BY <1>0, <2>2 DEF Reads, ProxyTransportKeys
  <2>4. Or(Get(q, "grpc-opts.grpc-service-name"), Or(Get(q, "grpc-service-name"), Get(q, "grpc-opts.serviceName"))) = s
    BY <2>3, OrMore
  <2>5. clashTransport(q) = TrOf("grpc", "", "", s)
    BY <2>3, <2>4, TransportOfProxy
  <2>. QED
    BY <1>4, <2>5, GrpcDialled
<1>5. PICK p, h, s : \/ t = TrOf("", "", "", "")
                     \/ t = TrOf("ws", p, h, "") \/ t = TrOf("http", p, h, "") \/ t = TrOf("httpupgrade", p, h, "")
                     \/ t = TrOf("grpc", p, h, s)
  BY DEF IsTransport
<1>. QED
  BY <1>1, <1>2, <1>3, <1>4, <1>5

LEMMA ProxyTransportOutKeys ==
    ASSUME NEW t
    PROVE  \A p \in clashTransportOut(t) :
             p[1] \in {"network", "ws-opts.path", "ws-opts.headers.Host", "grpc-opts.grpc-service-name", "h2-opts.path", "h2-opts.host"}
<1>. DEFINE B == clashTransportOut(t)
            W == {<<"network", t.type>>, <<"ws-opts.path", t.path>>, <<"ws-opts.headers.Host", t.host>>}
            G == {<<"network", "grpc">>, <<"grpc-opts.grpc-service-name", t.svc>>}
            H == {<<"network", "h2">>, <<"h2-opts.path", t.path>>, <<"h2-opts.host", t.host>>}
<1>1. B = W \/ B = G \/ B = H \/ B = {}
  BY DEF clashTransportOut
<1>2. \A p \in W : p[1] \in {"network", "ws-opts.path", "ws-opts.headers.Host"}
  OBVIOUS
<1>3. \A p \in G : p[1] \in {"network", "grpc-opts.grpc-service-name"}
  OBVIOUS
<1>4. \A p \in H : p[1] \in {"network", "h2-opts.path", "h2-opts.host"}
  OBVIOUS
<1>. HIDE DEF B, W, G, H
<1>5. \A p \in B : p[1] \in {"network", "ws-opts.path", "ws-opts.headers.Host", "grpc-opts.grpc-service-name", "h2-opts.path", "h2-opts.host"}
  BY <1>1, <1>2, <1>3, <1>4
<1>. QED
  BY <1>5 DEF B

(* And TLS. *)
LEMMA ProxyInsecureBack ==
    ASSUME NEW q, NEW b \in BOOLEAN, Get(q, "skip-cert-verify") = Bit(b), Get(q, "skip_cert_verify") = "",
           Get(q, "allowInsecure") = "", Get(q, "insecure") = "", Get(q, "allow_insecure") = ""
    PROVE  clashInsecure(q) = b
<1>1. truthy(Bit(b)) = b /\ ~truthy("")
  BY BitIs DEF truthy
<1>. QED
  BY <1>1 DEF clashInsecure

LEMMA OneTls ==
    ASSUME NEW q, NEW ns, Get(q, "fingerprint") = ""
    PROVE  ClashTls(q, ns) = TlsOf(FirstNonEmpty(ns), Get(q, "client-fingerprint"), Get(q, "alpn"), clashInsecure(q))
<1>1. Or(Get(q, "client-fingerprint"), "") = Get(q, "client-fingerprint")
  BY OrIs
<1>. QED
  BY <1>1, ProxyTls

LEMMA OrFirst == ASSUME NEW s, s # "" PROVE \A x, y : Or(s, x) = s /\ Or("", Or(s, y)) = s
  BY DEF Or

(* What the exporter writes of plain TLS. *)
LEMMA ClashTLSBack ==
    ASSUME NEW t, IsTls(t), t.type # "reality", NEW q, Reads(q, clashTLSOut(t), ProxyTlsKeys)
    PROVE  /\ (IF clashTLSEnabled(q) THEN ClashTls(q, NameFirst(q)) ELSE PlainText) = t
           /\ Get(q, "reality-opts.public-key") = "" /\ Get(q, "reality-opts.publicKey") = ""
<1>. DEFINE B == clashTLSOut(t)
            T == IF clashTLSEnabled(q) THEN ClashTls(q, NameFirst(q)) ELSE PlainText
<1>0. Reads(q, B, ProxyTlsKeys)
  OBVIOUS
<1>1. CASE t = PlainText
  <2>1. B = {}
    BY <1>1 DEF clashTLSOut, PlainText
  <2>. HIDE DEF B
  <2>2. Gives(B, "tls", "") /\ Gives(B, "reality-opts.public-key", "") /\ Gives(B, "reality-opts.publicKey", "")
    BY <2>1 DEF Gives
  <2>3. Get(q, "tls") = "" /\ Get(q, "reality-opts.public-key") = "" /\ Get(q, "reality-opts.publicKey") = ""
    BY <1>0, <2>2 DEF Reads, ProxyTlsKeys
  <2>4. ~clashTLSEnabled(q)
    BY <2>3 DEF clashTLSEnabled, truthy
  <2>. QED
    BY <1>1, <2>3, <2>4
<1>2. ASSUME NEW s, NEW f, NEW a, NEW b \in BOOLEAN, s # "", t = TlsOf(s, f, a, b)
      PROVE  T = t /\ Get(q, "reality-opts.public-key") = "" /\ Get(q, "reality-opts.publicKey") = ""
  <2>. DEFINE x == Bit(b)
  <2>1. t.on = TRUE /\ t.type = "tls" /\ t.sni = s /\ t.finger = f /\ t.alpn = a /\ t.insecure = b
    BY <1>2 DEF TlsOf
  <2>2. B = {<<"tls", "true">>, <<"servername", s>>, <<"client-fingerprint", f>>, <<"skip-cert-verify", x>>, <<"alpn", a>>}
    BY <2>1 DEF clashTLSOut, Verify
  <2>. HIDE DEF B, x, T
  <2>3. Gives(B, "tls", "true") /\ Gives(B, "servername", s) /\ Gives(B, "client-fingerprint", f) /\ Gives(B, "alpn", a)
    BY <2>2 DEF Gives
  <2>4. Gives(B, "skip-cert-verify", x) /\ Gives(B, "skip_cert_verify", "") /\ Gives(B, "allowInsecure", "")
        /\ Gives(B, "insecure", "") /\ Gives(B, "allow_insecure", "")
    BY <2>2 DEF Gives
  <2>5. Gives(B, "fingerprint", "") /\ Gives(B, "reality-opts.public-key", "") /\ Gives(B, "reality-opts.publicKey", "")
    BY <2>2 DEF Gives
  <2>6. Get(q, "tls") = "true" /\ Get(q, "servername") = s /\ Get(q, "client-fingerprint") = f /\ Get(q, "alpn") = a
    BY <1>0, <2>3 DEF Reads, ProxyTlsKeys
  <2>7. Get(q, "skip-cert-verify") = x /\ Get(q, "skip_cert_verify") = "" /\ Get(q, "allowInsecure") = ""
        /\ Get(q, "insecure") = "" /\ Get(q, "allow_insecure") = ""
    BY <1>0, <2>4 DEF Reads, ProxyTlsKeys
  <2>8. Get(q, "fingerprint") = "" /\ Get(q, "reality-opts.public-key") = "" /\ Get(q, "reality-opts.publicKey") = ""
    BY <1>0, <2>5 DEF Reads, ProxyTlsKeys
  <2>9. clashInsecure(q) = b
    BY <2>7, ProxyInsecureBack DEF x
  <2>10. FirstNonEmpty(NameFirst(q)) = s
    BY <1>2, <2>6, ProxyNames, OrFirst
  <2>11. ClashTls(q, NameFirst(q)) = t
    BY <1>2, <2>6, <2>8, <2>9, <2>10, OneTls
  <2>12. clashTLSEnabled(q)
    BY <2>6 DEF clashTLSEnabled, truthy
  <2>. QED
    BY <2>8, <2>11, <2>12 DEF T
<1>. HIDE DEF T, B
<1>3. \A s, f, k, i, a : t # RealityOf(s, f, k, i, a)
  BY DEF RealityOf
<1>4. T = t /\ Get(q, "reality-opts.public-key") = "" /\ Get(q, "reality-opts.publicKey") = ""
  BY <1>1, <1>2, <1>3 DEF IsTls, T
<1>. QED
  BY <1>4 DEF T

(* What trojan and anytls say of it. *)
LEMMA TrojanTlsBack ==
    ASSUME NEW t, IsTls(t), t.type # "reality", t # PlainText, NEW q, Reads(q, TrojanTls(t), ProxyTlsKeys)
    PROVE  /\ clashTLSDefaultOn(q)
           /\ ClashTls(q, SniFirst(q)) = t
           /\ ClashTls(q, <<Get(q, "sni"), Get(q, "servername"), "server">>) = t
<1>. DEFINE B == TrojanTls(t)
<1>0. Reads(q, B, ProxyTlsKeys)
  OBVIOUS
<1>2. ASSUME NEW s, NEW f, NEW a, NEW b \in BOOLEAN, s # "", t = TlsOf(s, f, a, b)
      PROVE  clashTLSDefaultOn(q) /\ ClashTls(q, SniFirst(q)) = t /\ ClashTls(q, <<Get(q, "sni"), Get(q, "servername"), "server">>) = t
  <2>. DEFINE x == Bit(b)
              ns == <<Get(q, "sni"), Get(q, "servername"), "server">>
  <2>1. t.on = TRUE /\ t.type = "tls" /\ t.sni = s /\ t.finger = f /\ t.alpn = a /\ t.insecure = b
    BY <1>2 DEF TlsOf
  <2>2. B = {<<"sni", s>>, <<"client-fingerprint", f>>, <<"skip-cert-verify", x>>, <<"alpn", a>>}
    BY <2>1 DEF TrojanTls, Verify
  <2>. HIDE DEF B, x
  <2>3. Gives(B, "tls", "") /\ Gives(B, "sni", s) /\ Gives(B, "client-fingerprint", f) /\ Gives(B, "alpn", a)
    BY <2>2 DEF Gives
  <2>4. Gives(B, "skip-cert-verify", x) /\ Gives(B, "skip_cert_verify", "") /\ Gives(B, "allowInsecure", "")
        /\ Gives(B, "insecure", "") /\ Gives(B, "allow_insecure", "")
    BY <2>2 DEF Gives
  <2>5. Gives(B, "fingerprint", "")
    BY <2>2 DEF Gives
  <2>6. Get(q, "tls") = "" /\ Get(q, "sni") = s /\ Get(q, "client-fingerprint") = f /\ Get(q, "alpn") = a
    BY <1>0, <2>3 DEF Reads, ProxyTlsKeys
  <2>7. Get(q, "skip-cert-verify") = x /\ Get(q, "skip_cert_verify") = "" /\ Get(q, "allowInsecure") = ""
        /\ Get(q, "insecure") = "" /\ Get(q, "allow_insecure") = ""
    BY <1>0, <2>4 DEF Reads, ProxyTlsKeys
  <2>8. Get(q, "fingerprint") = ""
    BY <1>0, <2>5 DEF Reads, ProxyTlsKeys
  <2>9. clashInsecure(q) = b
    BY <2>7, ProxyInsecureBack DEF x
  <2>10. FirstNonEmpty(SniFirst(q)) = s /\ FirstNonEmpty(ns) = s
    BY <1>2, <2>6, ProxyNames, OrFirst
  <2>. HIDE DEF ns
  <2>11. ClashTls(q, SniFirst(q)) = t /\ ClashTls(q, ns) = t
    BY <1>2, <2>6, <2>8, <2>9, <2>10, OneTls
  <2>12. clashTLSDefaultOn(q)
    BY <2>6 DEF clashTLSDefaultOn
  <2>. QED
    BY <2>11, <2>12 DEF ns
<1>. HIDE DEF B
<1>3. \A s, f, k, i, a : t # RealityOf(s, f, k, i, a)
  BY DEF RealityOf
<1>. QED
  BY <1>2, <1>3 DEF IsTls

(* What the QUIC protocols say of it. *)
LEMMA ProxyQuicBack ==
    ASSUME NEW t, IsQuic(t), NEW q, Reads(q, QuicTlsOut(t), ProxyTlsKeys)
    PROVE  ClashQuicTls(q) = t
<1>. DEFINE B == QuicTlsOut(t)
<1>0. Reads(q, B, ProxyTlsKeys)
  OBVIOUS
<1>2. ASSUME NEW s, NEW a, NEW b \in BOOLEAN, s # "", t = TlsOf(s, "", a, b)
      PROVE  ClashQuicTls(q) = t
  <2>. DEFINE x == Bit(b)
  <2>1. t.sni = s /\ t.alpn = a /\ t.insecure = b
    BY <1>2 DEF TlsOf
  <2>2. B = {<<"sni", s>>, <<"skip-cert-verify", x>>, <<"alpn", a>>}
    BY <2>1 DEF QuicTlsOut, Verify
  <2>. HIDE DEF B, x
  <2>3. Gives(B, "sni", s) /\ Gives(B, "alpn", a)
    BY <2>2 DEF Gives
  <2>4. Gives(B, "skip-cert-verify", x) /\ Gives(B, "skip_cert_verify", "") /\ Gives(B, "allowInsecure", "")
        /\ Gives(B, "insecure", "") /\ Gives(B, "allow_insecure", "")
    BY <2>2 DEF Gives
  <2>6. Get(q, "sni") = s /\ Get(q, "alpn") = a
    BY <1>0, <2>3 DEF Reads, ProxyTlsKeys
  <2>7. Get(q, "skip-cert-verify") = x /\ Get(q, "skip_cert_verify") = "" /\ Get(q, "allowInsecure") = ""
        /\ Get(q, "insecure") = "" /\ Get(q, "allow_insecure") = ""
    BY <1>0, <2>4 DEF Reads, ProxyTlsKeys
  <2>9. clashInsecure(q) = b
    BY <2>7, ProxyInsecureBack DEF x
  <2>10. Or(s, Or(Get(q, "servername"), "server")) = s
    BY <1>2, OrFirst
  <2>. QED
    BY <1>2, <2>6, <2>9, <2>10, ProxyQuic
<1>. HIDE DEF B
<1>. QED
  BY <1>2 DEF IsQuic

(* And what vless says of Reality. *)
RealityOut(t) ==
    {<<"tls", "true">>, <<"servername", t.sni>>, <<"client-fingerprint", t.finger>>,
     <<"alpn", t.alpn>>, <<"reality-opts.public-key", t.key>>, <<"reality-opts.short-id", t.sid>>}
VlessTlsOut(t) == IF t.on /\ t.type = "reality" THEN RealityOut(t) ELSE clashTLSOut(t)

RealitySet(s, f, k, i, a) ==
    {<<"tls", "true">>, <<"servername", s>>, <<"client-fingerprint", f>>, <<"alpn", a>>,
     <<"reality-opts.public-key", k>>, <<"reality-opts.short-id", i>>}

LEMMA RealityGives ==
    ASSUME NEW s, NEW f, NEW k, NEW i, NEW a
    PROVE  LET B == RealitySet(s, f, k, i, a) IN
           /\ Gives(B, "servername", s) /\ Gives(B, "sni", "") /\ Gives(B, "client-fingerprint", f) /\ Gives(B, "fingerprint", "")
           /\ Gives(B, "alpn", a) /\ Gives(B, "reality-opts.public-key", k) /\ Gives(B, "reality-opts.publicKey", "")
           /\ Gives(B, "reality-opts.short-id", i) /\ Gives(B, "reality-opts.shortId", "")
<1>. DEFINE B == RealitySet(s, f, k, i, a)
<1>1. Gives(B, "servername", s) /\ Gives(B, "sni", "")
  BY DEF Gives, RealitySet
<1>2. Gives(B, "client-fingerprint", f) /\ Gives(B, "fingerprint", "")
  BY DEF Gives, RealitySet
<1>3. Gives(B, "alpn", a)
  BY DEF Gives, RealitySet
<1>4. Gives(B, "reality-opts.public-key", k) /\ Gives(B, "reality-opts.publicKey", "")
  BY DEF Gives, RealitySet
<1>5. Gives(B, "reality-opts.short-id", i) /\ Gives(B, "reality-opts.shortId", "")
  BY DEF Gives, RealitySet
<1>. QED
  BY <1>1, <1>2, <1>3, <1>4, <1>5

LEMMA RealityBack ==
    ASSUME NEW t, IsTls(t), t.type = "reality", t.key # "", NEW q, Reads(q, RealityOut(t), ProxyTlsKeys)
    PROVE  ProxyVlessTls(q) = t
<1>. DEFINE B == RealityOut(t)
<1>0. Reads(q, B, ProxyTlsKeys)
  OBVIOUS
<1>2. ASSUME NEW s, NEW f, NEW k, NEW i, NEW a, t = RealityOf(s, f, k, i, a)
      PROVE  ProxyVlessTls(q) = t
  <2>1. t.sni = s /\ t.finger = f /\ t.key = k /\ t.sid = i /\ t.alpn = a
    BY <1>2 DEF RealityOf
  <2>2. B = RealitySet(s, f, k, i, a)
    BY <2>1 DEF RealityOut, RealitySet
  <2>. HIDE DEF B
  <2>3. Gives(B, "servername", s) /\ Gives(B, "sni", "") /\ Gives(B, "client-fingerprint", f) /\ Gives(B, "fingerprint", "") /\ Gives(B, "alpn", a)
    BY <2>2, RealityGives, Zenon
  <2>4. Gives(B, "reality-opts.public-key", k) /\ Gives(B, "reality-opts.publicKey", "") /\ Gives(B, "reality-opts.short-id", i)
        /\ Gives(B, "reality-opts.shortId", "")
    BY <2>2, RealityGives, Zenon
  <2>5. Get(q, "servername") = s /\ Get(q, "sni") = "" /\ Get(q, "client-fingerprint") = f /\ Get(q, "fingerprint") = "" /\ Get(q, "alpn") = a
    BY <1>0, <2>3 DEF Reads, ProxyTlsKeys
  <2>6. Get(q, "reality-opts.public-key") = k /\ Get(q, "reality-opts.publicKey") = "" /\ Get(q, "reality-opts.short-id") = i
        /\ Get(q, "reality-opts.shortId") = ""
    BY <1>0, <2>4 DEF Reads, ProxyTlsKeys
  <2>7. Or(s, "") = s /\ Or(f, "") = f /\ Or(k, "") = k /\ Or(i, "") = i
    BY OrIs
  <2>8. ProxyReality(q) = RealityOf(s, f, k, i, a)
    BY <2>5, <2>6, <2>7, ProxyRealityIs
  <2>9. Spelled(q, <<"reality-opts.public-key", "reality-opts.publicKey">>) = k
    BY <2>6, <2>7, Spelled2
  <2>. QED
    BY <1>2, <2>1, <2>8, <2>9 DEF ProxyVlessTls
<1>. HIDE DEF B
<1>3. PlainText.type # "reality" /\ \A s, f, a, b : TlsOf(s, f, a, b).type # "reality"
  BY DEF PlainText, TlsOf
<1>. QED
  BY <1>2, <1>3 DEF IsTls

LEMMA VlessTlsBack ==
    ASSUME NEW t, IsTls(t), t.type = "reality" => t.key # "", NEW q, Reads(q, VlessTlsOut(t), ProxyTlsKeys)
    PROVE  ProxyVlessTls(q) = t
<1>1. CASE t.type = "reality"
  <2>1. t.on = TRUE
    <3>1. PlainText.type # "reality" /\ \A s, f, a, b : TlsOf(s, f, a, b).type # "reality"
      BY DEF PlainText, TlsOf
    <3>2. \A s, f, k, i, a : RealityOf(s, f, k, i, a).on = TRUE
      BY DEF RealityOf
    <3>. QED
      BY <1>1, <3>1, <3>2 DEF IsTls
  <2>2. VlessTlsOut(t) = RealityOut(t)
    BY <1>1, <2>1 DEF VlessTlsOut
  <2>. QED
    BY <1>1, <2>2, RealityBack
<1>2. CASE t.type # "reality"
  <2>1. VlessTlsOut(t) = clashTLSOut(t)
    BY <1>2 DEF VlessTlsOut
  <2>2. Spelled(q, <<"reality-opts.public-key", "reality-opts.publicKey">>) = ""
    <3>1. Spelled(q, <<"reality-opts.public-key", "reality-opts.publicKey">>) = Or(Get(q, "reality-opts.public-key"), Get(q, "reality-opts.publicKey"))
      BY Spelled2
    <3>2. Get(q, "reality-opts.public-key") = "" /\ Get(q, "reality-opts.publicKey") = ""
      BY <1>2, <2>1, ClashTLSBack
    <3>. QED
      BY <3>1, <3>2, OrIs
  <2>. QED
    BY <1>2, <2>1, <2>2, ClashTLSBack DEF ProxyVlessTls
<1>. QED
  BY <1>1, <1>2

(* The keys they use. *)
LEMMA ProxyTlsOutKeys ==
    ASSUME NEW t
    PROVE  /\ \A p \in clashTLSOut(t) : p[1] \in ProxyTlsKeys
           /\ \A p \in TrojanTls(t) : p[1] \in ProxyTlsKeys
           /\ \A p \in QuicTlsOut(t) : p[1] \in ProxyTlsKeys
           /\ \A p \in RealityOut(t) : p[1] \in ProxyTlsKeys
           /\ \A p \in VlessTlsOut(t) : p[1] \in ProxyTlsKeys
<1>. DEFINE x == Bit(t.insecure)
            A == {<<"tls", "true">>, <<"servername", t.sni>>, <<"client-fingerprint", t.finger>>, <<"skip-cert-verify", x>>, <<"alpn", t.alpn>>}
            B == {<<"sni", t.sni>>, <<"client-fingerprint", t.finger>>, <<"skip-cert-verify", x>>, <<"alpn", t.alpn>>}
            C == {<<"sni", t.sni>>, <<"skip-cert-verify", x>>, <<"alpn", t.alpn>>}
            D == RealityOut(t)
<1>1. (clashTLSOut(t) = {} \/ clashTLSOut(t) = A) /\ (TrojanTls(t) = {} \/ TrojanTls(t) = B) /\ QuicTlsOut(t) = C
  BY DEF clashTLSOut, TrojanTls, QuicTlsOut, Verify
<1>2. VlessTlsOut(t) = D \/ VlessTlsOut(t) = clashTLSOut(t)
  BY DEF VlessTlsOut
<1>. HIDE DEF x
<1>3. \A p \in A : p[1] \in ProxyTlsKeys
  BY DEF ProxyTlsKeys
<1>4. \A p \in B : p[1] \in ProxyTlsKeys
  BY DEF ProxyTlsKeys
<1>5. \A p \in C : p[1] \in ProxyTlsKeys
  BY DEF ProxyTlsKeys
<1>6. \A p \in D : p[1] \in ProxyTlsKeys
  BY DEF ProxyTlsKeys, RealityOut
<1>. HIDE DEF A, B, C, D
<1>. QED
  BY <1>1, <1>2, <1>3, <1>4, <1>5, <1>6 DEF D

(* The proxies. *)
ProxyLost ==
    {"peers", "packet_encoding", "heartbeat", "zero_rtt_handshake", "udp_over_stream", "persistent_keepalive", "opt.mux"}

LEMMA ProxyBack ==
    ASSUME NEW e, NEW proto, NEW K, Of(e, proto, K), NEW Q, clashProxy(e) = buildURI("clash", "", "", Q),
           NEW S, NEW tr, proxyToEndpoint(Pairs(Q)) = Endpoint(proto, S, tr, e.tls),
           IsTransport(tr), DialledBy(tr) = DialledBy(e.transport),
           \A p \in S : p[1] \in K, Back(e.par, S, ProxyLost, K)
    PROVE  Kept(e, clashProxy(e))
<1>. DEFINE x == clashProxy(e)
            L == {"packet_encoding", "heartbeat", "zero_rtt_handshake", "udp_over_stream", "persistent_keepalive", "opt.mux"}
<1>1. x.scheme = "clash" /\ x.q = Pairs(Q)
  BY TextIs
<1>. HIDE DEF x
<1>2. Import(x) = proxyToEndpoint(Pairs(Q)) /\ Lost(x) = L
  BY <1>1 DEF Import, Lost
<1>3. {"peers"} \cup L = ProxyLost
  BY DEF ProxyLost
<1>. HIDE DEF L
<1>4. Import(x) = Endpoint(proto, S, tr, e.tls) /\ Back(e.par, S, {"peers"} \cup Lost(x), K)
  BY <1>2, <1>3
<1>5. Kept(e, x)
  BY <1>4, ComesBackAs
<1>. QED
  BY <1>5 DEF x

LEMMA ProtoIs == ASSUME NEW e, NEW proto, NEW K, Of(e, proto, K) PROVE e.proto = proto
<1>. DEFINE r == [proto |-> proto, par |-> e.par, transport |-> e.transport, tls |-> e.tls]
<1>1. r.proto = proto
  OBVIOUS
<1>2. e = r
  BY DEF Of
<1>. HIDE DEF r
<1>. QED
  BY <1>1, <1>2

(* What a proxy says of the transport and of TLS, beside keys of its own. *)
OwnKeys ==
    {"type", "uuid", "alterId", "cipher", "password", "flow", "auth", "obfs", "obfs-password", "obfs_password", "ports", "mport", "up", "down",
     "congestion-controller", "congestion_control", "udp-relay-mode", "udp_relay_mode"}

LEMMA OwnApart ==
    OwnKeys \cap ProxyTransportKeys = {} /\ OwnKeys \cap ProxyTlsKeys = {} /\ ProxyTransportKeys \cap ProxyTlsKeys = {}
<1>1. \A k \in OwnKeys : k \notin ProxyTransportKeys
  BY DEF OwnKeys, ProxyTransportKeys
<1>2. \A k \in OwnKeys : k \notin ProxyTlsKeys
  BY DEF OwnKeys, ProxyTlsKeys
<1>3. \A k \in ProxyTransportKeys : k \notin ProxyTlsKeys
  BY DEF ProxyTransportKeys, ProxyTlsKeys
<1>. QED
  BY <1>1, <1>2, <1>3

LEMMA ProxyReads ==
    ASSUME NEW A, NEW t, NEW C, \A p \in A : p[1] \in OwnKeys, \A p \in C : p[1] \in ProxyTlsKeys
    PROVE  LET q == Pairs(A \cup clashTransportOut(t) \cup C) IN
           Reads(q, A, OwnKeys) /\ Reads(q, clashTransportOut(t), ProxyTransportKeys) /\ Reads(q, C, ProxyTlsKeys)
<1>. DEFINE B == clashTransportOut(t)
            Q == A \cup B \cup C
<1>1. \A p \in B : p[1] \in ProxyTransportKeys
  BY ProxyTransportOutKeys DEF ProxyTransportKeys
<1>. HIDE DEF B
<1>2. Carries(Q, A, OwnKeys) /\ Carries(Q, B, ProxyTransportKeys) /\ Carries(Q, C, ProxyTlsKeys)
  BY <1>1, OwnApart DEF Carries
<1>3. Reads(Pairs(Q), A, OwnKeys) /\ Reads(Pairs(Q), B, ProxyTransportKeys) /\ Reads(Pairs(Q), C, ProxyTlsKeys)
  BY <1>2, CarriedAll
<1>. QED
  BY <1>3 DEF B

LEMMA QuicReads ==
    ASSUME NEW A, NEW C, \A p \in A : p[1] \in OwnKeys, \A p \in C : p[1] \in ProxyTlsKeys
    PROVE  Reads(Pairs(A \cup C), A, OwnKeys) /\ Reads(Pairs(A \cup C), C, ProxyTlsKeys)
<1>. DEFINE Q == A \cup C
<1>1. Carries(Q, A, OwnKeys) /\ Carries(Q, C, ProxyTlsKeys)
  BY OwnApart DEF Carries
<1>. QED
  BY <1>1, CarriedAll

LEMMA VMessProxyBack == ASSUME NEW e, IsVMess(e) PROVE Kept(e, clashProxy(e))
<1>. DEFINE f == e.par
            uu == Get(f, "uuid")
            ai == Get(f, "alter_id")
            se == Get(f, "security")
            A == {<<"type", "vmess">>, <<"uuid", uu>>, <<"alterId", ai>>, <<"cipher", se>>}
            B == clashTransportOut(e.transport)
            C == clashTLSOut(e.tls)
            Q == A \cup B \cup C
            q == Pairs(Q)
            T == IF clashTLSEnabled(q) THEN ClashTls(q, NameFirst(q)) ELSE PlainText
            S == {<<"uuid", uu>>, <<"alter_id", ai>>, <<"security", se>>}
<1>1. Of(e, "vmess", VMessKeys) /\ e.tls.type # "reality" /\ ai # "" /\ se # ""
  BY DEF IsVMess
<1>2. e.proto = "vmess" /\ IsTransport(e.transport) /\ IsTls(e.tls) /\ DOMAIN f \subseteq VMessKeys
  BY <1>1, ProtoIs DEF Of
<1>3. FirstNonEmpty(<<ai, "0">>) = ai /\ FirstNonEmpty(<<se, "auto">>) = se
  BY <1>1, FirstOf2 DEF Or
<1>4. clashProxy(e) = buildURI("clash", "", "", Q)
  <2>1. clashProxy(e) = buildURI("clash", "", "", clashVMessOut(e))
    BY <1>2 DEF clashProxy
  <2>2. clashVMessOut(e) = {<<"type", "vmess">>, <<"uuid", uu>>, <<"alterId", FirstNonEmpty(<<ai, "0">>)>>,
                            <<"cipher", FirstNonEmpty(<<se, "auto">>)>>} \cup B \cup C
    BY Zenon DEF clashVMessOut
  <2>3. clashVMessOut(e) = Q
    BY <1>3, <2>2
  <2>. QED
    BY <2>1, <2>3
<1>5. \A p \in C : p[1] \in ProxyTlsKeys
  BY ProxyTlsOutKeys
<1>6. uu = Get(f, "uuid") /\ ai = Get(f, "alter_id") /\ se = Get(f, "security")
  OBVIOUS
<1>. HIDE DEF f, uu, ai, se
<1>7. \A p \in A : p[1] \in OwnKeys
  BY DEF OwnKeys
<1>8. Gives(A, "type", "vmess") /\ Gives(A, "uuid", uu) /\ Gives(A, "alterId", ai) /\ Gives(A, "cipher", se)
  BY DEF Gives
<1>9. (\A p \in S : p[1] \in VMessKeys) /\ Back(f, S, ProxyLost, VMessKeys)
  BY <1>2, <1>6 DEF VMessKeys, Back, ProxyLost
<1>. HIDE DEF A, C
<1>10. Reads(q, A, OwnKeys) /\ Reads(q, B, ProxyTransportKeys) /\ Reads(q, C, ProxyTlsKeys)
  BY <1>5, <1>7, ProxyReads
<1>. HIDE DEF Q, q
<1>11. Get(q, "type") = "vmess" /\ Get(q, "uuid") = uu /\ Get(q, "alterId") = ai /\ Get(q, "cipher") = se
  BY <1>8, <1>10 DEF Reads, OwnKeys
<1>12. DialledBy(clashTransport(q)) = DialledBy(e.transport) /\ IsTransport(clashTransport(q))
  BY <1>2, <1>10, ProxyTransportBack, ProxyTransport
<1>13. T = e.tls
  BY <1>1, <1>2, <1>10, ClashTLSBack DEF C
<1>14. proxyToEndpoint(q) = clashVMess(q)
  BY <1>11 DEF proxyToEndpoint
<1>15. clashVMess(q) = Endpoint("vmess", S, clashTransport(q), T)
  <2>1. clashVMess(q) = Endpoint("vmess", {<<"uuid", Get(q, "uuid")>>, <<"alter_id", FirstNonEmpty(<<Get(q, "alterId"), "0">>)>>,
                                           <<"security", FirstNonEmpty(<<Get(q, "cipher"), "auto">>)>>}, clashTransport(q), T)
    BY Zenon DEF clashVMess
  <2>. QED
    BY <1>3, <1>11, <2>1
<1>. HIDE DEF S, T
<1>16. proxyToEndpoint(q) = Endpoint("vmess", S, clashTransport(q), e.tls)
  BY <1>13, <1>14, <1>15
<1>. QED
  BY <1>1, <1>4, <1>9, <1>12, <1>16, ProxyBack DEF q, f

LEMMA TrojanProxyBack ==
    ASSUME NEW e, IsTrojan(e), e.tls # PlainText, e.tls.type # "reality"
    PROVE  Kept(e, clashProxy(e))
<1>. DEFINE f == e.par
            pw == Get(f, "password")
            A == {<<"type", "trojan">>, <<"password", pw>>}
            B == clashTransportOut(e.transport)
            C == TrojanTls(e.tls)
            Q == A \cup B \cup C
            q == Pairs(Q)
            T == IF clashTLSDefaultOn(q) THEN ClashTls(q, SniFirst(q)) ELSE PlainText
            S == {<<"password", pw>>}
<1>1. Of(e, "trojan", {"password"})
  BY DEF IsTrojan
<1>2. e.proto = "trojan" /\ IsTransport(e.transport) /\ IsTls(e.tls) /\ DOMAIN f \subseteq {"password"}
  BY <1>1, ProtoIs DEF Of
<1>4. clashProxy(e) = buildURI("clash", "", "", Q)
  <2>1. clashProxy(e) = buildURI("clash", "", "", clashTrojanOut(e))
    BY <1>2 DEF clashProxy
  <2>2. clashTrojanOut(e) = Q
    BY Zenon DEF clashTrojanOut
  <2>. QED
    BY <2>1, <2>2
<1>5. \A p \in C : p[1] \in ProxyTlsKeys
  BY ProxyTlsOutKeys
<1>6. pw = Get(f, "password")
  OBVIOUS
<1>. HIDE DEF f, pw
<1>7. \A p \in A : p[1] \in OwnKeys
  BY DEF OwnKeys
<1>8. Gives(A, "type", "trojan") /\ Gives(A, "password", pw)
  BY DEF Gives
<1>9. (\A p \in S : p[1] \in {"password"}) /\ Back(f, S, ProxyLost, {"password"})
  BY <1>2, <1>6 DEF Back, ProxyLost
<1>. HIDE DEF A, C
<1>10. Reads(q, A, OwnKeys) /\ Reads(q, B, ProxyTransportKeys) /\ Reads(q, C, ProxyTlsKeys)
  BY <1>5, <1>7, ProxyReads
<1>. HIDE DEF Q, q
<1>11. Get(q, "type") = "trojan" /\ Get(q, "password") = pw
  BY <1>8, <1>10 DEF Reads, OwnKeys
<1>12. DialledBy(clashTransport(q)) = DialledBy(e.transport) /\ IsTransport(clashTransport(q))
  BY <1>2, <1>10, ProxyTransportBack, ProxyTransport
<1>13. T = e.tls
  BY <1>2, <1>10, TrojanTlsBack DEF C
<1>14. proxyToEndpoint(q) = clashTrojan(q)
  BY <1>11 DEF proxyToEndpoint
<1>15. clashTrojan(q) = Endpoint("trojan", S, clashTransport(q), T)
  <2>1. clashTrojan(q) = Endpoint("trojan", {<<"password", Get(q, "password")>>}, clashTransport(q), T)
    BY Zenon DEF clashTrojan
  <2>. QED
    BY <1>11, <2>1
<1>. HIDE DEF S, T
<1>16. proxyToEndpoint(q) = Endpoint("trojan", S, clashTransport(q), e.tls)
  BY <1>13, <1>14, <1>15
<1>. QED
  BY <1>1, <1>4, <1>9, <1>12, <1>16, ProxyBack DEF q, f

LEMMA AnyTLSProxyBack ==
    ASSUME NEW e, IsAnyTLS(e), e.tls # PlainText, e.tls.type # "reality"
    PROVE  Kept(e, clashProxy(e))
<1>. DEFINE f == e.par
            pw == Get(f, "password")
            A == {<<"type", "anytls">>, <<"password", pw>>}
            C == TrojanTls(e.tls)
            Q == A \cup C
            q == Pairs(Q)
            T == ClashTls(q, <<Get(q, "sni"), Get(q, "servername"), "server">>)
            S == {<<"password", pw>>}
<1>1. Of(e, "anytls", {"password"}) /\ e.transport = NoTransport
  BY DEF IsAnyTLS
<1>2. e.proto = "anytls" /\ IsTls(e.tls) /\ DOMAIN f \subseteq {"password"}
  BY <1>1, ProtoIs DEF Of
<1>4. clashProxy(e) = buildURI("clash", "", "", Q)
  <2>1. clashProxy(e) = buildURI("clash", "", "", clashAnyTLSOut(e))
    BY <1>2 DEF clashProxy
  <2>2. clashAnyTLSOut(e) = Q
    BY Zenon DEF clashAnyTLSOut
  <2>. QED
    BY <2>1, <2>2
<1>5. \A p \in C : p[1] \in ProxyTlsKeys
  BY ProxyTlsOutKeys
<1>6. pw = Get(f, "password")
  OBVIOUS
<1>. HIDE DEF f, pw
<1>7. \A p \in A : p[1] \in OwnKeys
  BY DEF OwnKeys
<1>8. Gives(A, "type", "anytls") /\ Gives(A, "password", pw)
  BY DEF Gives
<1>9. (\A p \in S : p[1] \in {"password"}) /\ Back(f, S, ProxyLost, {"password"})
  BY <1>2, <1>6 DEF Back, ProxyLost
<1>. HIDE DEF A, C
<1>10. Reads(q, A, OwnKeys) /\ Reads(q, C, ProxyTlsKeys)
  BY <1>5, <1>7, QuicReads
<1>. HIDE DEF Q, q
<1>11. Get(q, "type") = "anytls" /\ Get(q, "password") = pw
  BY <1>8, <1>10 DEF Reads, OwnKeys
<1>13. T = e.tls
  BY <1>2, <1>10, TrojanTlsBack DEF C
<1>14. proxyToEndpoint(q) = clashAnyTLS(q)
  BY <1>11 DEF proxyToEndpoint
<1>15. clashAnyTLS(q) = Endpoint("anytls", S, NoTransport, T)
  <2>1. clashAnyTLS(q) = Endpoint("anytls", {<<"password", Get(q, "password")>>}, NoTransport, T)
    BY Zenon DEF clashAnyTLS
  <2>. QED
    BY <1>11, <2>1
<1>. HIDE DEF S, T
<1>16. proxyToEndpoint(q) = Endpoint("anytls", S, NoTransport, e.tls)
  BY <1>13, <1>14, <1>15
<1>. QED
  BY <1>1, <1>4, <1>9, <1>16, ProxyBack, NoneIsTransport DEF q, f

KeyGiven(t) == t.type = "reality" => t.key # ""

LEMMA VlessProxyBack ==
    ASSUME NEW e, IsVless(e), KeyGiven(e.tls)
    PROVE  Kept(e, clashProxy(e))
<1>. DEFINE f == e.par
            uu == Get(f, "uuid")
            fl == Get(f, "flow")
            A == {<<"type", "vless">>, <<"uuid", uu>>, <<"flow", fl>>}
            B == clashTransportOut(e.transport)
            C == VlessTlsOut(e.tls)
            Q == A \cup B \cup C
            q == Pairs(Q)
            S == {<<"uuid", uu>>, <<"flow", fl>>}
<1>1. Of(e, "vless", VlessKeys)
  BY DEF IsVless
<1>2. e.proto = "vless" /\ IsTransport(e.transport) /\ IsTls(e.tls) /\ DOMAIN f \subseteq VlessKeys
  BY <1>1, ProtoIs DEF Of
<1>4. clashProxy(e) = buildURI("clash", "", "", Q)
  <2>1. clashProxy(e) = buildURI("clash", "", "", clashVLESSOut(e))
    BY <1>2 DEF clashProxy
  <2>2. clashVLESSOut(e) = Q
    BY Zenon DEF clashVLESSOut, VlessTlsOut, RealityOut
  <2>. QED
    BY <2>1, <2>2
<1>5. \A p \in C : p[1] \in ProxyTlsKeys
  BY ProxyTlsOutKeys
<1>6. uu = Get(f, "uuid") /\ fl = Get(f, "flow")
  OBVIOUS
<1>. HIDE DEF f, uu, fl
<1>7. \A p \in A : p[1] \in OwnKeys
  BY DEF OwnKeys
<1>8. Gives(A, "type", "vless") /\ Gives(A, "uuid", uu) /\ Gives(A, "flow", fl)
  BY DEF Gives
<1>9. (\A p \in S : p[1] \in VlessKeys) /\ Back(f, S, ProxyLost, VlessKeys)
  BY <1>2, <1>6 DEF VlessKeys, Back, ProxyLost
<1>. HIDE DEF A, C
<1>10. Reads(q, A, OwnKeys) /\ Reads(q, B, ProxyTransportKeys) /\ Reads(q, C, ProxyTlsKeys)
  BY <1>5, <1>7, ProxyReads
<1>. HIDE DEF Q, q
<1>11. Get(q, "type") = "vless" /\ Get(q, "uuid") = uu /\ Get(q, "flow") = fl
  BY <1>8, <1>10 DEF Reads, OwnKeys
<1>12. DialledBy(clashTransport(q)) = DialledBy(e.transport) /\ IsTransport(clashTransport(q))
  BY <1>2, <1>10, ProxyTransportBack, ProxyTransport
<1>13. ProxyVlessTls(q) = e.tls
  BY <1>2, <1>10, VlessTlsBack DEF C, KeyGiven
<1>14. proxyToEndpoint(q) = clashVLESS(q)
  BY <1>11 DEF proxyToEndpoint
<1>15. clashVLESS(q) = Endpoint("vless", S, clashTransport(q), e.tls)
  <2>1. clashVLESS(q) = Endpoint("vless", {<<"uuid", Get(q, "uuid")>>, <<"flow", Get(q, "flow")>>}, clashTransport(q), ProxyVlessTls(q))
    BY VlessProxyIs
  <2>. QED
    BY <1>11, <1>13, <2>1
<1>. HIDE DEF S
<1>. QED
  BY <1>1, <1>4, <1>9, <1>12, <1>14, <1>15, ProxyBack DEF q, f

LEMMA Hy2ProxyBack == ASSUME NEW e, IsHy2(e) PROVE Kept(e, clashProxy(e))
<1>. DEFINE f == e.par
            pw == Get(f, "password")
            ob == Get(f, "obfs")
            ow == Get(f, "obfs_password")
            hp == Get(f, "hop_ports")
            up == Get(f, "up_mbps")
            dn == Get(f, "down_mbps")
            A == {<<"type", "hysteria2">>, <<"password", pw>>, <<"obfs", ob>>, <<"obfs-password", ow>>, <<"ports", hp>>,
                  <<"up", up>>, <<"down", dn>>}
            C == QuicTlsOut(e.tls)
            Q == A \cup C
            q == Pairs(Q)
            S == {<<"password", pw>>, <<"obfs", ob>>, <<"obfs_password", ow>>, <<"hop_ports", hp>>, <<"up_mbps", up>>, <<"down_mbps", dn>>}
<1>1. Of(e, "hysteria2", Hy2Keys) /\ e.transport = NoTransport /\ IsQuic(e.tls) /\ (ob = "" => ow = "")
  BY DEF IsHy2
<1>2. e.proto = "hysteria2" /\ DOMAIN f \subseteq Hy2Keys
  BY <1>1, ProtoIs DEF Of
<1>4. clashProxy(e) = buildURI("clash", "", "", Q)
  <2>1. clashProxy(e) = buildURI("clash", "", "", clashHysteria2Out(e))
    BY <1>2 DEF clashProxy
  <2>2. clashHysteria2Out(e) = Q
    BY Zenon DEF clashHysteria2Out
  <2>. QED
    BY <2>1, <2>2
<1>5. \A p \in C : p[1] \in ProxyTlsKeys
  BY ProxyTlsOutKeys
<1>6. pw = Get(f, "password") /\ ob = Get(f, "obfs") /\ ow = Get(f, "obfs_password") /\ hp = Get(f, "hop_ports")
      /\ up = Get(f, "up_mbps") /\ dn = Get(f, "down_mbps")
  OBVIOUS
<1>. HIDE DEF f, pw, ob, ow, hp, up, dn
<1>7. \A p \in A : p[1] \in OwnKeys
  BY DEF OwnKeys
<1>8. Gives(A, "type", "hysteria2") /\ Gives(A, "password", pw) /\ Gives(A, "auth", "") /\ Gives(A, "obfs", ob)
  BY DEF Gives
<1>81. Gives(A, "obfs-password", ow) /\ Gives(A, "obfs_password", "") /\ Gives(A, "ports", hp) /\ Gives(A, "mport", "")
  BY DEF Gives
<1>82. Gives(A, "up", up) /\ Gives(A, "down", dn)
  BY DEF Gives
<1>9. (\A p \in S : p[1] \in Hy2Keys) /\ Back(f, S, ProxyLost, Hy2Keys)
  BY <1>2, <1>6 DEF Hy2Keys, Back, ProxyLost
<1>. HIDE DEF A, C
<1>10. Reads(q, A, OwnKeys) /\ Reads(q, C, ProxyTlsKeys)
  BY <1>5, <1>7, QuicReads
<1>. HIDE DEF Q, q
<1>11. Get(q, "type") = "hysteria2" /\ Get(q, "password") = pw /\ Get(q, "auth") = "" /\ Get(q, "obfs") = ob
  BY <1>8, <1>10 DEF Reads, OwnKeys
<1>12. Get(q, "obfs-password") = ow /\ Get(q, "obfs_password") = "" /\ Get(q, "ports") = hp /\ Get(q, "mport") = ""
  BY <1>81, <1>10 DEF Reads, OwnKeys
<1>13. Get(q, "up") = up /\ Get(q, "down") = dn
  BY <1>82, <1>10 DEF Reads, OwnKeys
<1>14. ClashQuicTls(q) = e.tls
  BY <1>1, <1>10, ProxyQuicBack DEF C
<1>15. Spelled(q, <<"password", "auth">>) = pw /\ Spelled(q, <<"obfs-password", "obfs_password">>) = ow /\ Spelled(q, <<"ports", "mport">>) = hp
  <2>1. Or(pw, "") = pw /\ Or(ow, "") = ow /\ Or(hp, "") = hp
    BY OrIs
  <2>. QED
    BY <1>11, <1>12, <2>1, Spelled2
<1>16. proxyToEndpoint(q) = clashHysteria2(q)
  BY <1>11 DEF proxyToEndpoint
<1>17. clashHysteria2(q) = Endpoint("hysteria2", S, NoTransport, e.tls)
  <2>1. clashHysteria2(q) = Endpoint("hysteria2",
          {<<"password", Spelled(q, <<"password", "auth">>)>>, <<"obfs", Get(q, "obfs")>>,
           <<"obfs_password", IF Get(q, "obfs") = "" THEN "" ELSE Spelled(q, <<"obfs-password", "obfs_password">>)>>,
           <<"hop_ports", Spelled(q, <<"ports", "mport">>)>>,
           <<"up_mbps", Get(q, "up")>>, <<"down_mbps", Get(q, "down")>>}, NoTransport, ClashQuicTls(q))
    BY Zenon DEF clashHysteria2
  <2>2. (IF Get(q, "obfs") = "" THEN "" ELSE Spelled(q, <<"obfs-password", "obfs_password">>)) = ow
    BY <1>1, <1>11, <1>15 DEF ob, ow
  <2>. QED
    BY <1>11, <1>13, <1>14, <1>15, <2>1, <2>2
<1>. HIDE DEF S
<1>. QED
  BY <1>1, <1>4, <1>9, <1>16, <1>17, ProxyBack, NoneIsTransport DEF q, f

LEMMA TuicProxyBack == ASSUME NEW e, IsTuic(e) PROVE Kept(e, clashProxy(e))
<1>. DEFINE f == e.par
            uu == Get(f, "uuid")
            pw == Get(f, "password")
            cc == Get(f, "congestion_control")
            ur == Get(f, "udp_relay_mode")
            A == {<<"type", "tuic">>, <<"uuid", uu>>, <<"password", pw>>, <<"congestion-controller", cc>>, <<"udp-relay-mode", ur>>}
            C == QuicTlsOut(e.tls)
            Q == A \cup C
            q == Pairs(Q)
            S == {<<"uuid", uu>>, <<"password", pw>>, <<"congestion_control", cc>>, <<"udp_relay_mode", ur>>}
<1>1. Of(e, "tuic", TuicKeys) /\ e.transport = NoTransport /\ IsQuic(e.tls)
  BY DEF IsTuic
<1>2. e.proto = "tuic" /\ DOMAIN f \subseteq TuicKeys
  BY <1>1, ProtoIs DEF Of
<1>4. clashProxy(e) = buildURI("clash", "", "", Q)
  <2>1. clashProxy(e) = buildURI("clash", "", "", clashTUICOut(e))
    BY <1>2 DEF clashProxy
  <2>2. clashTUICOut(e) = Q
    BY Zenon DEF clashTUICOut
  <2>. QED
    BY <2>1, <2>2
<1>5. \A p \in C : p[1] \in ProxyTlsKeys
  BY ProxyTlsOutKeys
<1>6. uu = Get(f, "uuid") /\ pw = Get(f, "password") /\ cc = Get(f, "congestion_control") /\ ur = Get(f, "udp_relay_mode")
  OBVIOUS
<1>. HIDE DEF f, uu, pw, cc, ur
<1>7. \A p \in A : p[1] \in OwnKeys
  BY DEF OwnKeys
<1>8. Gives(A, "type", "tuic") /\ Gives(A, "uuid", uu) /\ Gives(A, "password", pw)
  BY DEF Gives
<1>81. Gives(A, "congestion-controller", cc) /\ Gives(A, "congestion_control", "") /\ Gives(A, "udp-relay-mode", ur) /\ Gives(A, "udp_relay_mode", "")
  BY DEF Gives
<1>9. (\A p \in S : p[1] \in TuicKeys) /\ Back(f, S, ProxyLost, TuicKeys)
  BY <1>2, <1>6 DEF TuicKeys, Back, ProxyLost
<1>. HIDE DEF A, C
<1>10. Reads(q, A, OwnKeys) /\ Reads(q, C, ProxyTlsKeys)
  BY <1>5, <1>7, QuicReads
<1>. HIDE DEF Q, q
<1>11. Get(q, "type") = "tuic" /\ Get(q, "uuid") = uu /\ Get(q, "password") = pw
  BY <1>8, <1>10 DEF Reads, OwnKeys
<1>12. Get(q, "congestion-controller") = cc /\ Get(q, "congestion_control") = "" /\ Get(q, "udp-relay-mode") = ur /\ Get(q, "udp_relay_mode") = ""
  BY <1>81, <1>10 DEF Reads, OwnKeys
<1>14. ClashQuicTls(q) = e.tls
  BY <1>1, <1>10, ProxyQuicBack DEF C
<1>15. Spelled(q, <<"congestion-controller", "congestion_control">>) = cc /\ Spelled(q, <<"udp-relay-mode", "udp_relay_mode">>) = ur
  <2>1. Or(cc, "") = cc /\ Or(ur, "") = ur
    BY OrIs
  <2>. QED
    BY <1>12, <2>1, Spelled2
<1>16. proxyToEndpoint(q) = clashTUIC(q)
  BY <1>11 DEF proxyToEndpoint
<1>17. clashTUIC(q) = Endpoint("tuic", S, NoTransport, e.tls)
  BY <1>11, <1>14, <1>15 DEF clashTUIC
<1>. HIDE DEF S
<1>. QED
  BY <1>1, <1>4, <1>9, <1>16, <1>17, ProxyBack, NoneIsTransport DEF q, f

AddressOf(a) == a \in {"", "v4", "v6", "v4,v6"}

LEMMA AddressBack ==
    ASSUME NEW a, AddressOf(a), NEW q, Get(q, "ip") = (IF a \in {"v4", "v4,v6"} THEN "v4" ELSE ""),
           Get(q, "ipv6") = (IF a \in {"v6", "v4,v6"} THEN "v6" ELSE "")
    PROVE  Addresses(q) = a
<1>1. FirstNonEmpty(<<Get(q, "ip"), Get(q, "ipv6")>>) = Or(Get(q, "ip"), Get(q, "ipv6"))
  BY FirstOf2
<1>. QED
  BY <1>1 DEF Addresses, Or, AddressOf

LEMMA WgProxyBack == ASSUME NEW e, IsWg(e) PROVE Kept(e, clashProxy(e))
<1>. DEFINE f == e.par
            pr == Get(f, "private_key")
            pk == Get(f, "peer_public_key")
            ps == Get(f, "pre_shared_key")
            ad == Get(f, "local_address")
            i4 == IF ad \in {"v4", "v4,v6"} THEN "v4" ELSE ""
            i6 == IF ad \in {"v6", "v4,v6"} THEN "v6" ELSE ""
            mt == Get(f, "mtu")
            re == Get(f, "reserved")
            Q == {<<"type", "wireguard">>, <<"private-key", pr>>, <<"public-key", pk>>, <<"pre-shared-key", ps>>,
                  <<"ip", i4>>, <<"ipv6", i6>>, <<"mtu", mt>>, <<"reserved", re>>}
            q == Pairs(Q)
            S == {<<"private_key", pr>>, <<"peer_public_key", pk>>, <<"pre_shared_key", ps>>,
                  <<"local_address", ad>>, <<"reserved", re>>, <<"mtu", mt>>}
<1>1. Of(e, "wireguard", WgKeys) /\ e.transport = NoTransport /\ e.tls = PlainText
  BY DEF IsWg
<1>2. e.proto = "wireguard" /\ DOMAIN f \subseteq WgKeys
  BY <1>1, ProtoIs DEF Of
<1>3. AddressOf(ad)
  BY DEF IsWg, AddressOf
<1>4. clashProxy(e) = buildURI("clash", "", "", Q)
  <2>1. clashProxy(e) = buildURI("clash", "", "", clashWireGuardOut(e))
    BY <1>2 DEF clashProxy
  <2>2. clashWireGuardOut(e) = Q
    BY Zenon DEF clashWireGuardOut
  <2>. QED
    BY <2>1, <2>2
<1>6. pr = Get(f, "private_key") /\ pk = Get(f, "peer_public_key") /\ ps = Get(f, "pre_shared_key")
      /\ ad = Get(f, "local_address") /\ mt = Get(f, "mtu") /\ re = Get(f, "reserved")
  OBVIOUS
<1>. HIDE DEF f, pr, pk, ps, ad, i4, i6, mt, re
<1>7. Gives(Q, "type", "wireguard") /\ Gives(Q, "private-key", pr) /\ Gives(Q, "private_key", "")
  BY DEF Gives
<1>8. Gives(Q, "public-key", pk) /\ Gives(Q, "public_key", "")
  BY DEF Gives
<1>81. Gives(Q, "pre-shared-key", ps) /\ Gives(Q, "preshared-key", "") /\ Gives(Q, "pre_shared_key", "")
  BY DEF Gives
<1>82. Gives(Q, "ip", i4) /\ Gives(Q, "ipv6", i6) /\ Gives(Q, "mtu", mt) /\ Gives(Q, "reserved", re)
  BY DEF Gives
<1>9. (\A p \in S : p[1] \in WgKeys) /\ Back(f, S, ProxyLost, WgKeys)
  BY <1>2, <1>6 DEF WgKeys, Back, ProxyLost
<1>. HIDE DEF Q
<1>10. Get(q, "type") = "wireguard" /\ Get(q, "private-key") = pr /\ Get(q, "private_key") = "" /\ Get(q, "public-key") = pk /\ Get(q, "public_key") = ""
  BY <1>7, <1>8, GetIs
<1>11. Get(q, "pre-shared-key") = ps /\ Get(q, "preshared-key") = "" /\ Get(q, "pre_shared_key") = ""
  BY <1>81, GetIs
<1>12. Get(q, "ip") = i4 /\ Get(q, "ipv6") = i6 /\ Get(q, "mtu") = mt /\ Get(q, "reserved") = re
  BY <1>82, GetIs
<1>. HIDE DEF q
<1>13. Addresses(q) = ad
  BY <1>3, <1>12, AddressBack DEF i4, i6
<1>15. Spelled(q, <<"private-key", "private_key">>) = pr /\ Spelled(q, <<"public-key", "public_key">>) = pk
       /\ Spelled(q, <<"pre-shared-key", "preshared-key", "pre_shared_key">>) = ps
  <2>1. Or(pr, "") = pr /\ Or(pk, "") = pk /\ Or(ps, Or("", "")) = ps
    BY OrMore
  <2>2. Spelled(q, <<"private-key", "private_key">>) = Or(Get(q, "private-key"), Get(q, "private_key"))
    BY Spelled2
  <2>3. Spelled(q, <<"public-key", "public_key">>) = Or(Get(q, "public-key"), Get(q, "public_key"))
    BY Spelled2
  <2>4. Spelled(q, <<"pre-shared-key", "preshared-key", "pre_shared_key">>) =
            Or(Get(q, "pre-shared-key"), Or(Get(q, "preshared-key"), Get(q, "pre_shared_key")))
    BY Spelled3
  <2>. QED
    BY <1>10, <1>11, <2>1, <2>2, <2>3, <2>4
<1>16. proxyToEndpoint(q) = clashWireGuard(q)
  BY <1>10 DEF proxyToEndpoint
<1>17. clashWireGuard(q) = Endpoint("wireguard", S, NoTransport, e.tls)
  <2>1. clashWireGuard(q) = Endpoint("wireguard", S, NoTransport, PlainText)
    BY <1>12, <1>13, <1>15 DEF clashWireGuard
  <2>. QED
    BY <1>1, <2>1
<1>. HIDE DEF S
<1>. QED
  BY <1>1, <1>4, <1>9, <1>16, <1>17, ProxyBack, NoneIsTransport DEF q, f

(* The options of a plugin, as a clash proxy names them. *)
SsKey(k) ==
    CASE k = "opt.obfs" -> "plugin-opts.mode" [] k = "opt.obfs-host" -> "plugin-opts.host"
      [] k = "opt.mode" -> "plugin-opts.mode" [] k = "opt.host" -> "plugin-opts.host"
      [] k = "opt.path" -> "plugin-opts.path" [] k = "opt.tls" -> "plugin-opts.tls"
      [] k = "opt.mux" -> "plugin-opts.mux"
SsOptions(f) == {<<SsKey(k), f[k]>> : k \in PluginOpts \cap DOMAIN f}
SsOptKeys == {"plugin-opts.mode", "plugin-opts.host", "plugin-opts.path", "plugin-opts.tls", "plugin-opts.mux"}
SsRestKeys ==
    {"type", "cipher", "password", "udp-over-tcp", "udp_over_tcp", "plugin",
     "plugin_opts.mode", "plugin_opts.host", "plugin_opts.path", "plugin_opts.tls"}

LEMMA SsKeyIs ==
    /\ SsKey("opt.obfs") = "plugin-opts.mode" /\ SsKey("opt.obfs-host") = "plugin-opts.host"
    /\ SsKey("opt.mode") = "plugin-opts.mode" /\ SsKey("opt.host") = "plugin-opts.host"
    /\ SsKey("opt.path") = "plugin-opts.path" /\ SsKey("opt.tls") = "plugin-opts.tls" /\ SsKey("opt.mux") = "plugin-opts.mux"
  BY DEF SsKey

LEMMA SsKeyIn == \A k \in PluginOpts : SsKey(k) \in SsOptKeys
  BY SsKeyIs DEF PluginOpts, SsOptKeys

LEMMA OptsIn == ASSUME NEW pl PROVE OptsOf(pl) \subseteq PluginOpts
  BY DEF OptsOf, PluginOpts

LEMMA SsKeyOnce == ASSUME NEW pl, NEW j \in OptsOf(pl), NEW k \in OptsOf(pl), SsKey(j) = SsKey(k) PROVE j = k
<1>1. CASE pl = "obfs-local"
  <2>1. OptsOf(pl) = {"opt.obfs", "opt.obfs-host"}
    BY <1>1 DEF OptsOf
  <2>. QED
    BY <2>1, SsKeyIs
<1>2. CASE pl = "v2ray-plugin"
  <2>1. OptsOf(pl) = {"opt.mode", "opt.host", "opt.path", "opt.tls", "opt.mux"}
    BY <1>2 DEF OptsOf
  <2>. QED
    BY <2>1, SsKeyIs
<1>3. CASE pl # "obfs-local" /\ pl # "v2ray-plugin"
  BY <1>3 DEF OptsOf
<1>. QED
  BY <1>1, <1>2, <1>3

LEMMA SsOptionsGive ==
    ASSUME NEW f, Clean(f), NEW pl, PluginOpts \cap DOMAIN f \subseteq OptsOf(pl), NEW k \in OptsOf(pl)
    PROVE  Gives(SsOptions(f), SsKey(k), Get(f, k))
<1>. DEFINE D == SsOptions(f)
            O == PluginOpts \cap DOMAIN f
<1>1. \A p \in D : \E j \in O : p[1] = SsKey(j) /\ p[2] = f[j]
  BY DEF SsOptions
<1>2. \A j \in O : <<SsKey(j), f[j]>> \in D
  BY DEF SsOptions
<1>3. k \in PluginOpts
  BY OptsIn
<1>. HIDE DEF D
<1>4. ASSUME NEW p \in D, p[1] = SsKey(k) PROVE k \in DOMAIN f /\ p[2] = f[k]
  <2>1. PICK j \in O : p[1] = SsKey(j) /\ p[2] = f[j]
    BY <1>1
  <2>2. j = k
    BY <1>4, <2>1, SsKeyOnce
  <2>. QED
    BY <2>1, <2>2
<1>5. Gives(D, SsKey(k), Get(f, k))
  <2>1. CASE k \in DOMAIN f
    BY <1>2, <1>3, <1>4, <2>1 DEF Gives, Get
  <2>2. CASE k \notin DOMAIN f
    BY <1>4, <2>2 DEF Gives, Get
  <2>. QED
    BY <2>1, <2>2
<1>. QED
  BY <1>5 DEF D

(* A shadowsocks proxy, key by key. *)
SsName(pl) == IF pl = "obfs-local" THEN "obfs" ELSE pl
SsRead(q, f) ==
    /\ Get(q, "type") = "ss" /\ Get(q, "cipher") = Get(f, "method") /\ Get(q, "password") = Get(f, "password")
    /\ Get(q, "udp-over-tcp") = Get(f, "udp_over_tcp") /\ Get(q, "udp_over_tcp") = ""
    /\ Get(q, "plugin") = SsName(Get(f, "plugin"))
    /\ Get(q, "plugin_opts.mode") = "" /\ Get(q, "plugin_opts.host") = "" /\ Get(q, "plugin_opts.path") = "" /\ Get(q, "plugin_opts.tls") = ""
    /\ \A k \in OptsOf(Get(f, "plugin")) : Get(q, SsKey(k)) = Get(f, k)

LEMMA SsApart == ASSUME NEW f PROVE \A p \in SsOptions(f) : p[1] \in SsOptKeys /\ p[1] \notin SsRestKeys
<1>1. \A k \in SsOptKeys : k \notin SsRestKeys
  BY DEF SsOptKeys, SsRestKeys
<1>. QED
  BY <1>1, SsKeyIn DEF SsOptions

LEMMA SsWritten ==
    ASSUME NEW e, IsSs(e)
    PROVE  \E Q : clashProxy(e) = buildURI("clash", "", "", Q) /\ SsRead(Pairs(Q), e.par)
<1>. DEFINE f == e.par
            me == Get(f, "method")
            pw == Get(f, "password")
            pl == Get(f, "plugin")
            uo == Get(f, "udp_over_tcp")
            nm == SsName(pl)
            D == SsOptions(f)
            A == {<<"type", "ss">>, <<"cipher", me>>, <<"password", pw>>, <<"udp-over-tcp", uo>>}
            N == {<<"plugin", nm>>}
            B == IF pl = "" THEN {} ELSE N \cup D
            Q == A \cup B
            q == Pairs(Q)
<1>1. Of(e, "shadowsocks", SsKeys) /\ uo \in {"", "1"} /\ PluginOpts \cap DOMAIN f \subseteq OptsOf(pl)
  BY DEF IsSs
<1>2. e.proto = "shadowsocks" /\ Clean(f)
  BY <1>1, ProtoIs DEF Of
<1>3. ssPluginToClash(e) = N \cup D
  BY DEF ssPluginToClash, SsOptions, SsKey, SsName
<1>4. Flag(f, "udp_over_tcp") = uo
  BY <1>1, <1>2, FlagIs
<1>5. clashProxy(e) = buildURI("clash", "", "", Q)
  <2>1. clashProxy(e) = buildURI("clash", "", "", clashSS(e))
    BY <1>2 DEF clashProxy
  <2>2. clashSS(e) = {<<"type", "ss">>, <<"cipher", me>>, <<"password", pw>>, <<"udp-over-tcp", Flag(f, "udp_over_tcp")>>} \cup
                     (IF pl = "" THEN {} ELSE ssPluginToClash(e))
    BY Zenon DEF clashSS
  <2>3. clashSS(e) = Q
    BY <1>3, <1>4, <2>2
  <2>. QED
    BY <2>1, <2>3
<1>6. \A p \in D : p[1] \in SsOptKeys /\ p[1] \notin SsRestKeys
  BY SsApart
<1>7. \A k \in OptsOf(pl) : Gives(D, SsKey(k), Get(f, k)) /\ SsKey(k) \in SsOptKeys
  BY <1>1, <1>2, SsOptionsGive, SsKeyIn, OptsIn
<1>8. pl = "" => nm = "" /\ OptsOf(pl) = {}
  BY DEF SsName, OptsOf
<1>. HIDE DEF f, me, pw, pl, uo, nm, D
<1>9. Gives(A \cup N, "type", "ss") /\ Gives(A \cup N, "cipher", me) /\ Gives(A \cup N, "password", pw)
  BY DEF Gives
<1>10. Gives(A \cup N, "udp-over-tcp", uo) /\ Gives(A \cup N, "udp_over_tcp", "") /\ Gives(A \cup N, "plugin", nm)
  BY DEF Gives
<1>11. Gives(A \cup N, "plugin_opts.mode", "") /\ Gives(A \cup N, "plugin_opts.host", "")
  BY DEF Gives
<1>12. Gives(A \cup N, "plugin_opts.path", "") /\ Gives(A \cup N, "plugin_opts.tls", "")
  BY DEF Gives
<1>13. \A p \in A : p[1] \in SsRestKeys
  BY DEF SsRestKeys
<1>14. \A p \in N : p[1] \in SsRestKeys /\ p[2] = nm
  BY DEF SsRestKeys
<1>15. \A k \in SsOptKeys : k \notin SsRestKeys
  BY DEF SsOptKeys, SsRestKeys
<1>. HIDE DEF A, N
<1>16. ASSUME NEW k \in SsRestKeys, NEW v, Gives(A \cup N, k, v) PROVE Gives(Q, k, v)
  <2>1. CASE pl = ""
    <3>1. Q = A
      BY <2>1
    <3>2. v = "" \/ <<k, v>> \notin N
      <4>1. <<k, v>>[2] = v
        OBVIOUS
      <4>. QED
        BY <1>8, <1>14, <2>1, <4>1
    <3>. QED
      BY <1>16, <3>1, <3>2 DEF Gives
  <2>2. CASE pl # ""
    <3>1. Q = (A \cup N) \cup D
      BY <2>2
    <3>2. Silent(D, k)
      BY <1>6 DEF Silent
    <3>. QED
      BY <1>16, <3>1, <3>2, GivesMore
  <2>. QED
    BY <2>1, <2>2
<1>17. ASSUME NEW k \in OptsOf(pl) PROVE Gives(Q, SsKey(k), Get(f, k))
  <2>1. pl # ""
    BY <1>8
  <2>2. Q = (A \cup N) \cup D
    BY <2>1
  <2>3. Silent(A \cup N, SsKey(k))
    BY <1>7, <1>13, <1>14, <1>15 DEF Silent
  <2>. QED
    BY <1>7, <2>2, <2>3, GivesMore
<1>. HIDE DEF Q
<1>18. \A k \in SsRestKeys : \A v : Gives(A \cup N, k, v) => Get(q, k) = v
  BY <1>16, GetIs
<1>19. \A k \in OptsOf(pl) : Get(q, SsKey(k)) = Get(f, k)
  BY <1>17, GetIs
<1>. HIDE DEF q
<1>20. Get(q, "type") = "ss" /\ Get(q, "cipher") = me /\ Get(q, "password") = pw
  BY <1>9, <1>18 DEF SsRestKeys
<1>21. Get(q, "udp-over-tcp") = uo /\ Get(q, "udp_over_tcp") = "" /\ Get(q, "plugin") = nm
  BY <1>10, <1>18 DEF SsRestKeys
<1>22. Get(q, "plugin_opts.mode") = "" /\ Get(q, "plugin_opts.host") = ""
  BY <1>11, <1>18 DEF SsRestKeys
<1>23. Get(q, "plugin_opts.path") = "" /\ Get(q, "plugin_opts.tls") = ""
  BY <1>12, <1>18 DEF SsRestKeys
<1>24. SsRead(q, f)
  BY <1>19, <1>20, <1>21, <1>22, <1>23, Zenon DEF SsRead, me, pw, uo, nm, pl
<1>. QED
  BY <1>5, <1>24 DEF q, f

SsBase == {"method", "password", "plugin", "udp_over_tcp"}

LEMMA SsOpts ==
    ASSUME NEW e, IsSs(e)
    PROVE  Of(e, "shadowsocks", SsBase \cup OptsOf(Get(e.par, "plugin")))
<1>1. Of(e, "shadowsocks", SsKeys) /\ PluginOpts \cap DOMAIN e.par \subseteq OptsOf(Get(e.par, "plugin"))
  BY DEF IsSs
<1>2. DOMAIN e.par \subseteq SsBase \cup OptsOf(Get(e.par, "plugin"))
  BY <1>1 DEF Of, SsKeys, SsBase
<1>. QED
  BY <1>1, <1>2 DEF Of

(* What comes back of the plugin. *)
SsFits(f) == Get(f, "opt.tls") \in {"", "1"} /\ Get(f, "plugin") \notin {"obfs", "simple-obfs"}

LEMMA SsPluginBack ==
    ASSUME NEW q, NEW f, SsRead(q, f), SsFits(f)
    PROVE  /\ \A p \in clashSSPlugin(q) : p[1] \in {"plugin"} \cup (OptsOf(Get(f, "plugin")) \ {"opt.mux"}) /\ p[2] = Get(f, p[1])
           /\ \A k \in {"plugin"} \cup (OptsOf(Get(f, "plugin")) \ {"opt.mux"}) : <<k, Get(f, k)>> \in clashSSPlugin(q)
<1>. DEFINE pl == Get(f, "plugin")
            P == clashSSPlugin(q)
            K == {"plugin"} \cup (OptsOf(pl) \ {"opt.mux"})
<1>1. Get(q, "plugin") = SsName(pl) /\ \A k \in OptsOf(pl) : Get(q, SsKey(k)) = Get(f, k)
  BY DEF SsRead
<1>2. /\ SsMode(q) = Or(Get(q, "plugin-opts.mode"), Get(q, "plugin_opts.mode"))
      /\ SsHost(q) = Or(Get(q, "plugin-opts.host"), Get(q, "plugin_opts.host"))
      /\ SsPath(q) = Or(Get(q, "plugin-opts.path"), Get(q, "plugin_opts.path"))
      /\ SsTls(q) = Bit(truthy(Or(Get(q, "plugin-opts.tls"), Get(q, "plugin_opts.tls"))))
  BY Spelled2 DEF SsMode, SsHost, SsPath, SsTls
<1>3. Get(q, "plugin_opts.mode") = "" /\ Get(q, "plugin_opts.host") = "" /\ Get(q, "plugin_opts.path") = "" /\ Get(q, "plugin_opts.tls") = ""
  BY DEF SsRead
<1>4. /\ SsMode(q) = Get(q, "plugin-opts.mode") /\ SsHost(q) = Get(q, "plugin-opts.host") /\ SsPath(q) = Get(q, "plugin-opts.path")
      /\ SsTls(q) = Bit(truthy(Get(q, "plugin-opts.tls")))
  <2>1. \A a : Or(a, "") = a
    BY OrIs
  <2>. QED
    BY <1>2, <1>3, <2>1, Zenon
<1>5. CASE pl = "obfs-local"
  <2>1. OptsOf(pl) = {"opt.obfs", "opt.obfs-host"} /\ Get(q, "plugin") = "obfs"
    BY <1>1, <1>5 DEF OptsOf, SsName
  <2>2. SsMode(q) = Get(f, "opt.obfs") /\ SsHost(q) = Get(f, "opt.obfs-host")
    BY <1>1, <1>4, <2>1, SsKeyIs
  <2>3. P = {<<"plugin", pl>>, <<"opt.obfs", Get(f, "opt.obfs")>>, <<"opt.obfs-host", Get(f, "opt.obfs-host")>>}
    BY <1>5, <2>1, <2>2, SsPluginIs
  <2>4. K = {"plugin", "opt.obfs", "opt.obfs-host"}
    BY <2>1
  <2>5. (\A p \in P : p[1] \in K /\ p[2] = Get(f, p[1])) /\ \A k \in K : <<k, Get(f, k)>> \in P
    <3>. DEFINE a == Get(f, "opt.obfs")
                b == Get(f, "opt.obfs-host")
    <3>1. P = {<<"plugin", pl>>, <<"opt.obfs", a>>, <<"opt.obfs-host", b>>} /\ pl = Get(f, "plugin")
      BY <2>3
    <3>2. a = Get(f, "opt.obfs") /\ b = Get(f, "opt.obfs-host")
      OBVIOUS
    <3>. HIDE DEF a, b, pl, P, K
    <3>. QED
      BY <2>4, <3>1, <3>2
  <2>. QED
    BY <2>5
<1>6. CASE pl = "v2ray-plugin"
  <2>1. OptsOf(pl) = {"opt.mode", "opt.host", "opt.path", "opt.tls", "opt.mux"} /\ Get(q, "plugin") = "v2ray-plugin"
    BY <1>1, <1>6 DEF OptsOf, SsName
  <2>2. SsMode(q) = Get(f, "opt.mode") /\ SsHost(q) = Get(f, "opt.host") /\ SsPath(q) = Get(f, "opt.path")
    BY <1>1, <1>4, <2>1, SsKeyIs
  <2>3. SsTls(q) = Get(f, "opt.tls")
    <3>1. Bit(truthy("")) = "" /\ Bit(truthy("1")) = "1"
      BY DEF Bit, truthy
    <3>2. Get(q, "plugin-opts.tls") = Get(f, "opt.tls")
      BY <1>1, <2>1, SsKeyIs
    <3>. QED
      BY <1>4, <3>1, <3>2 DEF SsFits
  <2>4. P = {<<"plugin", pl>>, <<"opt.mode", Get(f, "opt.mode")>>, <<"opt.host", Get(f, "opt.host")>>,
             <<"opt.path", Get(f, "opt.path")>>, <<"opt.tls", Get(f, "opt.tls")>>}
    BY <1>6, <2>1, <2>2, <2>3, SsPluginIs
  <2>5. K = {"plugin", "opt.mode", "opt.host", "opt.path", "opt.tls"}
    BY <2>1
  <2>6. (\A p \in P : p[1] \in K /\ p[2] = Get(f, p[1])) /\ \A k \in K : <<k, Get(f, k)>> \in P
    <3>. DEFINE a == Get(f, "opt.mode")
                b == Get(f, "opt.host")
                c == Get(f, "opt.path")
                d == Get(f, "opt.tls")
    <3>1. P = {<<"plugin", pl>>, <<"opt.mode", a>>, <<"opt.host", b>>, <<"opt.path", c>>, <<"opt.tls", d>>} /\ pl = Get(f, "plugin")
      BY <2>4
    <3>2. a = Get(f, "opt.mode") /\ b = Get(f, "opt.host") /\ c = Get(f, "opt.path") /\ d = Get(f, "opt.tls")
      OBVIOUS
    <3>. HIDE DEF a, b, c, d, pl, P, K
    <3>. QED
      BY <2>5, <3>1, <3>2
  <2>. QED
    BY <2>6
<1>7. CASE pl # "obfs-local" /\ pl # "v2ray-plugin"
  <2>1. OptsOf(pl) = {} /\ Get(q, "plugin") = pl
    BY <1>1, <1>7 DEF OptsOf, SsName
  <2>2. P = {<<"plugin", pl>>}
    BY <1>7, <2>1, SsPluginIs DEF SsFits
  <2>3. K = {"plugin"}
    BY <2>1
  <2>4. pl = Get(f, "plugin")
    OBVIOUS
  <2>5. (\A p \in P : p[1] \in K /\ p[2] = Get(f, p[1])) /\ \A k \in K : <<k, Get(f, k)>> \in P
    <3>. HIDE DEF pl, P, K
    <3>. QED
      BY <2>2, <2>3, <2>4
  <2>. QED
    BY <2>5
<1>. QED
  BY <1>5, <1>6, <1>7

LEMMA SsProxyBack == ASSUME NEW e, IsSs(e) PROVE Kept(e, clashProxy(e))
<1>. DEFINE f == e.par
            pl == Get(f, "plugin")
            K == SsBase \cup OptsOf(pl)
            me == Get(f, "method")
            pw == Get(f, "password")
            uo == Get(f, "udp_over_tcp")
            S1 == {<<"method", me>>, <<"password", pw>>, <<"udp_over_tcp", uo>>}
            O == {"plugin"} \cup (OptsOf(pl) \ {"opt.mux"})
<1>1. Of(e, "shadowsocks", K) /\ e.transport = NoTransport /\ e.tls = PlainText
  BY SsOpts DEF IsSs
<1>2. uo \in {"", "1"} /\ Get(f, "opt.tls") \in {"", "1"} /\ pl \notin {"obfs", "simple-obfs"}
  BY DEF IsSs
<1>3. DOMAIN f \subseteq K
  BY <1>1 DEF Of
<1>4. me = Get(f, "method") /\ pw = Get(f, "password") /\ uo = Get(f, "udp_over_tcp")
  OBVIOUS
<1>5. \A k \in OptsOf(pl) : k \notin SsBase /\ (k \in ProxyLost => k = "opt.mux")
  <2>1. \A k \in PluginOpts : k \notin SsBase /\ (k \in ProxyLost => k = "opt.mux")
    BY DEF PluginOpts, SsBase, ProxyLost
  <2>. QED
    BY <2>1, OptsIn
<1>6. \A k \in SsBase : k \notin ProxyLost
  BY DEF SsBase, ProxyLost
<1>. HIDE DEF f, pl, me, pw, uo
<1>7. \A p \in S1 : p[1] \in SsBase /\ p[2] = Get(f, p[1])
  BY <1>4 DEF SsBase
<1>8. \A k \in SsBase : k = "plugin" \/ <<k, Get(f, k)>> \in S1
  BY <1>4 DEF SsBase
<1>9. "opt.mux" \in ProxyLost /\ "plugin" \in SsBase
  BY DEF ProxyLost, SsBase
<1>10. PICK Q : clashProxy(e) = buildURI("clash", "", "", Q) /\ SsRead(Pairs(Q), f)
  BY SsWritten DEF f
<1>. DEFINE q == Pairs(Q)
            P == clashSSPlugin(q)
            S == S1 \cup P
<1>. HIDE DEF q
<1>11. SsRead(q, f)
  BY <1>10 DEF q
<1>12. (\A p \in P : p[1] \in O /\ p[2] = Get(f, p[1])) /\ \A k \in O : <<k, Get(f, k)>> \in P
  BY <1>2, <1>11, SsPluginBack DEF pl, SsFits
<1>13. Get(q, "type") = "ss" /\ Get(q, "cipher") = me /\ Get(q, "password") = pw /\ Get(q, "udp-over-tcp") = uo /\ Get(q, "udp_over_tcp") = ""
  BY <1>11 DEF SsRead, me, pw, uo
<1>14. Bit(truthy(Get(q, "udp-over-tcp")) \/ truthy(Get(q, "udp_over_tcp"))) = uo
  BY <1>2, <1>13 DEF Bit, truthy
<1>15. proxyToEndpoint(q) = clashShadowsocks(q)
  BY <1>13 DEF proxyToEndpoint
<1>16. clashShadowsocks(q) = Endpoint("shadowsocks", S, NoTransport, e.tls)
  <2>1. clashShadowsocks(q) = Endpoint("shadowsocks",
          {<<"method", Get(q, "cipher")>>, <<"password", Get(q, "password")>>,
           <<"udp_over_tcp", Bit(truthy(Get(q, "udp-over-tcp")) \/ truthy(Get(q, "udp_over_tcp")))>>} \cup P, NoTransport, PlainText)
    BY Zenon DEF clashShadowsocks
  <2>. QED
    BY <1>1, <1>13, <1>14, <2>1
<1>. HIDE DEF S1, P
<1>17. \A p \in S : p[1] \in K /\ p[1] \notin ProxyLost /\ p[2] = Get(f, p[1])
  BY <1>5, <1>6, <1>7, <1>9, <1>12
<1>18. \A k \in K \ ProxyLost : <<k, Get(f, k)>> \in S
  BY <1>5, <1>8, <1>9, <1>12
<1>. HIDE DEF S, K
<1>19. Back(f, S, ProxyLost, K)
  BY <1>3, <1>17, <1>18 DEF Back
<1>20. \A p \in S : p[1] \in K
  BY <1>17
<1>. QED
  BY <1>1, <1>10, <1>15, <1>16, <1>19, <1>20, ProxyBack, NoneIsTransport DEF q, f

-----------------------------------------------------------------------------
LEMMA PlainOff == ~PlainText.on
  BY DEF PlainText

LEMMA NeedsTls == ASSUME NEW e, NEW x, Sharable(e, x), e.proto \in {"trojan", "anytls"} PROVE e.tls # PlainText
<1>1. e.tls.on
  BY Zenon DEF Sharable
<1>. QED
  BY <1>1, PlainOff, Zenon

(* Whatever Export and clashProxy write for an endpoint that can be shared  *)
(* is the endpoint again.                                                   *)
LEMMA LinkBack == ASSUME NEW e, Known(e), Sharable(e, Export(e)) PROVE Kept(e, Export(e))
<1>1. CASE IsVless(e)
  <2>1. e.proto = "vless"  BY <1>1, ProtoIs DEF IsVless
  <2>2. Export(e) = vlessLink(e)  BY <2>1 DEF Export
  <2>. QED  BY <1>1, <2>2, VlessLinkBack
<1>2. CASE IsTrojan(e)
  <2>1. e.proto = "trojan"  BY <1>2, ProtoIs DEF IsTrojan
  <2>2. Export(e) = trojanLink(e)  BY <2>1 DEF Export
  <2>3. e.tls # PlainText  BY <2>1, NeedsTls
  <2>. QED  BY <1>2, <2>2, <2>3, TrojanLinkBack
<1>3. CASE IsAnyTLS(e)
  <2>1. e.proto = "anytls"  BY <1>3, ProtoIs DEF IsAnyTLS
  <2>2. Export(e) = anytlsLink(e)  BY <2>1 DEF Export
  <2>3. e.tls # PlainText  BY <2>1, NeedsTls
  <2>. QED  BY <1>3, <2>2, <2>3, AnyTLSLinkBack
<1>4. CASE IsHy2(e)
  <2>1. e.proto = "hysteria2"  BY <1>4, ProtoIs DEF IsHy2
  <2>2. Export(e) = hysteria2Link(e)  BY <2>1 DEF Export
  <2>. QED  BY <1>4, <2>2, Hy2LinkBack
<1>5. CASE IsTuic(e)
  <2>1. e.proto = "tuic"  BY <1>5, ProtoIs DEF IsTuic
  <2>2. Export(e) = tuicLink(e)  BY <2>1 DEF Export
  <2>. QED  BY <1>5, <2>2, TuicLinkBack
<1>6. CASE IsVMess(e)
  <2>1. e.proto = "vmess"  BY <1>6, ProtoIs DEF IsVMess
  <2>2. Export(e) = vmessLink(e)  BY <2>1 DEF Export
  <2>. QED  BY <1>6, <2>2, VMessLinkBack
<1>7. CASE IsSs(e)
  <2>1. e.proto = "shadowsocks"  BY <1>7, ProtoIs DEF IsSs
  <2>2. Export(e) = ssLink(e)  BY <2>1 DEF Export
  <2>. QED  BY <1>7, <2>2, SsLinkBack
<1>8. CASE IsWg(e)
  <2>1. e.proto = "wireguard"  BY <1>8, ProtoIs DEF IsWg
  <2>2. Export(e) = plainWGConf(e)  BY <2>1 DEF Export
  <2>. QED  BY <1>8, <2>2, WgConfBack
<1>. QED
  BY <1>1, <1>2, <1>3, <1>4, <1>5, <1>6, <1>7, <1>8 DEF Known

LEMMA ClashBack == ASSUME NEW e, Known(e), Sharable(e, clashProxy(e)) PROVE Kept(e, clashProxy(e))
<1>0. clashProxy(e).scheme = "clash"
  BY DEF clashProxy, buildURI
<1>1. CASE IsVless(e)
  <2>1. KeyGiven(e.tls)  BY <1>0 DEF Sharable, KeyGiven
  <2>. QED  BY <1>1, <2>1, VlessProxyBack
<1>2. CASE IsTrojan(e)
  <2>1. e.proto = "trojan"  BY <1>2, ProtoIs DEF IsTrojan
  <2>2. e.tls # PlainText  BY <2>1, NeedsTls
  <2>3. e.tls.type # "reality"  BY <1>0, <2>1 DEF Sharable
  <2>. QED  BY <1>2, <2>2, <2>3, TrojanProxyBack
<1>3. CASE IsAnyTLS(e)
  <2>1. e.proto = "anytls"  BY <1>3, ProtoIs DEF IsAnyTLS
  <2>2. e.tls # PlainText  BY <2>1, NeedsTls
  <2>3. e.tls.type # "reality"  BY <1>0, <2>1 DEF Sharable
  <2>. QED  BY <1>3, <2>2, <2>3, AnyTLSProxyBack
<1>. QED
  BY <1>1, <1>2, <1>3, Hy2ProxyBack, TuicProxyBack, VMessProxyBack, SsProxyBack, WgProxyBack DEF Known

LEMMA NothingKnown == ~Known(NoEp)
<1>1. NoEp.proto = ""
  BY DEF NoEp
<1>. HIDE DEF NoEp
<1>2. \A proto, K : Of(NoEp, proto, K) => proto = ""
  BY <1>1, ProtoIs
<1>. QED
  BY <1>2 DEF Known, IsVless, IsTrojan, IsAnyTLS, IsHy2, IsTuic, IsVMess, IsSs, IsWg

(* What the panels hold: a sort of endpoint that is known, a text of that   *)
(* endpoint, and what the text is imported as.                              *)
ShareInv ==
    /\ given \in Texts
    /\ stored = NoEp \/ Known(stored)
    /\ shared = NoText \/ (Known(stored) /\ shared \in {Export(stored), clashProxy(stored)})
    /\ again = NoEp \/ (shared # NoText /\ again = Import(shared))

(* The exporter inverts the importer (RoundTrip): whatever text a client or *)
(* provider writes, in whatever spelling, the endpoint made of it dials the *)
(* same after it was handed on as a link, a .conf or a clash proxy and      *)
(* imported again, but for the keys the format loses.                       *)
THEOREM SharedComesBack == ShareSpec => []RoundTrip
<1>1. ShareInit => ShareInv
  BY DEF ShareInit, ShareInv
<1>2. ShareInv /\ [ShareNext]_shareVars => ShareInv'
  <2>. SUFFICES ASSUME ShareInv, [ShareNext]_shareVars PROVE ShareInv'
    OBVIOUS
  <2>1. CASE Receive
    <3>1. Known(stored')
      BY <2>1, ImportIs DEF Receive, ShareInv
    <3>2. shared = NoText
      BY <2>1, NothingKnown DEF Receive, ShareInv
    <3>. QED
      BY <2>1, <3>1, <3>2 DEF Receive, ShareInv
  <2>2. ASSUME NEW text \in {Export(stored), clashProxy(stored)}, HandOn(text) PROVE ShareInv'
    BY <2>2 DEF HandOn, ShareInv
  <2>3. CASE ReceiveAgain
    BY <2>3 DEF ReceiveAgain, ShareInv
  <2>4. CASE UNCHANGED shareVars
    BY <2>4 DEF shareVars, ShareInv
  <2>. QED
    BY <2>1, <2>2, <2>3, <2>4 DEF ShareNext
<1>3. ShareInv => RoundTrip
  <2>. SUFFICES ASSUME ShareInv, again # NoEp, Sharable(stored, shared) PROVE Kept(stored, shared) /\ again = Import(shared)
    BY Zenon DEF RoundTrip, Kept
  <2>1. again = Import(shared) /\ Known(stored) /\ shared \in {Export(stored), clashProxy(stored)}
    BY DEF ShareInv
  <2>2. Kept(stored, shared)
    BY <2>1, LinkBack, ClashBack
  <2>. QED
    BY <2>1, <2>2
<1>. QED
  BY <1>1, <1>2, <1>3, PTL DEF ShareSpec
=============================================================================
