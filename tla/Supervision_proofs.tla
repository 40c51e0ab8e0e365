------------------------- MODULE Supervision_proofs -------------------------
(***************************************************************************)
(* Proofs about the core and its watchdog.  SingBox, for any set of        *)
(* callers, any number of process slots and of failing spawns: type        *)
(* correctness, and that the core is what the last order asked for.        *)
(* Watchdog, for every interval and every backoff range: a core that       *)
(* should be up is tried again in time.                                    *)
(***************************************************************************)
EXTENDS SingBox, Watchdog, TLAPS

Drains == {"signal", "wait", "kill", "drain"}       \* Stop holds a process
Taken  == Drains \cup {"stopped", "restart", "reassert"}  \* Stop has taken cmd away

(* Where a call is, what it wants and which process it holds. *)
CallShape(a) ==
    /\ call[a].pc \in Drains => call[a].p \in Procs
    /\ call[a].pc = "stopped" => call[a].p = Nil \/ proc[call[a].p] = "reaped"
    /\ call[a].pc \notin Drains \cup {"stopped"} => call[a].p = Nil
    /\ call[a].pc \in {"look", "restart", "reassert"} => call[a].goal \in {"bring", "refresh"}
    /\ call[a].pc = "start" => call[a].goal = "bring"
    /\ Busy(a) => call[a].goal \in Goals(a)
    /\ a \in Locking => (Busy(a) <=> applyMu = a)
    /\ a \in Outside /\ Busy(a) => wd = "halted"

(* A running process is known to the supervisor or to a Stop that drains it. *)
NoneLost == \A p \in Live : p = cmd \/ \E a \in Callers : call[a].p = p

(* Orders that do not overlap: between StopTake and the end of the call     *)
(* nobody else starts a core, and what the call owes is fixed.              *)
OrderKept ==
    ~overlap =>
      /\ \A a, b \in Callers : Busy(a) /\ Busy(b) => a = b
      /\ cmd # Nil => desired
      /\ \A a \in Callers :
           /\ call[a].pc \in Taken => cmd = Nil /\ ~desired
           /\ call[a].pc \in Taken /\ call[a].goal = "stop" => intent = "down"
           /\ call[a].pc \in Taken \cup {"stop"} /\ call[a].goal = "refresh" => intent = "up"
           /\ call[a].pc = "reassert" => intent = "up"
      /\ (\A a \in Callers : call[a].pc \notin Taken) => (desired <=> intent = "up")
      /\ exited => cmd = Nil /\ \A a \in Callers : ~Busy(a)

CoreInv ==
    /\ CoreTypeOK
    /\ \A a \in Callers : CallShape(a)
    /\ exited => wd = "halted"
    /\ NoneLost
    /\ OrderKept
-----------------------------------------------------------------------------
LEMMA CallersFact == /\ Callers \subseteq {"apply", "update", "main"}
                     /\ Nil \notin Procs /\ \A a \in Callers : a # Nil
                     /\ MaxFails \in Nat
  BY SingBoxAssumption DEF AllCallers

LEMMA CoreInitInv == CoreInit => CoreInv
<1> SUFFICES ASSUME CoreInit
             PROVE  CoreInv
  OBVIOUS
<1> USE CallersFact DEF CoreInit, AtRest
<1>1. CoreTypeOK
  <2>1. proc \in [Procs -> {"up", "term", "dead", "reaped"}] /\ cmd \in Procs \cup {Nil}
    OBVIOUS
  <2>2. /\ desired \in BOOLEAN /\ intent \in {"up", "down"}
        /\ overlap \in BOOLEAN /\ exited \in BOOLEAN
    BY Zenon
  <2>3. call \in [Callers ->
           [pc : {"idle", "look", "stop", "signal", "wait", "kill", "drain", "stopped",
                  "start", "restart", "reassert", "gone"},
            goal : {"none", "bring", "stop", "refresh"},
            p : Procs \cup {Nil}]]
    OBVIOUS
  <2>. QED
    BY <2>1, <2>2, <2>3 DEF CoreTypeOK
<1>2. \A a \in Callers : CallShape(a)
  BY DEF CallShape, Busy, Drains
<1>3. NoneLost
  <2> SUFFICES ASSUME NEW p \in Procs, proc[p] \in {"up", "term"}
               PROVE  p = cmd
    BY DEF NoneLost, Live
  <2>. QED
    OBVIOUS
<1>4. OrderKept
  BY DEF OrderKept, Busy, Taken, Drains
<1>. QED
  BY <1>1, <1>2, <1>3, <1>4 DEF CoreInv

(* startLocked, successful or not: slots that a Stop still holds are not   *)
(* reused.                                                                 *)
LEMMA SpawnFacts ==
  ASSUME CoreTypeOK, Spawn \/ SpawnFails
  PROVE  /\ proc' \in [Procs -> {"up", "term", "dead", "reaped"}]
         /\ cmd' \in Procs \cup {Nil} /\ desired' \in BOOLEAN /\ fails' \in 0..MaxFails
         /\ \A b \in Callers : call[b].p \in Procs => proc'[call[b].p] = proc[call[b].p]
<1>1. CASE Spawn
  BY <1>1 DEF CoreTypeOK, Spawn, FreeSlot
<1>2. CASE SpawnFails
  BY <1>2, CallersFact DEF CoreTypeOK, SpawnFails
<1>. QED
  BY <1>1, <1>2

LEMMA BeginKeeps ==
  ASSUME CoreInv, NEW a \in Callers, Begin(a)
  PROVE  CoreInv'
<1> USE CallersFact DEF Begin, At, NeedsLock, MayBegin, Overlaps, CoreInv
<1>1. CoreTypeOK'
  <2>1. overlap' \in BOOLEAN
    BY Zenon
  <2>2. applyMu' \in AllCallers \cup {Nil} /\ wd' \in {"idle", "alive", "restart", "halted"}
    BY DEF CoreTypeOK, AllCallers
  <2>3. \A g \in Goals(a) : g \in {"bring", "stop", "refresh"}
    BY DEF Goals
  <2>4. call' \in [Callers ->
           [pc : {"idle", "look", "stop", "signal", "wait", "kill", "drain", "stopped",
                  "start", "restart", "reassert", "gone"},
            goal : {"none", "bring", "stop", "refresh"},
            p : Procs \cup {Nil}]]
    BY <2>3 DEF CoreTypeOK
  <2>. QED
    BY <2>1, <2>2, <2>4 DEF CoreTypeOK
<1>2. \A b \in Callers : CallShape(b)'
  BY DEF CoreTypeOK, CallShape, Busy, Drains, Goals, Locking, Outside
<1>3. (exited => wd = "halted")'
  BY DEF CoreTypeOK, CallShape, Busy, Goals, Outside
<1>4. NoneLost'
  BY DEF CoreTypeOK, NoneLost, Live, CallShape, Drains, Alive
<1>5. OrderKept'
  <2> SUFFICES ASSUME ~overlap'
               PROVE  OrderKept'
    BY DEF OrderKept
  <2>1. ~overlap /\ \A b \in Callers : ~Overlaps(a, b)
    BY Zenon
  <2>2. \A b \in Callers : b # a => ~Busy(b)
    <3> SUFFICES ASSUME NEW b \in Callers, b # a, Busy(b)
                 PROVE  FALSE
      OBVIOUS
    <3>1. a \in Locking /\ b \in Locking
      BY <2>1 DEF Locking, Outside
    <3>. QED
      BY <3>1 DEF CallShape
  <2>3. call'[a].pc \in {"stop", "look"} /\ call'[a].goal \in Goals(a)
    BY DEF CoreTypeOK
  <2>4. \A b \in Callers : b # a => call'[b] = call[b]
    BY DEF CoreTypeOK
  <2>5. \A b \in Callers : call[b].pc \notin Taken /\ call'[b].pc \notin Taken
    BY <2>2, <2>3, <2>4 DEF Busy, Taken, Drains
  <2>6. call'[a].goal = "refresh" => call'[a].pc = "look"
    BY DEF CoreTypeOK
  <2>7. \A b \in Callers : b # a => call'[b].pc \in {"idle", "gone"}
    BY <2>2, <2>4 DEF Busy
  <2>. QED
    BY <2>1, <2>3, <2>5, <2>6, <2>7 DEF OrderKept, Busy
<1>. QED
  BY <1>1, <1>2, <1>3, <1>4, <1>5

LEMMA LookKeeps ==
  ASSUME CoreInv, NEW a \in Callers, Look(a)
  PROVE  CoreInv'
<1> USE CallersFact DEF Look, At, Refreshes, StepTo, Released, AtRest, CoreInv
<1>1. CoreTypeOK'
  BY DEF CoreTypeOK
<1>2. \A b \in Callers : CallShape(b)'
  BY DEF CoreTypeOK, CallShape, Busy, Drains, Goals, Locking, Outside
<1>3. (exited => wd = "halted")'
  BY DEF CoreTypeOK, CallShape, Busy, Goals, Outside
<1>4. NoneLost'
  BY DEF CoreTypeOK, NoneLost, Live, CallShape, Drains, Alive
<1>5. OrderKept'
  BY DEF CoreTypeOK, OrderKept, Busy, Taken, Drains, CallShape, Goals, Alive
<1>. QED
  BY <1>1, <1>2, <1>3, <1>4, <1>5

LEMMA StopTakeKeeps ==
  ASSUME CoreInv, NEW a \in Callers, StopTake(a)
  PROVE  CoreInv'
<1> USE CallersFact DEF StopTake, At, CoreInv
<1>1. CoreTypeOK'
  BY DEF CoreTypeOK
<1>2. \A b \in Callers : CallShape(b)'
  BY DEF CoreTypeOK, CallShape, Busy, Drains, Goals, Locking, Outside
<1>3. (exited => wd = "halted")'
  BY DEF CoreTypeOK, CallShape, Busy, Goals, Outside
<1>4. NoneLost'
  BY DEF CoreTypeOK, NoneLost, Live, CallShape, Drains, Alive
<1>5. OrderKept'
  BY DEF CoreTypeOK, OrderKept, Busy, Taken, Drains, CallShape, Goals, Alive
<1>. QED
  BY <1>1, <1>2, <1>3, <1>4, <1>5

LEMMA StopSignalKeeps ==
  ASSUME CoreInv, NEW a \in Callers, StopSignal(a)
  PROVE  CoreInv'
<1> USE CallersFact DEF StopSignal, At, StepTo, CoreInv
<1>1. CoreTypeOK'
  BY DEF CoreTypeOK
<1>2. \A b \in Callers : CallShape(b)'
  BY DEF CoreTypeOK, CallShape, Busy, Drains, Goals, Locking, Outside
<1>3. (exited => wd = "halted")'
  BY DEF CoreTypeOK, CallShape, Busy, Goals, Outside
<1>4. NoneLost'
  BY DEF CoreTypeOK, NoneLost, Live, CallShape, Drains, Alive
<1>5. OrderKept'
  BY DEF CoreTypeOK, OrderKept, Busy, Taken, Drains, CallShape, Goals, Alive
<1>. QED
  BY <1>1, <1>2, <1>3, <1>4, <1>5

LEMMA StopWaitKeeps ==
  ASSUME CoreInv, NEW a \in Callers, StopWait(a)
  PROVE  CoreInv'
<1> USE CallersFact DEF StopWait, At, StepTo, GraceOver, AfterGrace, CoreInv
<1>1. CoreTypeOK'
  BY DEF CoreTypeOK
<1>2. \A b \in Callers : CallShape(b)'
  BY DEF CoreTypeOK, CallShape, Busy, Drains, Goals, Locking, Outside
<1>3. (exited => wd = "halted")'
  BY DEF CoreTypeOK, CallShape, Busy, Goals, Outside
<1>4. NoneLost'
  BY DEF CoreTypeOK, NoneLost, Live, CallShape, Drains, Alive
<1>5. OrderKept'
  BY DEF CoreTypeOK, OrderKept, Busy, Taken, Drains, CallShape, Goals, Alive
<1>. QED
  BY <1>1, <1>2, <1>3, <1>4, <1>5

LEMMA StopKillKeeps ==
  ASSUME CoreInv, NEW a \in Callers, StopKill(a)
  PROVE  CoreInv'
<1> USE CallersFact DEF StopKill, At, StepTo, CoreInv
<1>1. CoreTypeOK'
  BY DEF CoreTypeOK
<1>2. \A b \in Callers : CallShape(b)'
  BY DEF CoreTypeOK, CallShape, Busy, Drains, Goals, Locking, Outside
<1>3. (exited => wd = "halted")'
  BY DEF CoreTypeOK, CallShape, Busy, Goals, Outside
<1>4. NoneLost'
  BY DEF CoreTypeOK, NoneLost, Live, CallShape, Drains, Alive
<1>5. OrderKept'
  BY DEF CoreTypeOK, OrderKept, Busy, Taken, Drains, CallShape, Goals, Alive
<1>. QED
  BY <1>1, <1>2, <1>3, <1>4, <1>5

LEMMA StopDrainKeeps ==
  ASSUME CoreInv, NEW a \in Callers, StopDrain(a)
  PROVE  CoreInv'
<1> USE CallersFact DEF StopDrain, At, StepTo, CoreInv
<1>1. CoreTypeOK'
  BY DEF CoreTypeOK
<1>2. \A b \in Callers : CallShape(b)'
  BY DEF CoreTypeOK, CallShape, Busy, Drains, Goals, Locking, Outside
<1>3. (exited => wd = "halted")'
  BY DEF CoreTypeOK, CallShape, Busy, Goals, Outside
<1>4. NoneLost'
  BY DEF CoreTypeOK, NoneLost, Live, CallShape, Drains, Alive
<1>5. OrderKept'
  BY DEF CoreTypeOK, OrderKept, Busy, Taken, Drains, CallShape, Goals, Alive
<1>. QED
  BY <1>1, <1>2, <1>3, <1>4, <1>5

LEMMA StoppedKeeps ==
  ASSUME CoreInv, NEW a \in Callers, Stopped(a)
  PROVE  CoreInv'
<1> USE CallersFact DEF Stopped, At, Released, AtRest, CoreInv
<1>1. CoreTypeOK'
  <2>1. exited' \in BOOLEAN /\ applyMu' \in AllCallers \cup {Nil}
    BY DEF CoreTypeOK
  <2>. QED
    BY <2>1 DEF CoreTypeOK
<1>2. \A b \in Callers : CallShape(b)'
  BY DEF CoreTypeOK, CallShape, Busy, Drains, Goals, Locking, Outside
<1>3. (exited => wd = "halted")'
  BY DEF CoreTypeOK, CallShape, Busy, Goals, Outside
<1>4. NoneLost'
  BY DEF CoreTypeOK, NoneLost, Live, CallShape, Drains, Alive
<1>5. OrderKept'
  BY DEF CoreTypeOK, OrderKept, Busy, Taken, Drains, CallShape, Goals, Alive
<1>. QED
  BY <1>1, <1>2, <1>3, <1>4, <1>5

LEMMA StartKeeps ==
  ASSUME CoreInv, NEW a \in Callers, Start(a)
  PROVE  CoreInv'
<1> USE CallersFact DEF Start, At, Ordered, Released, AtRest, Spawn, SpawnFails, StepTo, CoreInv
<1>1. CoreTypeOK'
  <2>1. /\ proc' \in [Procs -> {"up", "term", "dead", "reaped"}]
        /\ cmd' \in Procs \cup {Nil} /\ desired' \in BOOLEAN /\ fails' \in 0..MaxFails
    BY SpawnFacts DEF CoreTypeOK
  <2>2. call' \in [Callers ->
           [pc : {"idle", "look", "stop", "signal", "wait", "kill", "drain", "stopped",
                  "start", "restart", "reassert", "gone"},
            goal : {"none", "bring", "stop", "refresh"},
            p : Procs \cup {Nil}]]
    BY DEF CoreTypeOK
  <2>3. applyMu' \in AllCallers \cup {Nil} /\ intent' \in {"up", "down"}
    BY DEF CoreTypeOK
  <2>. QED
    BY <2>1, <2>2, <2>3 DEF CoreTypeOK
<1>2. \A b \in Callers : CallShape(b)'
  <2>1. \A b \in Callers : call[b].p \in Procs => proc'[call[b].p] = proc[call[b].p]
    BY SpawnFacts DEF CoreTypeOK
  <2>2. CallShape(a)'
    BY DEF CoreTypeOK, CallShape, Busy, Drains, Goals, Locking, Outside
  <2>3. ASSUME NEW b \in Callers, b # a
        PROVE  CallShape(b)'
    BY <2>1, <2>3 DEF CoreTypeOK, CallShape, Busy, Drains, Goals, Locking, Outside
  <2>. QED
    BY <2>2, <2>3
<1>3. (exited => wd = "halted")'
  BY DEF CoreTypeOK, CallShape, Busy, Goals, Outside
<1>4. NoneLost'
  BY DEF CoreTypeOK, NoneLost, Live, CallShape, Drains, Alive
<1>5. OrderKept'
  BY DEF CoreTypeOK, OrderKept, Busy, Taken, Drains, CallShape, Goals, Alive
<1>. QED
  BY <1>1, <1>2, <1>3, <1>4, <1>5

LEMMA ReassertKeeps ==
  ASSUME CoreInv, NEW a \in Callers, Reassert(a)
  PROVE  CoreInv'
<1> USE CallersFact DEF Reassert, At, Reasserted, Released, AtRest, CoreInv
<1>1. CoreTypeOK'
  BY DEF CoreTypeOK
<1>2. \A b \in Callers : CallShape(b)'
  BY DEF CoreTypeOK, CallShape, Busy, Drains, Goals, Locking, Outside
<1>3. (exited => wd = "halted")'
  BY DEF CoreTypeOK, CallShape, Busy, Goals, Outside
<1>4. NoneLost'
  BY DEF CoreTypeOK, NoneLost, Live, CallShape, Drains, Alive
<1>5. OrderKept'
  BY DEF CoreTypeOK, OrderKept, Busy, Taken, Drains, CallShape, Goals, Alive
<1>. QED
  BY <1>1, <1>2, <1>3, <1>4, <1>5

LEMMA WdDesiredKeeps ==
  ASSUME CoreInv, WdDesired
  PROVE  CoreInv'
<1> USE CallersFact DEF WdDesired, CoreInv
<1>1. CoreTypeOK'
  BY DEF CoreTypeOK
<1>2. \A b \in Callers : CallShape(b)'
  BY DEF CoreTypeOK, CallShape, Busy, Drains, Goals, Locking, Outside
<1>3. (exited => wd = "halted")'
  BY DEF CoreTypeOK, CallShape, Busy, Goals, Outside
<1>4. NoneLost'
  BY DEF CoreTypeOK, NoneLost, Live, CallShape, Drains, Alive
<1>5. OrderKept'
  BY DEF CoreTypeOK, OrderKept, Busy, Taken, Drains, CallShape, Goals, Alive
<1>. QED
  BY <1>1, <1>2, <1>3, <1>4, <1>5

LEMMA WdAliveKeeps ==
  ASSUME CoreInv, WdAlive
  PROVE  CoreInv'
<1> USE CallersFact DEF WdAlive, CoreInv
<1>1. CoreTypeOK'
  BY DEF CoreTypeOK
<1>2. \A b \in Callers : CallShape(b)'
  BY DEF CoreTypeOK, CallShape, Busy, Drains, Goals, Locking, Outside
<1>3. (exited => wd = "halted")'
  BY DEF CoreTypeOK, CallShape, Busy, Goals, Outside
<1>4. NoneLost'
  BY DEF CoreTypeOK, NoneLost, Live, CallShape, Drains, Alive
<1>5. OrderKept'
  BY DEF CoreTypeOK, OrderKept, Busy, Taken, Drains, CallShape, Goals, Alive
<1>. QED
  BY <1>1, <1>2, <1>3, <1>4, <1>5

LEMMA WdRestartKeeps ==
  ASSUME CoreInv, WdRestart
  PROVE  CoreInv'
<1> USE CallersFact DEF WdRestart, StillDesiredDead, Spawn, SpawnFails, CoreInv
<1>1. CoreTypeOK'
  BY SpawnFacts DEF CoreTypeOK
<1>2. \A b \in Callers : CallShape(b)'
  <2>1. \A b \in Callers : call[b].p \in Procs => proc'[call[b].p] = proc[call[b].p]
    BY SpawnFacts DEF CoreTypeOK
  <2>. QED
    BY <2>1 DEF CoreTypeOK, CallShape, Busy, Drains, Goals, Locking, Outside
<1>3. (exited => wd = "halted")'
  BY DEF CoreTypeOK, CallShape, Busy, Goals, Outside
<1>4. NoneLost'
  BY DEF CoreTypeOK, NoneLost, Live, CallShape, Drains, Alive
<1>5. OrderKept'
  BY DEF CoreTypeOK, OrderKept, Busy, Taken, Drains, CallShape, Goals, Alive
<1>. QED
  BY <1>1, <1>2, <1>3, <1>4, <1>5

LEMMA CoreExitKeeps ==
  ASSUME CoreInv, NEW p \in Procs, CoreExit(p)
  PROVE  CoreInv'
<1> USE CallersFact DEF CoreExit, CoreInv
<1>1. CoreTypeOK'
  BY DEF CoreTypeOK
<1>2. \A b \in Callers : CallShape(b)'
  BY DEF CoreTypeOK, CallShape, Busy, Drains, Goals, Locking, Outside
<1>3. (exited => wd = "halted")'
  BY DEF CoreTypeOK, CallShape, Busy, Goals, Outside
<1>4. NoneLost'
  BY DEF CoreTypeOK, NoneLost, Live, CallShape, Drains, Alive
<1>5. OrderKept'
  BY DEF CoreTypeOK, OrderKept, Busy, Taken, Drains, CallShape, Goals, Alive
<1>. QED
  BY <1>1, <1>2, <1>3, <1>4, <1>5

LEMMA ReapKeeps ==
  ASSUME CoreInv, NEW p \in Procs, Reap(p)
  PROVE  CoreInv'
<1> USE CallersFact DEF Reap, CoreInv
<1>1. CoreTypeOK'
  BY DEF CoreTypeOK
<1>2. \A b \in Callers : CallShape(b)'
  BY DEF CoreTypeOK, CallShape, Busy, Drains, Goals, Locking, Outside
<1>3. (exited => wd = "halted")'
  BY DEF CoreTypeOK, CallShape, Busy, Goals, Outside
<1>4. NoneLost'
  BY DEF CoreTypeOK, NoneLost, Live, CallShape, Drains, Alive
<1>5. OrderKept'
  BY DEF CoreTypeOK, OrderKept, Busy, Taken, Drains, CallShape, Goals, Alive
<1>. QED
  BY <1>1, <1>2, <1>3, <1>4, <1>5

LEMMA CoreStep == CoreInv /\ [CoreNext]_coreVars => CoreInv'
<1> SUFFICES ASSUME CoreInv, [CoreNext]_coreVars
             PROVE  CoreInv'
  OBVIOUS
<1>1. CASE UNCHANGED coreVars
  BY <1>1 DEF coreVars, CoreInv, CoreTypeOK, CallShape, NoneLost, OrderKept, Live, Busy
<1>. QED
  BY <1>1, BeginKeeps, LookKeeps, StopTakeKeeps, StopSignalKeeps, StopWaitKeeps, StopKillKeeps, StopDrainKeeps, StoppedKeeps, StartKeeps, ReassertKeeps, WdDesiredKeeps, WdAliveKeeps, WdRestartKeeps, CoreExitKeeps, ReapKeeps DEF CoreNext, Proceed, WdTick

(* A process a call still holds while it runs is one the call is draining. *)
LEMMA HeldIsDrained ==
  ASSUME CoreInv, NEW p \in Live, NEW a \in Callers, call[a].p = p
  PROVE  call[a].pc \in Drains /\ Busy(a)
<1>1. p \in Procs /\ proc[p] # "reaped" /\ p # Nil
  BY CallersFact DEF Live, CoreInv
<1>2. call[a].pc \in Drains
  BY <1>1 DEF CoreInv, CallShape
<1>. QED
  BY <1>2 DEF Drains, Busy

(* The invariant is enough. *)
LEMMA CoreInvEnough == CoreInv => CoreAsOrdered
<1> SUFFICES ASSUME CoreInv
             PROVE  CoreAsOrdered
  OBVIOUS
<1>1. ASSUME ~overlap, NEW p \in Live, NEW q \in Live
      PROVE  p = q
  <2>1. p \in Procs /\ q \in Procs /\ p # Nil /\ q # Nil
    BY CallersFact DEF Live
  <2>2. \A a \in Callers : call[a].p \in Live => Busy(a) /\ cmd = Nil
    BY <1>1, HeldIsDrained DEF CoreInv, OrderKept, Taken
  <2>3. \A a, b \in Callers : call[a].p = p /\ call[b].p = q => p = q
    BY <1>1, <2>2 DEF CoreInv, OrderKept
  <2>. QED
    BY <2>1, <2>2, <2>3 DEF CoreInv, NoneLost
<1>2. ASSUME exited, ~overlap, NEW p \in Live
      PROVE  FALSE
  <2>1. p # Nil
    BY CallersFact DEF Live
  <2>2. cmd = Nil /\ \A a \in Callers : ~Busy(a)
    BY <1>2 DEF CoreInv, OrderKept
  <2>. QED
    BY <1>2, <2>1, <2>2, HeldIsDrained DEF CoreInv, NoneLost
<1>3. ASSUME applyMu = Nil, ~overlap
      PROVE  desired <=> intent = "up"
  <2>1. ASSUME NEW a \in Callers, call[a].pc \in Taken
        PROVE  ~desired /\ intent = "down"
    <3>1. Busy(a)
      BY <2>1 DEF Taken, Drains, Busy
    <3>2. a = "main"
      BY <1>3, <3>1, CallersFact DEF CoreInv, CallShape, Locking
    <3>3. call[a].goal = "stop"
      BY <3>1, <3>2 DEF CoreInv, CallShape, Goals
    <3>. QED
      BY <1>3, <2>1, <3>3 DEF CoreInv, OrderKept
  <2>. QED
    BY <1>3, <2>1 DEF CoreInv, OrderKept
<1>. QED
  BY <1>1, <1>2, <1>3 DEF CoreAsOrdered, CoreInv, NoneLost

(* Starts, Stops, Reloads and the watchdog keep the supervisor's state     *)
(* well-formed.                                                            *)
THEOREM CoreTyped == CoreSpec => []CoreTypeOK
<1>1. CoreInv => CoreTypeOK
  BY DEF CoreInv
<1>. QED
  BY <1>1, CoreInitInv, CoreStep, PTL DEF CoreSpec

(* At most one sing-box runs, none is orphaned, and between orders the     *)
(* supervisor wants what the last order wanted: for every interleaving of  *)
(* apply, updater, shutdown and watchdog, however many processes it takes  *)
(* and however many spawns fail.                                           *)
THEOREM CoreFollowsOrders == CoreSpec => []CoreAsOrdered
  BY CoreInitInv, CoreStep, CoreInvEnough, PTL DEF CoreSpec
-----------------------------------------------------------------------------
(* Watchdog: the constants as numbers. *)
LEMMA WdConstants ==
    /\ Interval \in Nat /\ Interval > 0
    /\ MinBackoff \in Nat /\ MinBackoff > 0
    /\ MaxBackoff \in Nat /\ MinBackoff <= MaxBackoff
    /\ Stable \in Nat /\ Stable > 0
    /\ Longest \in Nat /\ Longest >= Stable /\ Longest >= MaxBackoff
  BY WatchdogAssumption DEF Longest

(* The grown backoff stays in the configured range. *)
LEMMA GrownBound ==
    ASSUME backoff \in Nat, backoff <= MaxBackoff
    PROVE  Grown \in Nat /\ Grown > 0 /\ Grown <= MaxBackoff
  BY WdConstants DEF Grown, Least

(* Every state before any tick satisfies the inductive invariant. *)
LEMMA AttemptInit == WdInit => AttemptInv
  BY WdConstants DEF WdInit, AttemptInv, WdTypeOK

(* Every step of the watchdog, of time and of the core preserves it. *)
LEMMA AttemptStep == AttemptInv /\ [WdNext]_wdVars => AttemptInv'
<1> SUFFICES ASSUME AttemptInv, [WdNext]_wdVars PROVE AttemptInv'
  OBVIOUS
<1> USE WdConstants
<1>1. CASE Elapse
  <2>1. wanted' \in BOOLEAN /\ alive' \in BOOLEAN
    BY <1>1 DEF Elapse, AttemptInv, WdTypeOK
  <2>2. backoff' \in Nat /\ wait' \in Nat /\ tickIn' \in 0..Interval /\ down' \in Nat
    BY <1>1 DEF Elapse, AttemptInv, WdTypeOK
  <2>3. since' \in 0..Longest
    BY <1>1 DEF Elapse, AttemptInv, WdTypeOK, Least
  <2>4. backoff' <= MaxBackoff
    BY <1>1 DEF Elapse, AttemptInv
  <2>5. wait' > 0 => down' + wait' <= MaxBackoff
    BY <1>1 DEF Elapse, AttemptInv, WdTypeOK
  <2>6. wait' = 0 => down' + tickIn' <= MaxBackoff + Interval
    BY <1>1 DEF Elapse, AttemptInv, WdTypeOK
  <2>7. ~wanted' \/ alive' => down' = 0
    BY <1>1 DEF Elapse
  <2> QED BY <2>1, <2>2, <2>3, <2>4, <2>5, <2>6, <2>7 DEF AttemptInv, WdTypeOK
<1>2. CASE TickIdle
  <2>1. /\ tickIn' = Interval /\ backoff' = 0 /\ wait' = 0 /\ down' = down
        /\ UNCHANGED <<wanted, alive, since>>
    BY <1>2 DEF TickIdle
  <2>2. down = 0
    BY <1>2 DEF TickIdle, AttemptInv
  <2> QED BY <2>1, <2>2 DEF AttemptInv, WdTypeOK
<1>3. CASE TickAlive
  BY <1>3 DEF TickAlive, AttemptInv, WdTypeOK
<1>4. CASE TickWaits
  BY <1>4 DEF TickWaits, AttemptInv, WdTypeOK
<1>5. CASE TickRestarts
  <2>1. Grown \in Nat /\ Grown > 0 /\ Grown <= MaxBackoff
    BY GrownBound DEF AttemptInv, WdTypeOK
  <2>2. alive' \in BOOLEAN /\ wanted' \in BOOLEAN
    BY <1>5 DEF TickRestarts, AttemptInv, WdTypeOK
  <2>3. /\ tickIn' = Interval /\ backoff' = Grown /\ wait' = Grown
        /\ since' = 0 /\ down' = 0
    BY <1>5 DEF TickRestarts, Charged
  <2> QED BY <2>1, <2>2, <2>3 DEF AttemptInv, WdTypeOK
<1>6. CASE TickRaced
  <2>1. wanted' \in BOOLEAN /\ alive' \in BOOLEAN
    BY <1>6 DEF TickRaced, AttemptInv, WdTypeOK
  <2>2. down' = 0 /\ tickIn' = Interval /\ UNCHANGED <<backoff, wait, since>>
    BY <1>6 DEF TickRaced
  <2>3. wait <= MaxBackoff
    BY DEF AttemptInv, WdTypeOK
  <2> QED BY <2>1, <2>2, <2>3 DEF AttemptInv, WdTypeOK
<1>7. CASE Crash
  <2>1. wanted' \in BOOLEAN /\ alive' \in BOOLEAN
    BY <1>7 DEF Crash, AttemptInv, WdTypeOK
  <2>2. down' = 0 /\ UNCHANGED <<backoff, wait, since, tickIn>>
    BY <1>7 DEF Crash
  <2>3. wait <= MaxBackoff
    BY DEF AttemptInv, WdTypeOK
  <2> QED BY <2>1, <2>2, <2>3 DEF AttemptInv, WdTypeOK
<1>8. CASE OrderUp
  <2>1. wanted' \in BOOLEAN /\ alive' \in BOOLEAN
    BY <1>8 DEF OrderUp, AttemptInv, WdTypeOK
  <2>2. down' = 0 /\ UNCHANGED <<backoff, wait, since, tickIn>>
    BY <1>8 DEF OrderUp
  <2>3. wait <= MaxBackoff
    BY DEF AttemptInv, WdTypeOK
  <2> QED BY <2>1, <2>2, <2>3 DEF AttemptInv, WdTypeOK
<1>9. CASE OrderDown
  <2>1. wanted' \in BOOLEAN /\ alive' \in BOOLEAN
    BY <1>9 DEF OrderDown, AttemptInv, WdTypeOK
  <2>2. down' = 0 /\ UNCHANGED <<backoff, wait, since, tickIn>>
    BY <1>9 DEF OrderDown
  <2>3. wait <= MaxBackoff
    BY DEF AttemptInv, WdTypeOK
  <2> QED BY <2>1, <2>2, <2>3 DEF AttemptInv, WdTypeOK
<1>10. CASE UNCHANGED wdVars
  BY <1>10 DEF wdVars, AttemptInv, WdTypeOK
<1> QED
  BY <1>1, <1>2, <1>3, <1>4, <1>5, <1>6, <1>7, <1>8, <1>9, <1>10 DEF WdNext, Tick

(* The inductive invariant bounds the time without an attempt. *)
LEMMA AttemptEnough == AttemptInv => AttemptBound
  BY WdConstants DEF AttemptInv, AttemptBound, WdTypeOK

(* tick: a core that should be up waits at most one full backoff window and *)
(* one tick for the next restart attempt.                                   *)
THEOREM AttemptsBounded == WdSpec => []AttemptBound
<1>1. WdSpec => []AttemptInv
  BY AttemptInit, AttemptStep, PTL DEF WdSpec
<1> QED BY <1>1, AttemptEnough, PTL
=============================================================================
