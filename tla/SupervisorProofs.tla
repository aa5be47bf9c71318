------------------------- MODULE SupervisorProofs -------------------------
(***************************************************************************)
(* Theorems about Supervisor for any number of Workers, coroutines,        *)
(* launches and critical stops.                                            *)
(*                                                                         *)
(* The invariant is built in five layers, each inductive relative to the   *)
(* ones before it: types and operands, locks, process tracking, the        *)
(* exclusive rule, the shutdown.  It speaks of Workers that were not       *)
(* removed: a removed Worker loses its lock object, and with it the        *)
(* protection of its process.                                              *)
(***************************************************************************)
EXTENDS Supervisor, FiniteSetTheorems, TLAPS

---------------------------------------------------------------------------
(* Layer 1: types and operands. *)

\* Every Worker a coroutine, a process or the critical handler names is or was
\* registered.
Known == roster \cup removed

Operands ==
    /\ roster \cap removed = {}
    /\ \A t \in Tasks :
        /\ pc[t] \in StartPcs \cup {"remove.lock"} => wid[t] \in Known
        /\ pc[t] \in StopPcs => sid[t] \in Known
        /\ op[t] \in {"start", "restart"} => wid[t] \in Known
        /\ pc[t] \in StartPcs => op[t] = "start"
        /\ pc[t] = "stopAll.next" => op[t] = "stopAll"
    /\ critPc = "kill" => critWid \in Known
    /\ critPc # "idle" => thermal = "critical"
    /\ \A p \in live : p[1] \in Known

TypeInv == TypeOK /\ Operands

---------------------------------------------------------------------------
(* Layer 2: who holds which lock where. *)

\* Between the Worker lock and the launch of the process.
PreSpawn(t) ==
    \/ pc[t] \in {"exclusive", "reclaim", "validate", "spawn"}
    \/ pc[t] \in StopPcs /\ op[t] = "start"

\* start() past its two locks.
InStart(t) ==
    PreSpawn(t) \/ pc[t] \in {"loading", "verify", "warming", "answered", "abort"}

LocksOf(t) ==
    /\ InStart(t) \/ pc[t] = "worker.lock" => loadLock = t
    /\ InStart(t) /\ wid[t] \notin removed => lock[<<wid[t], 0>>] = t
    /\ pc[t] \in {"worker.lock", "remove.lock"} /\ wid[t] \notin removed => gen[t] = 0
    /\ pc[t] \in StopPcs /\ sid[t] \notin removed => gen[t] = 0
    /\ pc[t] \in {"stop.post", "stop.wait", "stop.kill"} /\ sid[t] \notin removed
          => lock[<<sid[t], 0>>] = t
    /\ pc[t] = "exclusive" => wid[t] \in seen[t]
    /\ pc[t] \in StopPcs /\ op[t] = "start" => wid[t] \in seen[t] /\ sid[t] # wid[t]

Locks == \A t \in Tasks : LocksOf(t)

---------------------------------------------------------------------------
(* Layer 3: every process is found where its Worker records it. *)

Dead(w) == \A n \in 1..MaxSpawn : <<w, n>> \notin live

\* No process of Worker w runs but perhaps the n-th.
OnlyRuns(w, n) == \A m \in 1..MaxSpawn : <<w, m>> \in live => m = n

\* worker.process is the running process, and then the state is not that of an
\* idle Worker.
Found ==
    \A w \in Workers \ removed, n \in 1..MaxSpawn :
        <<w, n>> \in live => proc[w] = n /\ state[w] \notin {"stopped", "validating"}

\* A launch finds no process of its Worker, a stop() only the one it waits for.
Expects(t) ==
    /\ PreSpawn(t) /\ wid[t] \notin removed => Dead(wid[t])
    /\ pc[t] \in {"stop.wait", "stop.kill"} /\ sid[t] \notin removed => OnlyRuns(sid[t], pid[t])

\* The critical handler takes no lock, and still no launch gets in its way.
CriticalExpects ==
    critPc = "kill" /\ critWid \notin removed =>
        /\ OnlyRuns(critWid, critPid)
        /\ \A t \in Tasks : PreSpawn(t) => wid[t] # critWid

Tracked == Found /\ (\A t \in Tasks : Expects(t)) /\ CriticalExpects

---------------------------------------------------------------------------
(* Layer 4: exclusive Workers. *)

Reserved == Exclusive \ removed

NoneRuns(S) == \A w \in S, n \in 1..MaxSpawn : <<w, n>> \notin live

OneRuns ==
    \A v, w \in Reserved, m, n \in 1..MaxSpawn :
        {<<v, m>>, <<w, n>>} \subseteq live => v = w

\* The Workers that the loop of start() passed are dead, and at its end all are.
Cleared(t) ==
    /\ pc[t] \in {"reclaim", "validate", "spawn"} /\ wid[t] \in Exclusive => NoneRuns(Reserved)
    /\ pc[t] = "exclusive" => NoneRuns((Reserved \cap seen[t]) \ {wid[t]})
    /\ pc[t] \in StopPcs /\ op[t] = "start"
          => NoneRuns((Reserved \cap seen[t]) \ {wid[t], sid[t]})

Alone == OneRuns /\ \A t \in Tasks : Cleared(t)

\* A Worker in a state of start() is the one the holder of the load lock starts.
BeingStarted(w) ==
    /\ loadLock \in Tasks
    /\ wid[loadLock] = w
    /\ pc[loadLock] \in {"spawn", "loading", "verify", "warming", "answered"}

Launching ==
    phase = "serving" => \A w \in Workers : state[w] \in Busy => BeingStarted(w)

---------------------------------------------------------------------------
(* Layer 5: the shutdown. *)

\* The stop_all of the shutdown: no Worker that its loop has passed runs, but
\* perhaps the one that it is stopping.
Draining(t) ==
    pc[t] # "idle" =>
        /\ op[t] = "stopAll" /\ pc[t] \in StopPcs \cup {"stopAll.next"}
        /\ pc[t] = "stopAll.next" => NoneRuns(roster \cap seen[t])
        /\ pc[t] \in StopPcs => NoneRuns((roster \cap seen[t]) \ {sid[t]})

ShutsDown ==
    /\ phase # "serving" => \A t \in Tasks : Draining(t)
    /\ phase = "down" => NoneRuns(roster)

---------------------------------------------------------------------------
\* A loop over self.workers can take its length: the registry is finite.
LEMMA RosterFinite == ASSUME TypeOK PROVE Cardinality(roster) \in Nat
  BY ConstantsAssumption, FS_Subset, FS_CardinalityType DEF TypeOK

\* Layer 1 holds in the initial state.
LEMMA TypeInit == Init => TypeInv
<1> SUFFICES ASSUME Init PROVE TypeInv
  OBVIOUS
<1> USE ConstantsAssumption
<1>1. TypeOK
  <2>1. leftover \in [Workers -> {"none", "stale", "other"}]
    BY DEF Init
  <2>2. QED
    BY <2>1 DEF Init, TypeOK, LockKeys, Pcs, Running, SomeWorker, WorkerState
<1>2. Operands
  BY DEF Init, Operands, StartPcs, StopPcs
<1>3. QED
  BY <1>1, <1>2 DEF TypeInv

\* The types of what coroutines hold and where they are.
TaskTypes ==
    /\ loadLock \in Tasks \cup {NoTask}
    /\ lock \in [LockKeys -> Tasks \cup {NoTask}]
    /\ pc \in [Tasks -> Pcs]
    /\ op \in [Tasks -> Running]
    /\ wid \in [Tasks -> SomeWorker]
    /\ sid \in [Tasks -> SomeWorker]
    /\ gen \in [Tasks -> {0, 1}]
    /\ pid \in [Tasks -> 0..MaxSpawn]
    /\ seen \in [Tasks -> SUBSET Workers]
    /\ size \in [Tasks -> Nat]

\* A coroutine that returns or raises keeps the types.
LEMMA LeaveTypes ==
  ASSUME TaskTypes, NEW t \in Tasks, Leave(t) PROVE TaskTypes'
  BY ConstantsAssumption DEF TaskTypes, Leave, Returned, Pcs, Running, SomeWorker

\* A stop() that returns to its caller keeps the types.
LEMMA StopReturnsTypes ==
  ASSUME TaskTypes, NEW t \in Tasks, StopReturns(t) PROVE TaskTypes'
<1>1. CASE ReturnsInto(t) = "idle"
  BY <1>1, LeaveTypes DEF StopReturns
<1>2. CASE ReturnsInto(t) # "idle"
  <2>1. ReturnsInto(t) \in Pcs
    BY DEF ReturnsInto, Pcs, StartPcs
  <2>2. lock' \in [LockKeys -> Tasks \cup {NoTask}]
    BY <1>2 DEF StopReturns, Unlocked, TaskTypes
  <2>3. QED
    BY ConstantsAssumption, <1>2, <2>1, <2>2 DEF StopReturns, Goto, TaskTypes, Running, SomeWorker
<1>3. QED
  BY <1>1, <1>2

\* A loop that calls stop() keeps the types.
LEMMA CallsStopTypes ==
  ASSUME TaskTypes, NEW t \in Tasks, NEW o \in Workers, CallsStop(t, o) PROVE TaskTypes'
  BY DEF TaskTypes, CallsStop, Goto, Gen, lockVars, Pcs, StopPcs, SomeWorker

\* Every step keeps the types: the operands a step reads are Workers.
LEMMA TypeStep == TypeInv /\ [Next]_vars => TypeOK'
<1> SUFFICES ASSUME TypeInv, [Next]_vars PROVE TypeOK'
  OBVIOUS
<1> USE ConstantsAssumption
<1> USE DEF TypeInv, TypeOK, Operands, Known, Goto, Goes, SomeWorker, Pcs, StartPcs, StopPcs, Running,
        LockKeys, workerVars, lockVars, taskVars, jobVars, critVars, hostVars, rosterVars
<1>0. Cardinality(roster) \in Nat
  BY RosterFinite
<1>1. ASSUME NEW t \in Tasks, NEW w \in Workers, Start(t, w) PROVE TypeOK'
  BY <1>1 DEF Start, Calls, Gen
<1>2. ASSUME NEW t \in Tasks, NEW w \in Workers, Stop(t, w) PROVE TypeOK'
  BY <1>2 DEF Stop, Calls, Gen
<1>3. ASSUME NEW t \in Tasks, NEW w \in Workers, Restart(t, w) PROVE TypeOK'
  BY <1>3 DEF Restart, Calls, Gen
<1>4. ASSUME NEW t \in Tasks, NEW w \in Workers, Remove(t, w) PROVE TypeOK'
  BY <1>4 DEF Remove, Calls, Gen
<1>5. ASSUME NEW t \in Tasks, StopAll(t) PROVE TypeOK'
  BY <1>0, <1>5 DEF StopAll, Calls, Gen
<1>6. ASSUME NEW t \in Tasks, AcquireLoadLock(t) PROVE TypeOK'
  BY <1>6 DEF AcquireLoadLock, Gen
<1>7. ASSUME NEW t \in Tasks, StartLocked(t) PROVE TypeOK'
  <2>1. CASE Leave(t) /\ UNCHANGED <<workerVars, hostVars, rosterVars>>
    BY <2>1, LeaveTypes DEF TaskTypes
  <2>2. CASE /\ lock' = [lock EXCEPT ![<<wid[t], gen[t]>>] = t]
             /\ Goto(t, "exclusive")
             /\ seen' = [seen EXCEPT ![t] = {wid[t]}]
             /\ size' = [size EXCEPT ![t] = Cardinality(roster)]
             /\ UNCHANGED <<op, wid, sid, gen, pid, workerVars, loadLock, hostVars, rosterVars>>
    <3>1. lock' \in [LockKeys -> Tasks \cup {NoTask}]
      BY <2>2
    <3>2. wid[t] \in Workers
      BY <1>7 DEF StartLocked
    <3>3. QED
      BY <1>0, <2>2, <3>1, <3>2
  <2>3. QED
    BY <1>7, <2>1, <2>2 DEF StartLocked
<1>8. ASSUME NEW t \in Tasks, ExclusiveTurn(t) PROVE TypeOK'
  <2>1. CASE Leave(t) /\ UNCHANGED <<workerVars, hostVars, rosterVars>>
    BY <2>1, LeaveTypes DEF TaskTypes
  <2>2. ASSUME NEW o \in Conflicting(t), CallsStop(t, o) PROVE TypeOK'
    BY <2>2, CallsStopTypes DEF TaskTypes, CallsStop, Conflicting
  <2>3. CASE BeginValidation(t, wid[t])
    BY <2>3 DEF BeginValidation, WorkerState
  <2>4. QED
    BY <1>8, <2>1, <2>2, <2>3 DEF ExclusiveTurn
<1>9. ASSUME NEW t \in Tasks, Reclaim(t) PROVE TypeOK'
  <2>1. CASE FailBeforeLaunch(t) /\ UNCHANGED leftover
    BY <2>1, LeaveTypes DEF FailBeforeLaunch, TaskTypes, WorkerState
  <2>2. CASE /\ Goes(t, "validate")
             /\ leftover' = [leftover EXCEPT ![wid[t]] = "none"]
             /\ UNCHANGED <<state, proc, spawned, live, watch, lockVars, hostVars, rosterVars>>
    BY <2>2 DEF WorkerState
  <2>3. QED
    BY <1>9, <2>1, <2>2 DEF Reclaim
<1>10. ASSUME NEW t \in Tasks, Validate(t) PROVE TypeOK'
  <2>1. CASE FailBeforeLaunch(t) /\ UNCHANGED leftover
    BY <2>1, LeaveTypes DEF FailBeforeLaunch, TaskTypes, WorkerState
  <2>2. CASE /\ Goes(t, "spawn")
             /\ state' = [state EXCEPT ![wid[t]] = "starting"]
             /\ UNCHANGED <<leftover, proc, spawned, live, watch, lockVars, hostVars, rosterVars>>
    BY <2>2 DEF WorkerState
  <2>3. CASE Leave(t) /\ UNCHANGED <<workerVars, hostVars, rosterVars>>
    BY <2>3, LeaveTypes DEF TaskTypes
  <2>4. QED
    BY <1>10, <2>1, <2>2, <2>3 DEF Validate
<1>11. ASSUME NEW t \in Tasks, Spawn(t) PROVE TypeOK'
  BY <1>11 DEF Spawn, WorkerState
<1>12. ASSUME NEW t \in Tasks, SpawnFails(t) PROVE TypeOK'
  BY <1>12 DEF SpawnFails, FailBeforeLaunch, Leave, Returned, WorkerState
<1>13. ASSUME NEW t \in Tasks, Loaded(t) PROVE TypeOK'
  BY <1>13 DEF Loaded
<1>14. ASSUME NEW t \in Tasks, Verified(t) PROVE TypeOK'
  BY <1>14 DEF Verified, WorkerState
<1>15. ASSUME NEW t \in Tasks, WarmupAnswered(t) PROVE TypeOK'
  BY <1>15 DEF WarmupAnswered
<1>16. ASSUME NEW t \in Tasks, BecomeReady(t) PROVE TypeOK'
  BY <1>16 DEF BecomeReady, Leave, Returned, WorkerState
<1>17. ASSUME NEW t \in Tasks, StartupFails(t) PROVE TypeOK'
  BY <1>17 DEF StartupFails, AwaitsExit, WorkerState
<1>18. ASSUME NEW t \in Tasks, Aborted(t) PROVE TypeOK'
  BY <1>18 DEF Aborted, Terminated, Leave, Returned
<1>19. ASSUME NEW t \in Tasks, StopLocked(t) PROVE TypeOK'
  <2>1. CASE Stopped(t) /\ UNCHANGED <<spawned, live, watch, leftover, hostVars, rosterVars>>
    <3>1. TaskTypes'
      BY <2>1, StopReturnsTypes DEF Stopped, TaskTypes
    <3>2. proc' \in [Workers -> 0..MaxSpawn] /\ state' \in [Workers -> WorkerState]
      <4>1. sid[t] \in Workers
        BY <1>19 DEF StopLocked
      <4>2. QED
        BY <2>1, <4>1 DEF Stopped, WorkerState
    <3>3. QED
      BY <2>1, <3>1, <3>2 DEF TaskTypes
  <2>2. CASE /\ lock' = [lock EXCEPT ![<<sid[t], gen[t]>>] = t]
             /\ state' = [state EXCEPT ![sid[t]] = "stopping"]
             /\ Goes(t, "stop.post")
             /\ UNCHANGED <<proc, spawned, live, watch, leftover, loadLock, hostVars, rosterVars>>
    <3>1. lock' \in [LockKeys -> Tasks \cup {NoTask}]
      BY <2>2
    <3>2. QED
      BY <2>2, <3>1 DEF WorkerState
  <2>3. QED
    BY <1>19, <2>1, <2>2 DEF StopLocked
<1>20. ASSUME NEW t \in Tasks, StopPosted(t) PROVE TypeOK'
  <2>1. CASE proc[sid[t]] = 0
    BY <1>20, <2>1, LeaveTypes DEF StopPosted, TaskTypes
  <2>2. CASE proc[sid[t]] # 0
    BY <1>20, <2>2, SMTT(30) DEF StopPosted, AwaitsExit
  <2>3. QED
    BY <2>1, <2>2
<1>21. ASSUME NEW t \in Tasks, StopExited(t) PROVE TypeOK'
  BY <1>21, StopReturnsTypes DEF StopExited, Stopped, TaskTypes, WorkerState
<1>22. ASSUME NEW t \in Tasks, StopTimesOut(t) PROVE TypeOK'
  BY <1>22 DEF StopTimesOut, AwaitsExit
<1>23. ASSUME NEW t \in Tasks, StopKilled(t) PROVE TypeOK'
  BY <1>23, StopReturnsTypes DEF StopKilled, Terminated, Stopped, TaskTypes, WorkerState
<1>24. ASSUME NEW t \in Tasks, StopAllTurn(t) PROVE TypeOK'
  <2>1. CASE Leave(t) /\ UNCHANGED <<workerVars, hostVars, roster, removed>>
    BY <1>24, <2>1, LeaveTypes DEF StopAllTurn, TaskTypes, CallsStop
  <2>2. ASSUME NEW o \in StopAllTodo(t), CallsStop(t, o) PROVE TypeOK'
    BY <2>2, CallsStopTypes DEF TaskTypes, CallsStop, StopAllTodo
  <2>3. QED
    BY <1>24, <2>1, <2>2 DEF StopAllTurn
<1>25. ASSUME NEW t \in Tasks, RemoveLocked(t) PROVE TypeOK'
  BY <1>25 DEF RemoveLocked, Refreshed, Leave, Returned, WorkerState
<1>26. ASSUME NEW t \in Tasks, Shutdown(t) PROVE TypeOK'
  BY <1>0, <1>26 DEF Shutdown
<1>27. ASSUME NEW w \in Workers, RegisterProfile(w) PROVE TypeOK'
  BY <1>27 DEF RegisterProfile
<1>28. ASSUME NEW w \in Workers, NEW n \in 1..MaxSpawn, ProcessExits(w, n) PROVE TypeOK'
  BY <1>28 DEF ProcessExits
<1>29. ASSUME NEW w \in Workers, NEW n \in 1..MaxSpawn, WatchExit(w, n) PROVE TypeOK'
  BY <1>29 DEF WatchExit, WorkerState
<1>30. ASSUME RefreshExits PROVE TypeOK'
  BY <1>30 DEF RefreshExits, Refreshed, WorkerState
<1>31. ASSUME EnterCritical PROVE TypeOK'
  BY <1>0, <1>31 DEF EnterCritical
<1>32. ASSUME CriticalTurn PROVE TypeOK'
  <2>1. CASE critPc' = "idle"
    BY <1>32, <2>1 DEF CriticalTurn
  <2>2. ASSUME NEW w \in roster, critWid' = w, critPid' = proc[w], critPc' = "kill",
               critSeen' \subseteq Workers, state' = [state EXCEPT ![w] = "stopping"]
        PROVE  TypeOK'
    BY <1>32, <2>2 DEF CriticalTurn, WorkerState
  <2>3. QED
    BY <1>32, <2>1, <2>2 DEF CriticalTurn
<1>33. ASSUME CriticalKilled PROVE TypeOK'
  BY <1>33 DEF CriticalKilled, Terminated, WorkerState
<1>34. ASSUME CoolDown PROVE TypeOK'
  BY <1>34 DEF CoolDown
<1>35. CASE UNCHANGED vars
  BY <1>35 DEF vars
<1>36. QED
  BY <1>1, <1>2, <1>3, <1>4, <1>5, <1>6, <1>7, <1>8, <1>9, <1>10, <1>11, <1>12, <1>13, <1>14,
    <1>15, <1>16, <1>17, <1>18, <1>19, <1>20, <1>21, <1>22, <1>23, <1>24, <1>25, <1>26, <1>27,
    <1>28, <1>29, <1>30, <1>31, <1>32, <1>33, <1>34, <1>35
  DEF Next, Call, Step, StartStep, StopStep, CriticalStep

\* Every step keeps the operands.
LEMMA OperandsStep == TypeInv /\ [Next]_vars => Operands'
<1> SUFFICES ASSUME TypeInv, [Next]_vars PROVE Operands'
  OBVIOUS
<1> USE ConstantsAssumption
<1> USE DEF TypeInv, TypeOK, Operands, Known, Goto, Goes, StartPcs, StopPcs,
        workerVars, lockVars, taskVars, jobVars, critVars, hostVars, rosterVars
<1>1. ASSUME NEW t \in Tasks, NEW w \in Workers, Start(t, w) PROVE Operands'
  BY <1>1 DEF Start, Calls, Gen
<1>2. ASSUME NEW t \in Tasks, NEW w \in Workers, Stop(t, w) PROVE Operands'
  BY <1>2 DEF Stop, Calls, Gen
<1>3. ASSUME NEW t \in Tasks, NEW w \in Workers, Restart(t, w) PROVE Operands'
  BY <1>3 DEF Restart, Calls, Gen
<1>4. ASSUME NEW t \in Tasks, NEW w \in Workers, Remove(t, w) PROVE Operands'
  BY <1>4 DEF Remove, Calls, Gen
<1>5. ASSUME NEW t \in Tasks, StopAll(t) PROVE Operands'
  BY <1>5 DEF StopAll, Calls, Gen
<1>6. ASSUME NEW t \in Tasks, AcquireLoadLock(t) PROVE Operands'
  BY <1>6 DEF AcquireLoadLock, Gen
<1>7. ASSUME NEW t \in Tasks, StartLocked(t) PROVE Operands'
  BY <1>7 DEF StartLocked, Leave, Returned
<1>8. ASSUME NEW t \in Tasks, ExclusiveTurn(t) PROVE Operands'
  BY <1>8 DEF ExclusiveTurn, Leave, Returned, CallsStop, Conflicting, Gen, BeginValidation
<1>9. ASSUME NEW t \in Tasks, Reclaim(t) PROVE Operands'
  BY <1>9 DEF Reclaim, FailBeforeLaunch, Leave, Returned
<1>10. ASSUME NEW t \in Tasks, Validate(t) PROVE Operands'
  BY <1>10 DEF Validate, FailBeforeLaunch, Leave, Returned
<1>11. ASSUME NEW t \in Tasks, Spawn(t) PROVE Operands'
  BY <1>11 DEF Spawn
<1>12. ASSUME NEW t \in Tasks, SpawnFails(t) PROVE Operands'
  BY <1>12 DEF SpawnFails, FailBeforeLaunch, Leave, Returned
<1>13. ASSUME NEW t \in Tasks, Loaded(t) PROVE Operands'
  BY <1>13 DEF Loaded
<1>14. ASSUME NEW t \in Tasks, Verified(t) PROVE Operands'
  BY <1>14 DEF Verified
<1>15. ASSUME NEW t \in Tasks, WarmupAnswered(t) PROVE Operands'
  BY <1>15 DEF WarmupAnswered
<1>16. ASSUME NEW t \in Tasks, BecomeReady(t) PROVE Operands'
  BY <1>16 DEF BecomeReady, Leave, Returned
<1>17. ASSUME NEW t \in Tasks, StartupFails(t) PROVE Operands'
  BY <1>17 DEF StartupFails, AwaitsExit
<1>18. ASSUME NEW t \in Tasks, Aborted(t) PROVE Operands'
  BY <1>18 DEF Aborted, Terminated, Leave, Returned
<1>19. ASSUME NEW t \in Tasks, StopLocked(t) PROVE Operands'
  BY <1>19 DEF StopLocked, Stopped, StopReturns, ReturnsInto, Unlocked, Leave, Returned
<1>20. ASSUME NEW t \in Tasks, StopPosted(t) PROVE Operands'
  BY <1>20 DEF StopPosted, AwaitsExit, Leave, Returned
<1>21. ASSUME NEW t \in Tasks, StopExited(t) PROVE Operands'
  BY <1>21 DEF StopExited, Stopped, StopReturns, ReturnsInto, Unlocked, Leave, Returned
<1>22. ASSUME NEW t \in Tasks, StopTimesOut(t) PROVE Operands'
  BY <1>22 DEF StopTimesOut, AwaitsExit
<1>23. ASSUME NEW t \in Tasks, StopKilled(t) PROVE Operands'
  BY <1>23
  DEF StopKilled, Terminated, Stopped, StopReturns, ReturnsInto, Unlocked, Leave, Returned
<1>24. ASSUME NEW t \in Tasks, StopAllTurn(t) PROVE Operands'
  BY <1>24 DEF StopAllTurn, StopAllTodo, CallsStop, Gen, Leave, Returned
<1>25. ASSUME NEW t \in Tasks, RemoveLocked(t) PROVE Operands'
  BY <1>25 DEF RemoveLocked, Refreshed, Leave, Returned
<1>26. ASSUME NEW t \in Tasks, Shutdown(t) PROVE Operands'
  BY <1>26 DEF Shutdown
<1>27. ASSUME NEW w \in Workers, RegisterProfile(w) PROVE Operands'
  BY <1>27 DEF RegisterProfile
<1>28. ASSUME NEW w \in Workers, NEW n \in 1..MaxSpawn, ProcessExits(w, n) PROVE Operands'
  BY <1>28 DEF ProcessExits
<1>29. ASSUME NEW w \in Workers, NEW n \in 1..MaxSpawn, WatchExit(w, n) PROVE Operands'
  BY <1>29 DEF WatchExit
<1>30. ASSUME RefreshExits PROVE Operands'
  BY <1>30 DEF RefreshExits, Refreshed
<1>31. ASSUME EnterCritical PROVE Operands'
  BY <1>31 DEF EnterCritical
<1>32. ASSUME CriticalTurn PROVE Operands'
  BY <1>32 DEF CriticalTurn, Alive
<1>33. ASSUME CriticalKilled PROVE Operands'
  BY <1>33 DEF CriticalKilled, Terminated
<1>34. ASSUME CoolDown PROVE Operands'
  BY <1>34 DEF CoolDown
<1>35. CASE UNCHANGED vars
  BY <1>35 DEF vars
<1>36. QED
  BY <1>1, <1>2, <1>3, <1>4, <1>5, <1>6, <1>7, <1>8, <1>9, <1>10, <1>11, <1>12, <1>13, <1>14,
    <1>15, <1>16, <1>17, <1>18, <1>19, <1>20, <1>21, <1>22, <1>23, <1>24, <1>25, <1>26, <1>27,
    <1>28, <1>29, <1>30, <1>31, <1>32, <1>33, <1>34, <1>35
  DEF Next, Call, Step, StartStep, StopStep, CriticalStep

\* Layer 2 holds in the initial state and is kept by every step.
LEMMA LocksInit == Init => Locks
  BY DEF Init, Locks, LocksOf, InStart, PreSpawn, StopPcs

\* A coroutine that returns or raises releases only its own locks.
LEMMA LeaveLocks ==
  ASSUME TypeInv, Locks, NEW t \in Tasks, Leave(t), removed' = removed PROVE Locks'
  BY ConstantsAssumption, ZenonT(60)
  DEF TypeInv, TypeOK, Operands, Known, Locks, LocksOf, InStart, PreSpawn, Leave, Returned, StartPcs, StopPcs,
      LockKeys

\* A nested stop() releases the stopped Worker's lock and not the caller's.
LEMMA StopReturnsLocks ==
  ASSUME TypeInv, Locks, NEW t \in Tasks, pc[t] \in StopPcs, StopReturns(t), removed' = removed
  PROVE  Locks'
<1> USE DEF TypeInv, TypeOK, Operands, Known, Locks, LocksOf, InStart, PreSpawn, StartPcs, StopPcs
<1>1. CASE ReturnsInto(t) = "idle"
  BY <1>1, LeaveLocks DEF StopReturns
<1>2. CASE ReturnsInto(t) # "idle"
  <2>1. \A k \in LockKeys : k[1] # sid[t] \/ lock[k] # t => lock'[k] = lock[k]
    BY <1>2 DEF StopReturns, Unlocked
  <2>2. op[t] = "start" => wid[t] # sid[t]
    OBVIOUS
  <2>3. ASSUME NEW u \in Tasks, NEW w \in Workers, lock[<<w, 0>>] = u, u # t \/ w # sid[t]
        PROVE  lock'[<<w, 0>>] = u
    BY <2>1, <2>3 DEF LockKeys
  <2>4. /\ pc' = [pc EXCEPT ![t] = ReturnsInto(t)]
        /\ op' = [op EXCEPT ![t] = IF @ = "restart" THEN "start" ELSE @]
        /\ sid' = [sid EXCEPT ![t] = NoWorker]
        /\ UNCHANGED <<wid, gen, seen, loadLock, removed>>
    BY <1>2 DEF StopReturns, Goto
  <2>5. \/ op[t] = "start" /\ pc'[t] = "exclusive"
        \/ op[t] = "stopAll" /\ pc'[t] = "stopAll.next"
        \/ op[t] = "restart" /\ pc'[t] = "load.lock"
    BY <1>2, <2>4 DEF ReturnsInto
  <2>6. ASSUME NEW u \in Tasks, u # t PROVE LocksOf(u)'
    BY <2>3, <2>4, <2>6
  <2>7. LocksOf(t)'
    BY <2>2, <2>3, <2>4, <2>5
  <2>8. QED
    BY <2>6, <2>7 DEF Locks
<1>3. QED
  BY <1>1, <1>2

\* Every step keeps the locks where the coroutines' positions say.
LEMMA LocksStep == TypeInv /\ Locks /\ [Next]_vars => Locks'
<1> SUFFICES ASSUME TypeInv, Locks, [Next]_vars, NEW u \in Tasks PROVE LocksOf(u)'
  BY DEF Locks
<1> USE ConstantsAssumption
<1> USE DEF TypeInv, TypeOK, Operands, Known, Locks, LocksOf, InStart, PreSpawn, Goto,
        Goes, StartPcs, StopPcs, LockKeys,
        workerVars, lockVars, taskVars, jobVars, critVars, hostVars, rosterVars
<1>1. ASSUME NEW t \in Tasks, NEW w \in Workers, Start(t, w) PROVE LocksOf(u)'
  BY <1>1 DEF Start, Calls, Gen
<1>2. ASSUME NEW t \in Tasks, NEW w \in Workers, Stop(t, w) PROVE LocksOf(u)'
  BY <1>2 DEF Stop, Calls, Gen
<1>3. ASSUME NEW t \in Tasks, NEW w \in Workers, Restart(t, w) PROVE LocksOf(u)'
  BY <1>3 DEF Restart, Calls, Gen
<1>4. ASSUME NEW t \in Tasks, NEW w \in Workers, Remove(t, w) PROVE LocksOf(u)'
  BY <1>4 DEF Remove, Calls, Gen
<1>5. ASSUME NEW t \in Tasks, StopAll(t) PROVE LocksOf(u)'
  BY <1>5 DEF StopAll, Calls, Gen
<1>6. ASSUME NEW t \in Tasks, AcquireLoadLock(t) PROVE LocksOf(u)'
  BY <1>6 DEF AcquireLoadLock, Gen
<1>7. ASSUME NEW t \in Tasks, StartLocked(t) PROVE LocksOf(u)'
  <2>1. CASE Leave(t) /\ UNCHANGED <<workerVars, hostVars, rosterVars>>
    BY <2>1, LeaveLocks
  <2>2. CASE /\ lock' = [lock EXCEPT ![<<wid[t], gen[t]>>] = t]
             /\ Goto(t, "exclusive")
             /\ seen' = [seen EXCEPT ![t] = {wid[t]}]
             /\ size' = [size EXCEPT ![t] = Cardinality(roster)]
             /\ UNCHANGED <<op, wid, sid, gen, pid, workerVars, loadLock, hostVars, rosterVars>>
    BY <1>7, <2>2 DEF StartLocked
  <2>3. QED
    BY <1>7, <2>1, <2>2 DEF StartLocked
<1>8. ASSUME NEW t \in Tasks, ExclusiveTurn(t) PROVE LocksOf(u)'
  <2>1. CASE Leave(t) /\ UNCHANGED <<workerVars, hostVars, rosterVars>>
    BY <2>1, LeaveLocks
  <2>2. ASSUME NEW o \in Conflicting(t), CallsStop(t, o) PROVE LocksOf(u)'
    BY <1>8, <2>2 DEF ExclusiveTurn, CallsStop, Conflicting, Gen
  <2>3. CASE BeginValidation(t, wid[t])
    BY <1>8, <2>3 DEF ExclusiveTurn, BeginValidation
  <2>4. QED
    BY <1>8, <2>1, <2>2, <2>3 DEF ExclusiveTurn
<1>9. ASSUME NEW t \in Tasks, Reclaim(t) PROVE LocksOf(u)'
  BY <1>9 DEF Reclaim, FailBeforeLaunch, Leave, Returned
<1>10. ASSUME NEW t \in Tasks, Validate(t) PROVE LocksOf(u)'
  <2>1. CASE Leave(t) /\ UNCHANGED rosterVars
    BY <1>10, <2>1 DEF Validate, Leave, Returned
  <2>2. CASE Goes(t, "spawn") /\ UNCHANGED <<lockVars, rosterVars>>
    BY <1>10, <2>2 DEF Validate
  <2>3. QED
    BY <1>10, <2>1, <2>2 DEF Validate, FailBeforeLaunch
<1>11. ASSUME NEW t \in Tasks, Spawn(t) PROVE LocksOf(u)'
  BY <1>11 DEF Spawn
<1>12. ASSUME NEW t \in Tasks, SpawnFails(t) PROVE LocksOf(u)'
  BY <1>12 DEF SpawnFails, FailBeforeLaunch, Leave, Returned
<1>13. ASSUME NEW t \in Tasks, Loaded(t) PROVE LocksOf(u)'
  BY <1>13 DEF Loaded
<1>14. ASSUME NEW t \in Tasks, Verified(t) PROVE LocksOf(u)'
  BY <1>14 DEF Verified
<1>15. ASSUME NEW t \in Tasks, WarmupAnswered(t) PROVE LocksOf(u)'
  BY <1>15 DEF WarmupAnswered
<1>16. ASSUME NEW t \in Tasks, BecomeReady(t) PROVE LocksOf(u)'
  BY <1>16 DEF BecomeReady, Leave, Returned
<1>17. ASSUME NEW t \in Tasks, StartupFails(t) PROVE LocksOf(u)'
  BY <1>17 DEF StartupFails, AwaitsExit
<1>18. ASSUME NEW t \in Tasks, Aborted(t) PROVE LocksOf(u)'
  BY <1>18 DEF Aborted, Terminated, Leave, Returned
<1>19. ASSUME NEW t \in Tasks, StopLocked(t) PROVE LocksOf(u)'
  <2>1. CASE Stopped(t) /\ UNCHANGED <<spawned, live, watch, leftover, hostVars, rosterVars>>
    BY <1>19, <2>1, StopReturnsLocks DEF StopLocked, Stopped
  <2>2. CASE /\ lock' = [lock EXCEPT ![<<sid[t], gen[t]>>] = t]
             /\ state' = [state EXCEPT ![sid[t]] = "stopping"]
             /\ Goes(t, "stop.post")
             /\ UNCHANGED <<proc, spawned, live, watch, leftover, loadLock, hostVars, rosterVars>>
    BY <1>19, <2>2 DEF StopLocked
  <2>3. QED
    BY <1>19, <2>1, <2>2 DEF StopLocked
<1>20. ASSUME NEW t \in Tasks, StopPosted(t) PROVE LocksOf(u)'
  BY <1>20 DEF StopPosted, AwaitsExit, Leave, Returned
<1>21. ASSUME NEW t \in Tasks, StopExited(t) PROVE LocksOf(u)'
  BY <1>21, StopReturnsLocks DEF StopExited, Stopped
<1>22. ASSUME NEW t \in Tasks, StopTimesOut(t) PROVE LocksOf(u)'
  BY <1>22 DEF StopTimesOut, AwaitsExit
<1>23. ASSUME NEW t \in Tasks, StopKilled(t) PROVE LocksOf(u)'
  BY <1>23, StopReturnsLocks DEF StopKilled, Stopped
<1>24. ASSUME NEW t \in Tasks, StopAllTurn(t) PROVE LocksOf(u)'
  BY <1>24 DEF StopAllTurn, StopAllTodo, CallsStop, Gen, Leave, Returned
<1>25. ASSUME NEW t \in Tasks, RemoveLocked(t) PROVE LocksOf(u)'
  BY <1>25 DEF RemoveLocked, Refreshed, Leave, Returned
<1>26. ASSUME NEW t \in Tasks, Shutdown(t) PROVE LocksOf(u)'
  BY <1>26 DEF Shutdown
<1>27. ASSUME NEW w \in Workers, RegisterProfile(w) PROVE LocksOf(u)'
  BY <1>27 DEF RegisterProfile
<1>28. ASSUME NEW w \in Workers, NEW n \in 1..MaxSpawn, ProcessExits(w, n) PROVE LocksOf(u)'
  BY <1>28 DEF ProcessExits
<1>29. ASSUME NEW w \in Workers, NEW n \in 1..MaxSpawn, WatchExit(w, n) PROVE LocksOf(u)'
  BY <1>29 DEF WatchExit
<1>30. ASSUME RefreshExits PROVE LocksOf(u)'
  BY <1>30 DEF RefreshExits, Refreshed
<1>31. ASSUME EnterCritical PROVE LocksOf(u)'
  BY <1>31 DEF EnterCritical
<1>32. ASSUME CriticalTurn PROVE LocksOf(u)'
  BY <1>32 DEF CriticalTurn, Alive
<1>33. ASSUME CriticalKilled PROVE LocksOf(u)'
  BY <1>33 DEF CriticalKilled, Terminated
<1>34. ASSUME CoolDown PROVE LocksOf(u)'
  BY <1>34 DEF CoolDown
<1>35. CASE UNCHANGED vars
  BY <1>35 DEF vars
<1>36. QED
  BY <1>1, <1>2, <1>3, <1>4, <1>5, <1>6, <1>7, <1>8, <1>9, <1>10, <1>11, <1>12, <1>13, <1>14,
    <1>15, <1>16, <1>17, <1>18, <1>19, <1>20, <1>21, <1>22, <1>23, <1>24, <1>25, <1>26, <1>27,
    <1>28, <1>29, <1>30, <1>31, <1>32, <1>33, <1>34, <1>35
  DEF Next, Call, Step, StartStep, StopStep, CriticalStep

\* Layer 3 holds in the initial state and is kept by every step.
LEMMA TrackedInit == Init => Tracked
  BY DEF Init, Tracked, Found, Expects, CriticalExpects, Dead, OnlyRuns, PreSpawn, StopPcs

\* No step loses a process: none leaves a running one out of worker.process.
LEMMA FoundStep == TypeInv /\ Locks /\ Tracked /\ [Next]_vars => Found'
<1> SUFFICES ASSUME TypeInv, Locks, Tracked, [Next]_vars PROVE Found'
  OBVIOUS
<1> USE ConstantsAssumption
<1> USE DEF TypeInv, TypeOK, Operands, Known, Locks, LocksOf, Tracked, Found, Expects, CriticalExpects,
        Dead, OnlyRuns, InStart, PreSpawn, Goto, Goes, Alive, StartPcs, StopPcs,
        workerVars, lockVars, taskVars, jobVars, critVars, hostVars, rosterVars
<1>1. ASSUME NEW t \in Tasks, NEW w \in Workers, Start(t, w) PROVE Found'
  BY <1>1 DEF Start, Calls, Gen
<1>2. ASSUME NEW t \in Tasks, NEW w \in Workers, Stop(t, w) PROVE Found'
  BY <1>2 DEF Stop, Calls, Gen
<1>3. ASSUME NEW t \in Tasks, NEW w \in Workers, Restart(t, w) PROVE Found'
  BY <1>3 DEF Restart, Calls, Gen
<1>4. ASSUME NEW t \in Tasks, NEW w \in Workers, Remove(t, w) PROVE Found'
  BY <1>4 DEF Remove, Calls, Gen
<1>5. ASSUME NEW t \in Tasks, StopAll(t) PROVE Found'
  BY <1>5 DEF StopAll, Calls, Gen
<1>6. ASSUME NEW t \in Tasks, AcquireLoadLock(t) PROVE Found'
  BY <1>6 DEF AcquireLoadLock, Gen
<1>7. ASSUME NEW t \in Tasks, StartLocked(t) PROVE Found'
  BY <1>7 DEF StartLocked, Leave, Returned
<1>8. ASSUME NEW t \in Tasks, ExclusiveTurn(t) PROVE Found'
  <2>1. CASE Leave(t) /\ UNCHANGED <<workerVars, hostVars, rosterVars>>
    BY <2>1 DEF Leave, Returned
  <2>2. ASSUME NEW o \in Conflicting(t), CallsStop(t, o) PROVE Found'
    <3>1. ASSUME NEW x \in Tasks PROVE PreSpawn(x)' => PreSpawn(x)
      BY <1>8, <2>2 DEF ExclusiveTurn, CallsStop
    <3>2. pc'[t] = "stop.lock" /\ \A x \in Tasks : x # t => pc'[x] = pc[x] /\ sid'[x] = sid[x]
      BY <2>2 DEF CallsStop
    <3>3. QED
      BY <2>2, <3>1, <3>2 DEF CallsStop
  <2>3. CASE BeginValidation(t, wid[t])
    BY <1>8, <2>3 DEF ExclusiveTurn, BeginValidation
  <2>4. QED
    BY <1>8, <2>1, <2>2, <2>3 DEF ExclusiveTurn
<1>9. ASSUME NEW t \in Tasks, Reclaim(t) PROVE Found'
  BY <1>9 DEF Reclaim, FailBeforeLaunch, Leave, Returned
<1>10. ASSUME NEW t \in Tasks, Validate(t) PROVE Found'
  BY <1>10 DEF Validate, FailBeforeLaunch, Leave, Returned
<1>11. ASSUME NEW t \in Tasks, Spawn(t) PROVE Found'
  BY <1>11 DEF Spawn
<1>12. ASSUME NEW t \in Tasks, SpawnFails(t) PROVE Found'
  BY <1>12 DEF SpawnFails, FailBeforeLaunch, Leave, Returned
<1>13. ASSUME NEW t \in Tasks, Loaded(t) PROVE Found'
  BY <1>13 DEF Loaded
<1>14. ASSUME NEW t \in Tasks, Verified(t) PROVE Found'
  BY <1>14 DEF Verified
<1>15. ASSUME NEW t \in Tasks, WarmupAnswered(t) PROVE Found'
  BY <1>15 DEF WarmupAnswered
<1>16. ASSUME NEW t \in Tasks, BecomeReady(t) PROVE Found'
  BY <1>16 DEF BecomeReady, Leave, Returned
<1>17. ASSUME NEW t \in Tasks, StartupFails(t) PROVE Found'
  BY <1>17 DEF StartupFails, AwaitsExit
<1>18. ASSUME NEW t \in Tasks, Aborted(t) PROVE Found'
  BY <1>18 DEF Aborted, Terminated, Leave, Returned
<1>19. ASSUME NEW t \in Tasks, StopLocked(t) PROVE Found'
  <2>1. CASE Stopped(t) /\ ~Alive(sid[t]) /\ UNCHANGED <<live, removed>>
    <3>1. sid[t] \notin removed => Dead(sid[t])
      BY <1>19, <2>1 DEF StopLocked
    <3>2. QED
      BY <2>1, <3>1 DEF Stopped
  <2>2. CASE state' = [state EXCEPT ![sid[t]] = "stopping"] /\ UNCHANGED <<proc, live, removed>>
    BY <2>2
  <2>3. QED
    BY <1>19, <2>1, <2>2 DEF StopLocked
<1>20. ASSUME NEW t \in Tasks, StopPosted(t) PROVE Found'
  BY <1>20 DEF StopPosted, AwaitsExit, Leave, Returned
<1>21. ASSUME NEW t \in Tasks, StopExited(t) PROVE Found'
  <2>1. sid[t] \notin removed => Dead(sid[t])
    BY <1>21 DEF StopExited
  <2>2. QED
    BY <1>21, <2>1 DEF StopExited, Stopped
<1>22. ASSUME NEW t \in Tasks, StopTimesOut(t) PROVE Found'
  BY <1>22 DEF StopTimesOut, AwaitsExit
<1>23. ASSUME NEW t \in Tasks, StopKilled(t) PROVE Found'
  BY <1>23
  DEF StopKilled, Terminated, Stopped, StopReturns, ReturnsInto, Unlocked, Leave, Returned
<1>24. ASSUME NEW t \in Tasks, StopAllTurn(t) PROVE Found'
  BY <1>24 DEF StopAllTurn, StopAllTodo, CallsStop, Gen, Leave, Returned
<1>25. ASSUME NEW t \in Tasks, RemoveLocked(t) PROVE Found'
  BY <1>25 DEF RemoveLocked, Refreshed, Leave, Returned
<1>26. ASSUME NEW t \in Tasks, Shutdown(t) PROVE Found'
  BY <1>26 DEF Shutdown
<1>27. ASSUME NEW w \in Workers, RegisterProfile(w) PROVE Found'
  BY <1>27 DEF RegisterProfile
<1>28. ASSUME NEW w \in Workers, NEW n \in 1..MaxSpawn, ProcessExits(w, n) PROVE Found'
  BY <1>28 DEF ProcessExits
<1>29. ASSUME NEW w \in Workers, NEW n \in 1..MaxSpawn, WatchExit(w, n) PROVE Found'
  BY <1>29 DEF WatchExit
<1>30. ASSUME RefreshExits PROVE Found'
  BY <1>30 DEF RefreshExits, Refreshed
<1>31. ASSUME EnterCritical PROVE Found'
  BY <1>31 DEF EnterCritical
<1>32. ASSUME CriticalTurn PROVE Found'
  <2>1. CASE critPc' = "idle" /\ UNCHANGED state
    BY <1>32, <2>1 DEF CriticalTurn
  <2>2. ASSUME NEW w \in roster, Alive(w), critWid' = w, critPid' = proc[w], critPc' = "kill",
               state' = [state EXCEPT ![w] = "stopping"]
        PROVE  Found'
    BY <1>32, <2>2 DEF CriticalTurn
  <2>3. QED
    BY <1>32, <2>1, <2>2 DEF CriticalTurn
<1>33. ASSUME CriticalKilled PROVE Found'
  BY <1>33 DEF CriticalKilled, Terminated
<1>34. ASSUME CoolDown PROVE Found'
  BY <1>34 DEF CoolDown
<1>35. CASE UNCHANGED vars
  BY <1>35 DEF vars
<1>36. QED
  BY <1>1, <1>2, <1>3, <1>4, <1>5, <1>6, <1>7, <1>8, <1>9, <1>10, <1>11, <1>12, <1>13, <1>14,
    <1>15, <1>16, <1>17, <1>18, <1>19, <1>20, <1>21, <1>22, <1>23, <1>24, <1>25, <1>26, <1>27,
    <1>28, <1>29, <1>30, <1>31, <1>32, <1>33, <1>34, <1>35
  DEF Next, Call, Step, StartStep, StopStep, CriticalStep

\* No step brings up a process that a launch or a waiting stop() does not expect.
LEMMA ExpectsStep == TypeInv /\ Locks /\ Tracked /\ [Next]_vars => \A u \in Tasks : Expects(u)'
<1> SUFFICES ASSUME TypeInv, Locks, Tracked, [Next]_vars, NEW u \in Tasks PROVE Expects(u)'
  OBVIOUS
<1> USE ConstantsAssumption
<1> USE DEF TypeInv, TypeOK, Operands, Known, Locks, LocksOf, Tracked, Found, Expects, CriticalExpects,
        Dead, OnlyRuns, InStart, PreSpawn, Goto, Goes, Alive, StartPcs, StopPcs,
        workerVars, lockVars, taskVars, jobVars, critVars, hostVars, rosterVars
<1>1. ASSUME NEW t \in Tasks, NEW w \in Workers, Start(t, w) PROVE Expects(u)'
  BY <1>1 DEF Start, Calls, Gen
<1>2. ASSUME NEW t \in Tasks, NEW w \in Workers, Stop(t, w) PROVE Expects(u)'
  BY <1>2 DEF Stop, Calls, Gen
<1>3. ASSUME NEW t \in Tasks, NEW w \in Workers, Restart(t, w) PROVE Expects(u)'
  BY <1>3 DEF Restart, Calls, Gen
<1>4. ASSUME NEW t \in Tasks, NEW w \in Workers, Remove(t, w) PROVE Expects(u)'
  BY <1>4 DEF Remove, Calls, Gen
<1>5. ASSUME NEW t \in Tasks, StopAll(t) PROVE Expects(u)'
  BY <1>5 DEF StopAll, Calls, Gen
<1>6. ASSUME NEW t \in Tasks, AcquireLoadLock(t) PROVE Expects(u)'
  BY <1>6 DEF AcquireLoadLock, Gen
<1>7. ASSUME NEW t \in Tasks, StartLocked(t) PROVE Expects(u)'
  <2>1. CASE Leave(t) /\ UNCHANGED <<workerVars, hostVars, rosterVars>>
    BY <2>1 DEF Leave, Returned
  <2>2. CASE ~AlreadyRunning(wid[t]) /\ thermal = "admit"
    <3>1. wid[t] \notin removed => Dead(wid[t])
      <4>1. wid[t] \in Workers /\ <<wid[t], proc[wid[t]]>> \notin live
        BY <1>7, <2>2 DEF StartLocked, AlreadyRunning
      <4>2. QED
        BY <4>1, ZenonT(60)
    <3>2. QED
      BY <1>7, <2>2, <3>1 DEF StartLocked
  <2>3. QED
    BY <1>7, <2>1, <2>2 DEF StartLocked
<1>8. ASSUME NEW t \in Tasks, ExclusiveTurn(t) PROVE Expects(u)'
  <2>1. CASE Leave(t) /\ UNCHANGED <<workerVars, hostVars, rosterVars>>
    BY <2>1 DEF Leave, Returned
  <2>2. ASSUME NEW o \in Conflicting(t), CallsStop(t, o) PROVE Expects(u)'
    <3>1. ASSUME NEW x \in Tasks PROVE PreSpawn(x)' => PreSpawn(x)
      BY <1>8, <2>2 DEF ExclusiveTurn, CallsStop
    <3>2. pc'[t] = "stop.lock" /\ \A x \in Tasks : x # t => pc'[x] = pc[x] /\ sid'[x] = sid[x]
      BY <2>2 DEF CallsStop
    <3>3. QED
      BY <2>2, <3>1, <3>2 DEF CallsStop
  <2>3. CASE BeginValidation(t, wid[t])
    BY <1>8, <2>3 DEF ExclusiveTurn, BeginValidation
  <2>4. QED
    BY <1>8, <2>1, <2>2, <2>3 DEF ExclusiveTurn
<1>9. ASSUME NEW t \in Tasks, Reclaim(t) PROVE Expects(u)'
  BY <1>9 DEF Reclaim, FailBeforeLaunch, Leave, Returned
<1>10. ASSUME NEW t \in Tasks, Validate(t) PROVE Expects(u)'
  BY <1>10 DEF Validate, FailBeforeLaunch, Leave, Returned
<1>11. ASSUME NEW t \in Tasks, Spawn(t) PROVE Expects(u)'
  <2>1. CASE u = t
    BY <1>11, <2>1 DEF Spawn
  <2>2. CASE u # t
    <3>1. ~PreSpawn(u)
      BY <1>11, <2>2 DEF Spawn
    <3>2. pc[u] \in {"stop.wait", "stop.kill"} /\ sid[u] \notin removed => sid[u] # wid[t]
      <4>1. wid[t] \notin removed => lock[<<wid[t], 0>>] = t
        BY <1>11 DEF Spawn
      <4>2. pc[u] \in {"stop.wait", "stop.kill"} /\ sid[u] \notin removed => lock[<<sid[u], 0>>] = u
        OBVIOUS
      <4>3. QED
        BY <2>2, <4>1, <4>2
    <3>3. QED
      BY <1>11, <2>2, <3>1, <3>2 DEF Spawn
  <2>3. QED
    BY <2>1, <2>2
<1>12. ASSUME NEW t \in Tasks, SpawnFails(t) PROVE Expects(u)'
  BY <1>12 DEF SpawnFails, FailBeforeLaunch, Leave, Returned
<1>13. ASSUME NEW t \in Tasks, Loaded(t) PROVE Expects(u)'
  BY <1>13 DEF Loaded
<1>14. ASSUME NEW t \in Tasks, Verified(t) PROVE Expects(u)'
  BY <1>14 DEF Verified
<1>15. ASSUME NEW t \in Tasks, WarmupAnswered(t) PROVE Expects(u)'
  BY <1>15 DEF WarmupAnswered
<1>16. ASSUME NEW t \in Tasks, BecomeReady(t) PROVE Expects(u)'
  BY <1>16 DEF BecomeReady, Leave, Returned
<1>17. ASSUME NEW t \in Tasks, StartupFails(t) PROVE Expects(u)'
  BY <1>17 DEF StartupFails, AwaitsExit
<1>18. ASSUME NEW t \in Tasks, Aborted(t) PROVE Expects(u)'
  BY <1>18 DEF Aborted, Terminated, Leave, Returned
<1>19. ASSUME NEW t \in Tasks, StopLocked(t) PROVE Expects(u)'
  BY <1>19, SMTT(30) DEF StopLocked, Stopped, StopReturns, ReturnsInto, Unlocked, Leave, Returned
<1>20. ASSUME NEW t \in Tasks, StopPosted(t) PROVE Expects(u)'
  BY <1>20 DEF StopPosted, AwaitsExit, Leave, Returned
<1>21. ASSUME NEW t \in Tasks, StopExited(t) PROVE Expects(u)'
  <2>1. CASE u = t
    BY <1>21, <2>1 DEF StopExited, Stopped, StopReturns, ReturnsInto, Leave, Returned
  <2>2. CASE u # t
    BY <1>21, <2>2 DEF StopExited, Stopped, StopReturns, Leave, Returned
  <2>3. QED
    BY <2>1, <2>2
<1>22. ASSUME NEW t \in Tasks, StopTimesOut(t) PROVE Expects(u)'
  BY <1>22 DEF StopTimesOut, AwaitsExit
<1>23. ASSUME NEW t \in Tasks, StopKilled(t) PROVE Expects(u)'
  BY <1>23, SMTT(30)
  DEF StopKilled, Terminated, Stopped, StopReturns, ReturnsInto, Unlocked, Leave, Returned
<1>24. ASSUME NEW t \in Tasks, StopAllTurn(t) PROVE Expects(u)'
  BY <1>24, SMTT(30) DEF StopAllTurn, StopAllTodo, CallsStop, Gen, Leave, Returned
<1>25. ASSUME NEW t \in Tasks, RemoveLocked(t) PROVE Expects(u)'
  BY <1>25 DEF RemoveLocked, Refreshed, Leave, Returned
<1>26. ASSUME NEW t \in Tasks, Shutdown(t) PROVE Expects(u)'
  BY <1>26 DEF Shutdown
<1>27. ASSUME NEW w \in Workers, RegisterProfile(w) PROVE Expects(u)'
  BY <1>27 DEF RegisterProfile
<1>28. ASSUME NEW w \in Workers, NEW n \in 1..MaxSpawn, ProcessExits(w, n) PROVE Expects(u)'
  BY <1>28 DEF ProcessExits
<1>29. ASSUME NEW w \in Workers, NEW n \in 1..MaxSpawn, WatchExit(w, n) PROVE Expects(u)'
  BY <1>29 DEF WatchExit
<1>30. ASSUME RefreshExits PROVE Expects(u)'
  BY <1>30 DEF RefreshExits, Refreshed
<1>31. ASSUME EnterCritical PROVE Expects(u)'
  BY <1>31 DEF EnterCritical
<1>32. ASSUME CriticalTurn PROVE Expects(u)'
  BY <1>32 DEF CriticalTurn, Alive
<1>33. ASSUME CriticalKilled PROVE Expects(u)'
  BY <1>33 DEF CriticalKilled, Terminated
<1>34. ASSUME CoolDown PROVE Expects(u)'
  BY <1>34 DEF CoolDown
<1>35. CASE UNCHANGED vars
  BY <1>35 DEF vars
<1>36. QED
  BY <1>1, <1>2, <1>3, <1>4, <1>5, <1>6, <1>7, <1>8, <1>9, <1>10, <1>11, <1>12, <1>13, <1>14,
    <1>15, <1>16, <1>17, <1>18, <1>19, <1>20, <1>21, <1>22, <1>23, <1>24, <1>25, <1>26, <1>27,
    <1>28, <1>29, <1>30, <1>31, <1>32, <1>33, <1>34, <1>35
  DEF Next, Call, Step, StartStep, StopStep, CriticalStep

\* No step launches the Worker that the critical handler is killing.
LEMMA CriticalExpectsStep == TypeInv /\ Locks /\ Tracked /\ [Next]_vars => CriticalExpects'
<1> SUFFICES ASSUME TypeInv, Locks, Tracked, [Next]_vars PROVE CriticalExpects'
  OBVIOUS
<1> USE ConstantsAssumption
<1> USE DEF TypeInv, TypeOK, Operands, Known, Locks, LocksOf, Tracked, Found, Expects, CriticalExpects,
        Dead, OnlyRuns, InStart, PreSpawn, Goto, Goes, Alive, StartPcs, StopPcs,
        workerVars, lockVars, taskVars, jobVars, critVars, hostVars, rosterVars
<1>1. ASSUME NEW t \in Tasks, NEW w \in Workers, Start(t, w) PROVE CriticalExpects'
  BY <1>1 DEF Start, Calls, Gen
<1>2. ASSUME NEW t \in Tasks, NEW w \in Workers, Stop(t, w) PROVE CriticalExpects'
  BY <1>2 DEF Stop, Calls, Gen
<1>3. ASSUME NEW t \in Tasks, NEW w \in Workers, Restart(t, w) PROVE CriticalExpects'
  BY <1>3 DEF Restart, Calls, Gen
<1>4. ASSUME NEW t \in Tasks, NEW w \in Workers, Remove(t, w) PROVE CriticalExpects'
  BY <1>4 DEF Remove, Calls, Gen
<1>5. ASSUME NEW t \in Tasks, StopAll(t) PROVE CriticalExpects'
  BY <1>5 DEF StopAll, Calls, Gen
<1>6. ASSUME NEW t \in Tasks, AcquireLoadLock(t) PROVE CriticalExpects'
  BY <1>6 DEF AcquireLoadLock, Gen
<1>7. ASSUME NEW t \in Tasks, StartLocked(t) PROVE CriticalExpects'
  BY <1>7, SMTT(30) DEF StartLocked, Leave, Returned
<1>8. ASSUME NEW t \in Tasks, ExclusiveTurn(t) PROVE CriticalExpects'
  <2>1. CASE Leave(t) /\ UNCHANGED <<workerVars, hostVars, rosterVars>>
    BY <2>1 DEF Leave, Returned
  <2>2. ASSUME NEW o \in Conflicting(t), CallsStop(t, o) PROVE CriticalExpects'
    <3>1. ASSUME NEW x \in Tasks PROVE PreSpawn(x)' => PreSpawn(x)
      BY <1>8, <2>2 DEF ExclusiveTurn, CallsStop
    <3>2. pc'[t] = "stop.lock" /\ \A x \in Tasks : x # t => pc'[x] = pc[x] /\ sid'[x] = sid[x]
      BY <2>2 DEF CallsStop
    <3>3. QED
      BY <2>2, <3>1, <3>2 DEF CallsStop
  <2>3. CASE BeginValidation(t, wid[t])
    BY <1>8, <2>3 DEF ExclusiveTurn, BeginValidation
  <2>4. QED
    BY <1>8, <2>1, <2>2, <2>3 DEF ExclusiveTurn
<1>9. ASSUME NEW t \in Tasks, Reclaim(t) PROVE CriticalExpects'
  BY <1>9 DEF Reclaim, FailBeforeLaunch, Leave, Returned
<1>10. ASSUME NEW t \in Tasks, Validate(t) PROVE CriticalExpects'
  BY <1>10 DEF Validate, FailBeforeLaunch, Leave, Returned
<1>11. ASSUME NEW t \in Tasks, Spawn(t) PROVE CriticalExpects'
  BY <1>11 DEF Spawn
<1>12. ASSUME NEW t \in Tasks, SpawnFails(t) PROVE CriticalExpects'
  BY <1>12 DEF SpawnFails, FailBeforeLaunch, Leave, Returned
<1>13. ASSUME NEW t \in Tasks, Loaded(t) PROVE CriticalExpects'
  BY <1>13 DEF Loaded
<1>14. ASSUME NEW t \in Tasks, Verified(t) PROVE CriticalExpects'
  BY <1>14 DEF Verified
<1>15. ASSUME NEW t \in Tasks, WarmupAnswered(t) PROVE CriticalExpects'
  BY <1>15 DEF WarmupAnswered
<1>16. ASSUME NEW t \in Tasks, BecomeReady(t) PROVE CriticalExpects'
  BY <1>16 DEF BecomeReady, Leave, Returned
<1>17. ASSUME NEW t \in Tasks, StartupFails(t) PROVE CriticalExpects'
  BY <1>17 DEF StartupFails, AwaitsExit
<1>18. ASSUME NEW t \in Tasks, Aborted(t) PROVE CriticalExpects'
  BY <1>18 DEF Aborted, Terminated, Leave, Returned
<1>19. ASSUME NEW t \in Tasks, StopLocked(t) PROVE CriticalExpects'
  <2>1. ASSUME NEW u \in Tasks PROVE PreSpawn(u)' => PreSpawn(u)
    BY <1>19 DEF StopLocked, Stopped, StopReturns, ReturnsInto, Leave, Returned
  <2>2. QED
    BY <1>19, <2>1 DEF StopLocked, Stopped, StopReturns, Leave, Returned
<1>20. ASSUME NEW t \in Tasks, StopPosted(t) PROVE CriticalExpects'
  BY <1>20, SMTT(30) DEF StopPosted, AwaitsExit, Leave, Returned
<1>21. ASSUME NEW t \in Tasks, StopExited(t) PROVE CriticalExpects'
  <2>1. ASSUME NEW u \in Tasks PROVE PreSpawn(u)' => PreSpawn(u)
    BY <1>21
    DEF StopExited, Stopped, StopReturns, ReturnsInto, Unlocked, Leave, Returned
  <2>2. QED
    BY <1>21, <2>1
    DEF StopExited, Stopped, StopReturns, Unlocked, Leave, Returned
<1>22. ASSUME NEW t \in Tasks, StopTimesOut(t) PROVE CriticalExpects'
  BY <1>22 DEF StopTimesOut, AwaitsExit
<1>23. ASSUME NEW t \in Tasks, StopKilled(t) PROVE CriticalExpects'
  <2>1. ASSUME NEW u \in Tasks PROVE PreSpawn(u)' => PreSpawn(u)
    BY <1>23
    DEF StopKilled, Terminated, Stopped, StopReturns, ReturnsInto, Unlocked, Leave, Returned
  <2>2. QED
    BY <1>23, <2>1
    DEF StopKilled, Terminated, Stopped, StopReturns, Unlocked, Leave, Returned
<1>24. ASSUME NEW t \in Tasks, StopAllTurn(t) PROVE CriticalExpects'
  BY <1>24 DEF StopAllTurn, StopAllTodo, CallsStop, Gen, Leave, Returned
<1>25. ASSUME NEW t \in Tasks, RemoveLocked(t) PROVE CriticalExpects'
  BY <1>25 DEF RemoveLocked, Refreshed, Leave, Returned
<1>26. ASSUME NEW t \in Tasks, Shutdown(t) PROVE CriticalExpects'
  BY <1>26 DEF Shutdown
<1>27. ASSUME NEW w \in Workers, RegisterProfile(w) PROVE CriticalExpects'
  BY <1>27 DEF RegisterProfile
<1>28. ASSUME NEW w \in Workers, NEW n \in 1..MaxSpawn, ProcessExits(w, n) PROVE CriticalExpects'
  BY <1>28 DEF ProcessExits
<1>29. ASSUME NEW w \in Workers, NEW n \in 1..MaxSpawn, WatchExit(w, n) PROVE CriticalExpects'
  BY <1>29 DEF WatchExit
<1>30. ASSUME RefreshExits PROVE CriticalExpects'
  BY <1>30 DEF RefreshExits, Refreshed
<1>31. ASSUME EnterCritical PROVE CriticalExpects'
  BY <1>31 DEF EnterCritical
<1>32. ASSUME CriticalTurn PROVE CriticalExpects'
  <2>1. CASE critPc' = "idle" /\ UNCHANGED state
    BY <1>32, <2>1 DEF CriticalTurn
  <2>2. ASSUME NEW w \in roster, Alive(w), critWid' = w, critPid' = proc[w], critPc' = "kill",
               state' = [state EXCEPT ![w] = "stopping"]
        PROVE  CriticalExpects'
    BY <1>32, <2>2 DEF CriticalTurn
  <2>3. QED
    BY <1>32, <2>1, <2>2 DEF CriticalTurn
<1>33. ASSUME CriticalKilled PROVE CriticalExpects'
  BY <1>33 DEF CriticalKilled, Terminated
<1>34. ASSUME CoolDown PROVE CriticalExpects'
  BY <1>34 DEF CoolDown
<1>35. CASE UNCHANGED vars
  BY <1>35 DEF vars
<1>36. QED
  BY <1>1, <1>2, <1>3, <1>4, <1>5, <1>6, <1>7, <1>8, <1>9, <1>10, <1>11, <1>12, <1>13, <1>14,
    <1>15, <1>16, <1>17, <1>18, <1>19, <1>20, <1>21, <1>22, <1>23, <1>24, <1>25, <1>26, <1>27,
    <1>28, <1>29, <1>30, <1>31, <1>32, <1>33, <1>34, <1>35
  DEF Next, Call, Step, StartStep, StopStep, CriticalStep

\* Layer 4 holds in the initial state and is kept by every step.
LEMMA AloneInit == Init => Alone /\ Launching
  BY DEF Init, Alone, OneRuns, Cleared, NoneRuns, Reserved, Launching, Busy, StopPcs

\* No step makes two exclusive Workers run.
LEMMA OneRunsStep == TypeInv /\ Locks /\ Tracked /\ Alone /\ [Next]_vars => OneRuns'
<1> SUFFICES ASSUME TypeInv, Locks, Tracked, Alone, [Next]_vars PROVE OneRuns'
  OBVIOUS
<1> USE ConstantsAssumption
<1> USE DEF TypeInv, TypeOK, Operands, Known, Locks, LocksOf, InStart, PreSpawn, Goto,
        Goes, StartPcs, StopPcs,
        Alone, OneRuns, Cleared, NoneRuns, Reserved,
        workerVars, lockVars, taskVars, jobVars, critVars, hostVars, rosterVars
<1>1. ASSUME NEW t \in Tasks, NEW w \in Workers, Start(t, w) PROVE OneRuns'
  BY <1>1 DEF Start, Calls, Gen
<1>2. ASSUME NEW t \in Tasks, NEW w \in Workers, Stop(t, w) PROVE OneRuns'
  BY <1>2 DEF Stop, Calls, Gen
<1>3. ASSUME NEW t \in Tasks, NEW w \in Workers, Restart(t, w) PROVE OneRuns'
  BY <1>3 DEF Restart, Calls, Gen
<1>4. ASSUME NEW t \in Tasks, NEW w \in Workers, Remove(t, w) PROVE OneRuns'
  BY <1>4 DEF Remove, Calls, Gen
<1>5. ASSUME NEW t \in Tasks, StopAll(t) PROVE OneRuns'
  BY <1>5 DEF StopAll, Calls, Gen
<1>6. ASSUME NEW t \in Tasks, AcquireLoadLock(t) PROVE OneRuns'
  BY <1>6 DEF AcquireLoadLock, Gen
<1>7. ASSUME NEW t \in Tasks, StartLocked(t) PROVE OneRuns'
  BY <1>7 DEF StartLocked, Leave, Returned
<1>8. ASSUME NEW t \in Tasks, ExclusiveTurn(t) PROVE OneRuns'
  BY <1>8 DEF ExclusiveTurn, Leave, Returned, CallsStop, Conflicting, Gen, BeginValidation
<1>9. ASSUME NEW t \in Tasks, Reclaim(t) PROVE OneRuns'
  BY <1>9 DEF Reclaim, FailBeforeLaunch, Leave, Returned
<1>10. ASSUME NEW t \in Tasks, Validate(t) PROVE OneRuns'
  BY <1>10 DEF Validate, FailBeforeLaunch, Leave, Returned
<1>11. ASSUME NEW t \in Tasks, Spawn(t) PROVE OneRuns'
  BY <1>11 DEF Spawn
<1>12. ASSUME NEW t \in Tasks, SpawnFails(t) PROVE OneRuns'
  BY <1>12 DEF SpawnFails, FailBeforeLaunch, Leave, Returned
<1>13. ASSUME NEW t \in Tasks, Loaded(t) PROVE OneRuns'
  BY <1>13 DEF Loaded
<1>14. ASSUME NEW t \in Tasks, Verified(t) PROVE OneRuns'
  BY <1>14 DEF Verified
<1>15. ASSUME NEW t \in Tasks, WarmupAnswered(t) PROVE OneRuns'
  BY <1>15 DEF WarmupAnswered
<1>16. ASSUME NEW t \in Tasks, BecomeReady(t) PROVE OneRuns'
  BY <1>16 DEF BecomeReady, Leave, Returned
<1>17. ASSUME NEW t \in Tasks, StartupFails(t) PROVE OneRuns'
  BY <1>17 DEF StartupFails, AwaitsExit
<1>18. ASSUME NEW t \in Tasks, Aborted(t) PROVE OneRuns'
  BY <1>18 DEF Aborted, Terminated, Leave, Returned
<1>19. ASSUME NEW t \in Tasks, StopLocked(t) PROVE OneRuns'
  BY <1>19 DEF StopLocked, Stopped, StopReturns, ReturnsInto, Unlocked, Leave, Returned
<1>20. ASSUME NEW t \in Tasks, StopPosted(t) PROVE OneRuns'
  BY <1>20 DEF StopPosted, AwaitsExit, Leave, Returned
<1>21. ASSUME NEW t \in Tasks, StopExited(t) PROVE OneRuns'
  BY <1>21 DEF StopExited, Stopped, StopReturns, ReturnsInto, Unlocked, Leave, Returned
<1>22. ASSUME NEW t \in Tasks, StopTimesOut(t) PROVE OneRuns'
  BY <1>22 DEF StopTimesOut, AwaitsExit
<1>23. ASSUME NEW t \in Tasks, StopKilled(t) PROVE OneRuns'
  BY <1>23
  DEF StopKilled, Terminated, Stopped, StopReturns, ReturnsInto, Unlocked, Leave, Returned
<1>24. ASSUME NEW t \in Tasks, StopAllTurn(t) PROVE OneRuns'
  BY <1>24 DEF StopAllTurn, StopAllTodo, CallsStop, Gen, Leave, Returned
<1>25. ASSUME NEW t \in Tasks, RemoveLocked(t) PROVE OneRuns'
  BY <1>25 DEF RemoveLocked, Refreshed, Leave, Returned
<1>26. ASSUME NEW t \in Tasks, Shutdown(t) PROVE OneRuns'
  BY <1>26 DEF Shutdown
<1>27. ASSUME NEW w \in Workers, RegisterProfile(w) PROVE OneRuns'
  BY <1>27 DEF RegisterProfile
<1>28. ASSUME NEW w \in Workers, NEW n \in 1..MaxSpawn, ProcessExits(w, n) PROVE OneRuns'
  BY <1>28 DEF ProcessExits
<1>29. ASSUME NEW w \in Workers, NEW n \in 1..MaxSpawn, WatchExit(w, n) PROVE OneRuns'
  BY <1>29 DEF WatchExit
<1>30. ASSUME RefreshExits PROVE OneRuns'
  BY <1>30 DEF RefreshExits, Refreshed
<1>31. ASSUME EnterCritical PROVE OneRuns'
  BY <1>31 DEF EnterCritical
<1>32. ASSUME CriticalTurn PROVE OneRuns'
  BY <1>32 DEF CriticalTurn, Alive
<1>33. ASSUME CriticalKilled PROVE OneRuns'
  BY <1>33 DEF CriticalKilled, Terminated
<1>34. ASSUME CoolDown PROVE OneRuns'
  BY <1>34 DEF CoolDown
<1>35. CASE UNCHANGED vars
  BY <1>35 DEF vars
<1>36. QED
  BY <1>1, <1>2, <1>3, <1>4, <1>5, <1>6, <1>7, <1>8, <1>9, <1>10, <1>11, <1>12, <1>13, <1>14,
    <1>15, <1>16, <1>17, <1>18, <1>19, <1>20, <1>21, <1>22, <1>23, <1>24, <1>25, <1>26, <1>27,
    <1>28, <1>29, <1>30, <1>31, <1>32, <1>33, <1>34, <1>35
  DEF Next, Call, Step, StartStep, StopStep, CriticalStep

\* No step revives an exclusive Worker that a start() has already passed.
LEMMA ClearedStep == TypeInv /\ Locks /\ Tracked /\ Alone /\ [Next]_vars => \A u \in Tasks : Cleared(u)'
<1> SUFFICES ASSUME TypeInv, Locks, Tracked, Alone, [Next]_vars, NEW u \in Tasks PROVE Cleared(u)'
  OBVIOUS
<1> USE ConstantsAssumption
<1> USE DEF TypeInv, TypeOK, Operands, Known, Locks, LocksOf, InStart, PreSpawn, Goto,
        Goes, StartPcs, StopPcs,
        Alone, OneRuns, Cleared, NoneRuns, Reserved,
        workerVars, lockVars, taskVars, jobVars, critVars, hostVars, rosterVars
<1>1. ASSUME NEW t \in Tasks, NEW w \in Workers, Start(t, w) PROVE Cleared(u)'
  BY <1>1 DEF Start, Calls, Gen
<1>2. ASSUME NEW t \in Tasks, NEW w \in Workers, Stop(t, w) PROVE Cleared(u)'
  BY <1>2 DEF Stop, Calls, Gen
<1>3. ASSUME NEW t \in Tasks, NEW w \in Workers, Restart(t, w) PROVE Cleared(u)'
  BY <1>3 DEF Restart, Calls, Gen
<1>4. ASSUME NEW t \in Tasks, NEW w \in Workers, Remove(t, w) PROVE Cleared(u)'
  BY <1>4 DEF Remove, Calls, Gen
<1>5. ASSUME NEW t \in Tasks, StopAll(t) PROVE Cleared(u)'
  BY <1>5 DEF StopAll, Calls, Gen
<1>6. ASSUME NEW t \in Tasks, AcquireLoadLock(t) PROVE Cleared(u)'
  BY <1>6 DEF AcquireLoadLock, Gen
<1>7. ASSUME NEW t \in Tasks, StartLocked(t) PROVE Cleared(u)'
  BY <1>7 DEF StartLocked, Leave, Returned
<1>8. ASSUME NEW t \in Tasks, ExclusiveTurn(t) PROVE Cleared(u)'
  <2>1. CASE Leave(t) /\ UNCHANGED <<workerVars, hostVars, rosterVars>>
    BY <2>1 DEF Leave, Returned
  <2>2. ASSUME NEW o \in Conflicting(t), CallsStop(t, o) PROVE Cleared(u)'
    BY <1>8, <2>2 DEF ExclusiveTurn, CallsStop
  <2>3. CASE BeginValidation(t, wid[t]) /\ (wid[t] \in Exclusive => Conflicting(t) = {})
    <3>1. ASSUME NEW v \in Reserved, NEW n \in 1..MaxSpawn, <<v, n>> \in live, wid[t] \in Exclusive
          PROVE  FALSE
      <4>1. v \in roster /\ v \notin removed /\ v \in Workers
        BY <3>1
      <4>2. Alive(v)
        BY <3>1, <4>1 DEF Tracked, Found, Alive
      <4>3. v # wid[t]
        BY <1>8, <3>1, <4>1 DEF ExclusiveTurn, Tracked, Expects, Dead
      <4>4. v \notin seen[t]
        BY <1>8, <3>1, <4>3 DEF ExclusiveTurn
      <4>5. QED
        BY <2>3, <3>1, <4>1, <4>2, <4>4 DEF Conflicting
    <3>2. QED
      BY <2>3, <3>1 DEF BeginValidation
  <2>4. QED
    BY <1>8, <2>1, <2>2, <2>3 DEF ExclusiveTurn
<1>9. ASSUME NEW t \in Tasks, Reclaim(t) PROVE Cleared(u)'
  BY <1>9 DEF Reclaim, FailBeforeLaunch, Leave, Returned
<1>10. ASSUME NEW t \in Tasks, Validate(t) PROVE Cleared(u)'
  BY <1>10 DEF Validate, FailBeforeLaunch, Leave, Returned
<1>11. ASSUME NEW t \in Tasks, Spawn(t) PROVE Cleared(u)'
  BY <1>11, ZenonT(60) DEF Spawn
<1>12. ASSUME NEW t \in Tasks, SpawnFails(t) PROVE Cleared(u)'
  BY <1>12 DEF SpawnFails, FailBeforeLaunch, Leave, Returned
<1>13. ASSUME NEW t \in Tasks, Loaded(t) PROVE Cleared(u)'
  BY <1>13 DEF Loaded
<1>14. ASSUME NEW t \in Tasks, Verified(t) PROVE Cleared(u)'
  BY <1>14 DEF Verified
<1>15. ASSUME NEW t \in Tasks, WarmupAnswered(t) PROVE Cleared(u)'
  BY <1>15 DEF WarmupAnswered
<1>16. ASSUME NEW t \in Tasks, BecomeReady(t) PROVE Cleared(u)'
  BY <1>16 DEF BecomeReady, Leave, Returned
<1>17. ASSUME NEW t \in Tasks, StartupFails(t) PROVE Cleared(u)'
  BY <1>17 DEF StartupFails, AwaitsExit
<1>18. ASSUME NEW t \in Tasks, Aborted(t) PROVE Cleared(u)'
  BY <1>18 DEF Aborted, Terminated, Leave, Returned
<1>19. ASSUME NEW t \in Tasks, StopLocked(t) PROVE Cleared(u)'
  <2>1. CASE Stopped(t) /\ ~Alive(sid[t]) /\ UNCHANGED <<live, removed>>
    <3>1. sid[t] \notin removed => NoneRuns({sid[t]})
      BY <1>19, <2>1 DEF StopLocked, Tracked, Found, Alive
    <3>2. StopReturns(t) /\ pc[t] \in StopPcs
      BY <1>19, <2>1 DEF StopLocked, Stopped
    <3>3. CASE u # t
      BY <2>1, <3>2, <3>3 DEF StopReturns, Leave, Returned
    <3>4. CASE u = t
      BY <2>1, <3>1, <3>2, <3>4, SMTT(30) DEF StopReturns, ReturnsInto, Leave, Returned
    <3>5. QED
      BY <3>3, <3>4
  <2>2. CASE pc[t] = "stop.lock" /\ Goes(t, "stop.post") /\ UNCHANGED <<live, removed>>
    BY <2>2
  <2>3. QED
    BY <1>19, <2>1, <2>2 DEF StopLocked
<1>20. ASSUME NEW t \in Tasks, StopPosted(t) PROVE Cleared(u)'
  BY <1>20 DEF StopPosted, AwaitsExit, Leave, Returned
<1>21. ASSUME NEW t \in Tasks, StopExited(t) PROVE Cleared(u)'
  <2>1. live' \subseteq live /\ (sid[t] \notin removed => \A n \in 1..MaxSpawn : <<sid[t], n>> \notin live')
    BY <1>21 DEF StopExited, Tracked, Found, Expects, Dead, OnlyRuns, Alive
  <2>2. StopReturns(t) /\ removed' = removed
    BY <1>21 DEF StopExited, Stopped
  <2>3. pc[t] \in StopPcs
    BY <1>21 DEF StopExited
  <2>4. CASE u # t
    BY <2>1, <2>2, <2>4 DEF StopReturns, Leave, Returned
  <2>5. CASE u = t
    BY <2>1, <2>2, <2>3, <2>5, SMTT(30) DEF StopReturns, ReturnsInto, Leave, Returned
  <2>6. QED
    BY <2>4, <2>5
<1>22. ASSUME NEW t \in Tasks, StopTimesOut(t) PROVE Cleared(u)'
  BY <1>22 DEF StopTimesOut, AwaitsExit
<1>23. ASSUME NEW t \in Tasks, StopKilled(t) PROVE Cleared(u)'
  <2>1. live' \subseteq live /\ (sid[t] \notin removed => \A n \in 1..MaxSpawn : <<sid[t], n>> \notin live')
    BY <1>23 DEF StopKilled, Terminated, Tracked, Found, Expects, Dead, OnlyRuns, Alive
  <2>2. StopReturns(t) /\ removed' = removed
    BY <1>23 DEF StopKilled, Stopped
  <2>3. pc[t] \in StopPcs
    BY <1>23 DEF StopKilled
  <2>4. CASE u # t
    BY <2>1, <2>2, <2>4 DEF StopReturns, Leave, Returned
  <2>5. CASE u = t
    BY <2>1, <2>2, <2>3, <2>5, SMTT(30) DEF StopReturns, ReturnsInto, Leave, Returned
  <2>6. QED
    BY <2>4, <2>5
<1>24. ASSUME NEW t \in Tasks, StopAllTurn(t) PROVE Cleared(u)'
  BY <1>24, SMTT(30) DEF StopAllTurn, StopAllTodo, CallsStop, Gen, Leave, Returned
<1>25. ASSUME NEW t \in Tasks, RemoveLocked(t) PROVE Cleared(u)'
  BY <1>25 DEF RemoveLocked, Refreshed, Leave, Returned
<1>26. ASSUME NEW t \in Tasks, Shutdown(t) PROVE Cleared(u)'
  BY <1>26 DEF Shutdown
<1>27. ASSUME NEW w \in Workers, RegisterProfile(w) PROVE Cleared(u)'
  BY <1>27 DEF RegisterProfile
<1>28. ASSUME NEW w \in Workers, NEW n \in 1..MaxSpawn, ProcessExits(w, n) PROVE Cleared(u)'
  BY <1>28 DEF ProcessExits
<1>29. ASSUME NEW w \in Workers, NEW n \in 1..MaxSpawn, WatchExit(w, n) PROVE Cleared(u)'
  BY <1>29 DEF WatchExit
<1>30. ASSUME RefreshExits PROVE Cleared(u)'
  BY <1>30 DEF RefreshExits, Refreshed
<1>31. ASSUME EnterCritical PROVE Cleared(u)'
  BY <1>31 DEF EnterCritical
<1>32. ASSUME CriticalTurn PROVE Cleared(u)'
  BY <1>32 DEF CriticalTurn, Alive
<1>33. ASSUME CriticalKilled PROVE Cleared(u)'
  BY <1>33 DEF CriticalKilled, Terminated
<1>34. ASSUME CoolDown PROVE Cleared(u)'
  BY <1>34 DEF CoolDown
<1>35. CASE UNCHANGED vars
  BY <1>35 DEF vars
<1>36. QED
  BY <1>1, <1>2, <1>3, <1>4, <1>5, <1>6, <1>7, <1>8, <1>9, <1>10, <1>11, <1>12, <1>13, <1>14,
    <1>15, <1>16, <1>17, <1>18, <1>19, <1>20, <1>21, <1>22, <1>23, <1>24, <1>25, <1>26, <1>27,
    <1>28, <1>29, <1>30, <1>31, <1>32, <1>33, <1>34, <1>35
  DEF Next, Call, Step, StartStep, StopStep, CriticalStep

\* No step leaves a start-up state behind.
LEMMA LaunchingStep == TypeInv /\ Locks /\ Launching /\ [Next]_vars => Launching'
<1> SUFFICES ASSUME TypeInv, Locks, Launching, [Next]_vars,
                    NEW x \in Workers, phase' = "serving", state'[x] \in Busy 
             PROVE  BeingStarted(x)'
  BY DEF Launching
<1> USE ConstantsAssumption
<1> USE DEF TypeInv, TypeOK, Operands, Known, Locks, LocksOf, InStart, PreSpawn, Goto,
        Goes, StartPcs, StopPcs,
        Launching, BeingStarted, Busy,
        workerVars, lockVars, taskVars, jobVars, critVars, hostVars, rosterVars
<1>1. ASSUME NEW t \in Tasks, NEW w \in Workers, Start(t, w) PROVE BeingStarted(x)'
  BY <1>1 DEF Start, Calls, Gen
<1>2. ASSUME NEW t \in Tasks, NEW w \in Workers, Stop(t, w) PROVE BeingStarted(x)'
  BY <1>2 DEF Stop, Calls, Gen
<1>3. ASSUME NEW t \in Tasks, NEW w \in Workers, Restart(t, w) PROVE BeingStarted(x)'
  BY <1>3 DEF Restart, Calls, Gen
<1>4. ASSUME NEW t \in Tasks, NEW w \in Workers, Remove(t, w) PROVE BeingStarted(x)'
  BY <1>4 DEF Remove, Calls, Gen
<1>5. ASSUME NEW t \in Tasks, StopAll(t) PROVE BeingStarted(x)'
  BY <1>5 DEF StopAll, Calls, Gen
<1>6. ASSUME NEW t \in Tasks, AcquireLoadLock(t) PROVE BeingStarted(x)'
  BY <1>6 DEF AcquireLoadLock, Gen
<1>7. ASSUME NEW t \in Tasks, StartLocked(t) PROVE BeingStarted(x)'
  BY <1>7 DEF StartLocked, Leave, Returned
<1>8. ASSUME NEW t \in Tasks, ExclusiveTurn(t) PROVE BeingStarted(x)'
  <2>1. CASE Leave(t) /\ UNCHANGED <<workerVars, hostVars, rosterVars>>
    BY <1>8, <2>1 DEF ExclusiveTurn, Leave, Returned
  <2>2. ASSUME NEW o \in Conflicting(t), CallsStop(t, o) PROVE BeingStarted(x)'
    BY <1>8, <2>2 DEF ExclusiveTurn, CallsStop
  <2>3. CASE BeginValidation(t, wid[t])
    BY <1>8, <2>3, ZenonT(60) DEF ExclusiveTurn, BeginValidation
  <2>4. QED
    BY <1>8, <2>1, <2>2, <2>3 DEF ExclusiveTurn
<1>9. ASSUME NEW t \in Tasks, Reclaim(t) PROVE BeingStarted(x)'
  BY <1>9 DEF Reclaim, FailBeforeLaunch, Leave, Returned
<1>10. ASSUME NEW t \in Tasks, Validate(t) PROVE BeingStarted(x)'
  <2>1. CASE FailBeforeLaunch(t)
    BY <1>10, <2>1 DEF Validate, FailBeforeLaunch, Leave, Returned
  <2>2. CASE /\ state' = [state EXCEPT ![wid[t]] = "starting"] /\ Goes(t, "spawn")
             /\ UNCHANGED <<lockVars, rosterVars>>
    BY <1>10, <2>2, ZenonT(60) DEF Validate
  <2>3. CASE Leave(t) /\ UNCHANGED <<workerVars, hostVars, rosterVars>>
    BY <1>10, <2>3 DEF Validate, Leave, Returned
  <2>4. QED
    BY <1>10, <2>1, <2>2, <2>3 DEF Validate
<1>11. ASSUME NEW t \in Tasks, Spawn(t) PROVE BeingStarted(x)'
  BY <1>11, ZenonT(60) DEF Spawn
<1>12. ASSUME NEW t \in Tasks, SpawnFails(t) PROVE BeingStarted(x)'
  BY <1>12 DEF SpawnFails, FailBeforeLaunch, Leave, Returned
<1>13. ASSUME NEW t \in Tasks, Loaded(t) PROVE BeingStarted(x)'
  BY <1>13 DEF Loaded
<1>14. ASSUME NEW t \in Tasks, Verified(t) PROVE BeingStarted(x)'
  BY <1>14, ZenonT(60) DEF Verified
<1>15. ASSUME NEW t \in Tasks, WarmupAnswered(t) PROVE BeingStarted(x)'
  BY <1>15 DEF WarmupAnswered
<1>16. ASSUME NEW t \in Tasks, BecomeReady(t) PROVE BeingStarted(x)'
  BY <1>16 DEF BecomeReady, Leave, Returned
<1>17. ASSUME NEW t \in Tasks, StartupFails(t) PROVE BeingStarted(x)'
  BY <1>17 DEF StartupFails, AwaitsExit
<1>18. ASSUME NEW t \in Tasks, Aborted(t) PROVE BeingStarted(x)'
  BY <1>18 DEF Aborted, Terminated, Leave, Returned
<1>19. ASSUME NEW t \in Tasks, StopLocked(t) PROVE BeingStarted(x)'
  BY <1>19 DEF StopLocked, Stopped, StopReturns, ReturnsInto, Unlocked, Leave, Returned
<1>20. ASSUME NEW t \in Tasks, StopPosted(t) PROVE BeingStarted(x)'
  BY <1>20 DEF StopPosted, AwaitsExit, Leave, Returned
<1>21. ASSUME NEW t \in Tasks, StopExited(t) PROVE BeingStarted(x)'
  BY <1>21 DEF StopExited, Stopped, StopReturns, ReturnsInto, Unlocked, Leave, Returned
<1>22. ASSUME NEW t \in Tasks, StopTimesOut(t) PROVE BeingStarted(x)'
  BY <1>22 DEF StopTimesOut, AwaitsExit
<1>23. ASSUME NEW t \in Tasks, StopKilled(t) PROVE BeingStarted(x)'
  BY <1>23
  DEF StopKilled, Terminated, Stopped, StopReturns, ReturnsInto, Unlocked, Leave, Returned
<1>24. ASSUME NEW t \in Tasks, StopAllTurn(t) PROVE BeingStarted(x)'
  BY <1>24, SMTT(30) DEF StopAllTurn, StopAllTodo, CallsStop, Gen, Leave, Returned
<1>25. ASSUME NEW t \in Tasks, RemoveLocked(t) PROVE BeingStarted(x)'
  BY <1>25 DEF RemoveLocked, Refreshed, Leave, Returned
<1>26. ASSUME NEW t \in Tasks, Shutdown(t) PROVE BeingStarted(x)'
  BY <1>26 DEF Shutdown
<1>27. ASSUME NEW w \in Workers, RegisterProfile(w) PROVE BeingStarted(x)'
  BY <1>27 DEF RegisterProfile
<1>28. ASSUME NEW w \in Workers, NEW n \in 1..MaxSpawn, ProcessExits(w, n) PROVE BeingStarted(x)'
  BY <1>28 DEF ProcessExits
<1>29. ASSUME NEW w \in Workers, NEW n \in 1..MaxSpawn, WatchExit(w, n) PROVE BeingStarted(x)'
  BY <1>29 DEF WatchExit
<1>30. ASSUME RefreshExits PROVE BeingStarted(x)'
  BY <1>30 DEF RefreshExits, Refreshed
<1>31. ASSUME EnterCritical PROVE BeingStarted(x)'
  BY <1>31 DEF EnterCritical
<1>32. ASSUME CriticalTurn PROVE BeingStarted(x)'
  <2>1. UNCHANGED <<lockVars, taskVars, rosterVars>>
    BY <1>32 DEF CriticalTurn
  <2>2. state[x] = state'[x]
    <3>1. CASE UNCHANGED state
      BY <3>1
    <3>2. ASSUME NEW w \in roster, state' = [state EXCEPT ![w] = "stopping"] PROVE state[x] = state'[x]
      BY <3>2
    <3>3. QED
      BY <1>32, <3>1, <3>2 DEF CriticalTurn
  <2>3. QED
    BY <2>1, <2>2
<1>33. ASSUME CriticalKilled PROVE BeingStarted(x)'
  BY <1>33 DEF CriticalKilled, Terminated
<1>34. ASSUME CoolDown PROVE BeingStarted(x)'
  BY <1>34 DEF CoolDown
<1>35. CASE UNCHANGED vars
  BY <1>35 DEF vars
<1>36. QED
  BY <1>1, <1>2, <1>3, <1>4, <1>5, <1>6, <1>7, <1>8, <1>9, <1>10, <1>11, <1>12, <1>13, <1>14,
    <1>15, <1>16, <1>17, <1>18, <1>19, <1>20, <1>21, <1>22, <1>23, <1>24, <1>25, <1>26, <1>27,
    <1>28, <1>29, <1>30, <1>31, <1>32, <1>33, <1>34, <1>35
  DEF Next, Call, Step, StartStep, StopStep, CriticalStep

---------------------------------------------------------------------------
LEMMA ShutdownInit == Init => ShutsDown
  BY DEF Init, ShutsDown

\* A step that launches nothing leaves the coroutines that it does not move at
\* what they have done of the shutdown.
LEMMA OthersDrain ==
  ASSUME TypeInv, NEW u \in Tasks, Draining(u), live' \subseteq live, roster' = roster,
         UNCHANGED <<pc[u], op[u], sid[u], seen[u]>>
  PROVE  Draining(u)'
  BY DEF Draining, NoneRuns

\* A process that ends, a watcher, the critical handler or the host's
\* temperature leaves the coroutines where they are and launches nothing.
LEMMA OutsidersLaunchNothing ==
  ASSUME \/ \E w \in Workers, n \in 1..MaxSpawn : ProcessExits(w, n) \/ WatchExit(w, n)
         \/ RefreshExits \/ EnterCritical \/ CriticalStep \/ CoolDown
         \/ UNCHANGED vars
  PROVE  live' \subseteq live /\ UNCHANGED <<taskVars, rosterVars>>
<1>1. ASSUME NEW w \in Workers, NEW n \in 1..MaxSpawn, ProcessExits(w, n) \/ WatchExit(w, n)
      PROVE  live' \subseteq live /\ UNCHANGED <<taskVars, rosterVars>>
  BY <1>1 DEF ProcessExits, WatchExit
<1>2. RefreshExits => live' \subseteq live /\ UNCHANGED <<taskVars, rosterVars>>
  BY DEF RefreshExits
<1>3. EnterCritical => live' \subseteq live /\ UNCHANGED <<taskVars, rosterVars>>
  BY DEF EnterCritical, workerVars
<1>4. CriticalStep => live' \subseteq live /\ UNCHANGED <<taskVars, rosterVars>>
  BY DEF CriticalStep, CriticalTurn, CriticalKilled, Terminated
<1>5. CoolDown => live' \subseteq live /\ UNCHANGED <<taskVars, rosterVars>>
  BY DEF CoolDown, workerVars
<1>6. UNCHANGED vars => live' \subseteq live /\ UNCHANGED <<taskVars, rosterVars>>
  BY DEF vars, workerVars
<1>. QED
  BY <1>1, <1>2, <1>3, <1>4, <1>5, <1>6

\* A stop() of the shutdown that leaves a dead Worker behind returns to the loop.
LEMMA StopDrains ==
  ASSUME TypeInv, NEW t \in Tasks, Draining(t), pc[t] \in StopPcs, StopReturns(t),
         live' \subseteq live, roster' = roster,
         sid[t] \in roster => \A n \in 1..MaxSpawn : <<sid[t], n>> \notin live'
  PROVE  Draining(t)'
<1>1. op[t] = "stopAll" /\ NoneRuns((roster \cap seen[t]) \ {sid[t]})
  BY DEF Draining, StopPcs
<1>2. pc' = [pc EXCEPT ![t] = "stopAll.next"] /\ op'[t] = op[t] /\ seen' = seen
  BY <1>1 DEF StopReturns, ReturnsInto, Goto, TypeInv, TypeOK
<1>3. pc'[t] = "stopAll.next"
  BY <1>2 DEF TypeInv, TypeOK
<1>. QED
  BY <1>1, <1>2, <1>3 DEF Draining, NoneRuns, StopPcs

\* A stop() that returns moves its own coroutine only.
LEMMA StopReturnsMovesOne ==
  ASSUME TypeInv, NEW t \in Tasks, StopReturns(t)
  PROVE  \A u \in Tasks \ {t} : UNCHANGED <<pc[u], op[u], sid[u], seen[u]>>
  BY DEF StopReturns, Leave, Returned, Goto, TypeInv, TypeOK

\* Once the service stops, nothing is launched and no Worker is forgotten.
LEMMA ShutdownStep == TypeInv /\ Locks /\ Tracked /\ ShutsDown /\ [Next]_vars => ShutsDown'
<1> SUFFICES ASSUME TypeInv, Locks, Tracked, ShutsDown, [Next]_vars, phase' # "serving"
             PROVE  (\A t \in Tasks : Draining(t)') /\ (phase' = "down" => NoneRuns(roster)')
  BY DEF ShutsDown
<1> USE DEF StopPcs
<1>1. ASSUME NEW t \in Tasks, Shutdown(t)
      PROVE  (\A u \in Tasks : Draining(u)') /\ phase' # "down"
  <2>1. ASSUME NEW u \in Tasks PROVE Draining(u)'
    BY <1>1 DEF Shutdown, Draining, NoneRuns
  <2>. QED
    BY <1>1, <2>1 DEF Shutdown
<1>2. CASE phase = "serving"
  <2>1. ASSUME NEW t \in Tasks, Step(t) PROVE FALSE
    <3>1. ~StopPosted(t) /\ ~StopAllTurn(t)
      BY <1>2 DEF StopPosted, StopAllTurn, CallsStop, rosterVars
    <3>2. ~StopLocked(t) /\ ~StopExited(t) /\ ~StopTimesOut(t) /\ ~StopKilled(t)
      BY <1>2 DEF StopLocked, StopExited, StopTimesOut, StopKilled, rosterVars
    <3>3. ~RemoveLocked(t)
      BY <1>2 DEF RemoveLocked
    <3>4. /\ ~AcquireLoadLock(t) /\ ~StartLocked(t) /\ ~ExclusiveTurn(t) /\ ~Reclaim(t) /\ ~Validate(t)
          /\ ~SpawnFails(t)
      BY <1>2, Zenon
      DEF AcquireLoadLock, StartLocked, ExclusiveTurn, CallsStop, BeginValidation, Reclaim, Validate, SpawnFails,
          FailBeforeLaunch, rosterVars
    <3>5. /\ ~Spawn(t) /\ ~Loaded(t) /\ ~Verified(t) /\ ~WarmupAnswered(t) /\ ~BecomeReady(t)
          /\ ~StartupFails(t) /\ ~Aborted(t)
      BY <1>2 DEF Spawn, Loaded, Verified, WarmupAnswered, BecomeReady, StartupFails, Aborted, rosterVars
    <3>. QED
      BY <2>1, <3>1, <3>2, <3>3, <3>4, <3>5 DEF Step, StartStep, StopStep
  <2>2. ASSUME NEW t \in Tasks, Call(t) PROVE FALSE
    BY <1>2, <2>2 DEF Call, Start, Stop, Restart, Remove, StopAll, Calls, rosterVars
  <2>3. ASSUME NEW w \in Workers, RegisterProfile(w) PROVE FALSE
    BY <1>2, <2>3 DEF RegisterProfile
  <2>4. PICK t \in Tasks : Shutdown(t)
    BY <1>2, <2>1, <2>2, <2>3, OutsidersLaunchNothing DEF Next, rosterVars
  <2>. QED
    BY <1>1, <2>4
<1>3. CASE phase # "serving"
  <2>1. \A u \in Tasks : Draining(u)
    BY <1>3 DEF ShutsDown
  <2>2. CASE live' \subseteq live /\ UNCHANGED <<taskVars, rosterVars>>
    <3>1. \A u \in Tasks : Draining(u)'
      BY <2>1, <2>2, OthersDrain DEF taskVars, jobVars, rosterVars
    <3>. QED
      BY <2>2, <3>1 DEF ShutsDown, NoneRuns, rosterVars
  <2>3. ASSUME NEW t \in Tasks, Step(t)
        PROVE  /\ live' \subseteq live /\ roster' = roster
               /\ \A u \in Tasks \ {t} : UNCHANGED <<pc[u], op[u], sid[u], seen[u]>>
               /\ Draining(t)'
               /\ phase' = "down" => phase = "down" \/ (roster \subseteq seen[t] /\ pc[t] = "stopAll.next")
    <3> DEFINE Drained == /\ live' \subseteq live /\ roster' = roster
                          /\ \A u \in Tasks \ {t} : UNCHANGED <<pc[u], op[u], sid[u], seen[u]>>
                          /\ Draining(t)'
                          /\ phase' = "down" => phase = "down" \/ (roster \subseteq seen[t] /\ pc[t] = "stopAll.next")
    <3>0. /\ pc[t] # "idle" => op[t] = "stopAll" /\ pc[t] \in StopPcs \cup {"stopAll.next"}
          /\ pc[t] = "stopAll.next" => NoneRuns(roster \cap seen[t])
          /\ pc[t] \in StopPcs => NoneRuns((roster \cap seen[t]) \ {sid[t]})
      BY <2>1 DEF Draining
    <3>1. ~StartStep(t) /\ ~RemoveLocked(t)
      BY <3>0
      DEF StartStep, AcquireLoadLock, StartLocked, ExclusiveTurn, Reclaim, Validate, Spawn, SpawnFails, Loaded,
          Verified, WarmupAnswered, BecomeReady, StartupFails, Aborted, RemoveLocked
    <3>2. ASSUME StopReturns(t), pc[t] \in StopPcs, live' \subseteq live, UNCHANGED rosterVars,
                 sid[t] \in roster => \A n \in 1..MaxSpawn : <<sid[t], n>> \notin live'
          PROVE  Drained
      <4>1. Draining(t)'
        BY <2>1, <3>2, StopDrains DEF rosterVars
      <4>. QED
        BY <3>2, <4>1, StopReturnsMovesOne DEF rosterVars
    <3>3. sid[t] \in roster => sid[t] \in Workers \ removed
      BY DEF TypeInv, TypeOK, Operands
    <3>4. CASE StopLocked(t)
      <4>1. CASE ~Alive(sid[t]) /\ Stopped(t)
        <5>1. sid[t] \in roster => \A n \in 1..MaxSpawn : <<sid[t], n>> \notin live
          BY <3>3, <4>1 DEF Tracked, Found, Alive
        <5>. QED
          BY <3>2, <3>4, <4>1, <5>1 DEF StopLocked, Stopped
      <4>2. CASE Goes(t, "stop.post")
        <5>1. pc[t] = "stop.lock" /\ pc' = [pc EXCEPT ![t] = "stop.post"] /\ UNCHANGED jobVars
          BY <3>4, <4>2 DEF StopLocked, Goes, Goto
        <5>2. CASE live' = live /\ UNCHANGED rosterVars
          BY <3>0, <5>1, <5>2 DEF Draining, NoneRuns, jobVars, rosterVars, TypeInv, TypeOK
        <5>. QED
          BY <3>4, <5>2 DEF StopLocked
      <4>. QED
        BY <3>4, <4>1, <4>2 DEF StopLocked
    <3>5. CASE StopPosted(t)
      <4>1. CASE Leave(t)
        <5>1. live' = live /\ roster' = roster /\ (phase' = "down" => phase = "down")
          BY <3>5 DEF StopPosted, workerVars, rosterVars
        <5>. QED
          BY <4>1, <5>1 DEF Draining, Leave, Returned, TypeInv, TypeOK
      <4>2. CASE ~Leave(t)
        <5>1. /\ pc[t] = "stop.post" /\ pc' = [pc EXCEPT ![t] = "stop.wait"] /\ UNCHANGED <<op, sid, seen>>
              /\ live' = live /\ UNCHANGED rosterVars
          BY <3>5, <4>2 DEF StopPosted, AwaitsExit, Goto, workerVars
        <5>. QED
          BY <3>0, <5>1 DEF Draining, NoneRuns, rosterVars, TypeInv, TypeOK
      <4>. QED
        BY <4>1, <4>2
    <3>6. CASE StopExited(t)
      <4>1. sid[t] \in roster => \A n \in 1..MaxSpawn : <<sid[t], n>> \notin live
        BY <3>3, <3>6 DEF StopExited, Tracked, Expects, OnlyRuns
      <4>. QED
        BY <3>2, <3>6, <4>1 DEF StopExited, Stopped
    <3>7. CASE StopTimesOut(t)
      <4>1. /\ pc[t] = "stop.wait" /\ pc' = [pc EXCEPT ![t] = "stop.kill"] /\ UNCHANGED <<op, sid, seen>>
            /\ live' = live /\ UNCHANGED rosterVars
        BY <3>7 DEF StopTimesOut, AwaitsExit, Goto, workerVars
      <4>. QED
        BY <3>0, <4>1 DEF Draining, NoneRuns, rosterVars, TypeInv, TypeOK
    <3>8. CASE StopKilled(t)
      <4>1. sid[t] \in roster => \A n \in 1..MaxSpawn : <<sid[t], n>> \notin live'
        BY <3>3, <3>8 DEF StopKilled, Terminated, Tracked, Expects, OnlyRuns
      <4>. QED
        BY <3>2, <3>8, <4>1 DEF StopKilled, Stopped, Terminated
    <3>9. CASE StopAllTurn(t)
      <4>1. CASE Leave(t)
        <5>1. live' = live /\ roster' = roster
          BY <3>9 DEF StopAllTurn, CallsStop, workerVars, rosterVars
        <5>2. phase' = "down" => phase = "down" \/ (roster \subseteq seen[t] /\ pc[t] = "stopAll.next")
          BY <3>9 DEF StopAllTurn, StopAllTodo, CallsStop, rosterVars
        <5>. QED
          BY <4>1, <5>1, <5>2 DEF Draining, Leave, Returned, TypeInv, TypeOK
      <4>2. ASSUME NEW w \in StopAllTodo(t), CallsStop(t, w) PROVE Drained
        <5>1. /\ pc[t] = "stopAll.next" /\ pc' = [pc EXCEPT ![t] = "stop.lock"] /\ op' = op
              /\ sid' = [sid EXCEPT ![t] = w] /\ seen' = [seen EXCEPT ![t] = @ \cup {w}]
              /\ live' = live /\ UNCHANGED rosterVars
          BY <3>9, <4>2 DEF StopAllTurn, CallsStop, Goto, workerVars
        <5>2. op'[t] = op[t] /\ pc'[t] = "stop.lock" /\ sid'[t] = w /\ seen'[t] = seen[t] \cup {w}
          BY <5>1 DEF TypeInv, TypeOK
        <5>3. Draining(t)'
          BY <3>0, <5>1, <5>2 DEF Draining, NoneRuns, rosterVars
        <5>. QED
          BY <5>1, <5>3 DEF rosterVars, TypeInv, TypeOK
      <4>. QED
        BY <3>9, <4>1, <4>2 DEF StopAllTurn
    <3>. QED
      BY <2>3, <3>1, <3>4, <3>5, <3>6, <3>7, <3>8, <3>9 DEF Step, StopStep
  <2>4. ASSUME NEW t \in Tasks, Step(t)
        PROVE  (\A u \in Tasks : Draining(u)') /\ (phase' = "down" => NoneRuns(roster)')
    <3>1. ASSUME NEW u \in Tasks PROVE Draining(u)'
      BY <2>1, <2>3, <2>4, OthersDrain
    <3>2. phase' = "down" => NoneRuns(roster)
      BY <2>1, <2>3, <2>4 DEF ShutsDown, Draining, NoneRuns
    <3>3. live' \subseteq live /\ roster' = roster
      BY <2>3, <2>4
    <3>. QED
      BY <3>1, <3>2, <3>3 DEF NoneRuns
  <2>5. ASSUME NEW t \in Tasks PROVE ~Call(t) /\ ~Shutdown(t)
    BY <1>3 DEF Call, Start, Stop, Restart, Remove, StopAll, Calls, Shutdown
  <2>6. ASSUME NEW w \in Workers PROVE ~RegisterProfile(w)
    BY <1>3 DEF RegisterProfile
  <2>. QED
    BY <2>2, <2>4, <2>5, <2>6, OutsidersLaunchNothing DEF Next
<1>. QED
  BY <1>2, <1>3

---------------------------------------------------------------------------
\* The five layers together are an inductive invariant of the supervisor.
IInv == TypeInv /\ Locks /\ Tracked /\ Alone /\ Launching /\ ShutsDown

\* The supervisor never leaves its inductive invariant.
THEOREM Invariance == Spec => []IInv
<1>1. Init => IInv
  BY TypeInit, LocksInit, TrackedInit, AloneInit, ShutdownInit DEF IInv
<1>2. IInv /\ [Next]_vars => IInv'
  BY TypeStep, OperandsStep, LocksStep, FoundStep, ExpectsStep, CriticalExpectsStep, OneRunsStep,
     ClearedStep, LaunchingStep, ShutdownStep
  DEF IInv, TypeInv, Tracked, Alone
<1>3. QED
  BY <1>1, <1>2, PTL DEF Spec

\* Every variable keeps its type: every coroutine's operand is a Worker or none.
THEOREM TypeCorrect == Spec => []TypeOK
<1>1. IInv => TypeOK
  BY DEF IInv, TypeInv
<1>2. QED
  BY <1>1, Invariance, PTL

\* For any number of Workers, callers, crashes, launches and critical stops, the
\* running process of a registered Worker is the one in worker.process.
THEOREM ProcessesAreTracked == Spec => []NoUntrackedProcess
<1>1. IInv => NoUntrackedProcess
  <2> SUFFICES ASSUME IInv, NEW p \in live, p[1] \in roster PROVE proc[p[1]] = p[2]
    BY DEF NoUntrackedProcess
  <2>1. p = <<p[1], p[2]>> /\ p[1] \in Workers /\ p[2] \in 1..MaxSpawn
    BY DEF IInv, TypeInv, TypeOK
  <2>2. p[1] \notin removed
    BY DEF IInv, TypeInv, Operands
  <2>3. QED
    BY <2>1, <2>2 DEF IInv, Tracked, Found
<1>2. QED
  BY <1>1, Invariance, PTL

\* No two registered exclusive Workers ever run together.
THEOREM ExclusiveAlone == Spec => []ExclusiveRunsAlone
<1>1. IInv => ExclusiveRunsAlone
  <2> SUFFICES ASSUME IInv, NEW p \in live, NEW q \in live,
                      p[1] \in roster \cap Exclusive, q[1] \in roster \cap Exclusive
               PROVE  p = q
    BY DEF ExclusiveRunsAlone
  <2>1. /\ p = <<p[1], p[2]>> /\ p[1] \in Workers /\ p[2] \in 1..MaxSpawn
        /\ q = <<q[1], q[2]>> /\ q[1] \in Workers /\ q[2] \in 1..MaxSpawn
    BY DEF IInv, TypeInv, TypeOK
  <2>2. p[1] \in Reserved /\ q[1] \in Reserved
    BY DEF IInv, TypeInv, Operands, Reserved
  <2>3. p[1] = q[1]
    BY <2>1, <2>2 DEF IInv, Alone, OneRuns
  <2>4. p[2] = proc[p[1]] /\ q[2] = proc[q[1]]
    BY <2>1, <2>2 DEF IInv, Tracked, Found, Reserved
  <2>5. QED
    BY <2>1, <2>3, <2>4
<1>2. QED
  BY <1>1, Invariance, PTL

\* A registered Worker recorded as STOPPED or VALIDATING has no running process.
THEOREM IdleIsDead == Spec => []IdleMeansDead
<1>1. IInv => IdleMeansDead
  <2> SUFFICES ASSUME IInv, NEW p \in live, p[1] \in roster
               PROVE  state[p[1]] \notin {"stopped", "validating"}
    BY DEF IdleMeansDead
  <2>1. p = <<p[1], p[2]>> /\ p[1] \in Workers /\ p[2] \in 1..MaxSpawn
    BY DEF IInv, TypeInv, TypeOK
  <2>2. p[1] \notin removed
    BY DEF IInv, TypeInv, Operands
  <2>3. QED
    BY <2>1, <2>2 DEF IInv, Tracked, Found
<1>2. QED
  BY <1>1, Invariance, PTL

\* A Worker shown as starting, loading or warming is being started by the holder of
\* the load lock, whichever way earlier starts failed.
THEOREM BusyIsStarted == Spec => []BusyIsBeingStarted
<1>1. IInv => BusyIsBeingStarted
  BY DEF IInv, Launching, BeingStarted, BusyIsBeingStarted
<1>2. QED
  BY <1>1, Invariance, PTL

\* What the supervisor records is what runs: the processes of start(), stop() and
\* critical_stop_all() are tracked, and the states they leave tell the truth.
THEOREM RecordsAreTrue == Spec => []RecordsMatchProcesses
  BY ProcessesAreTracked, IdleIsDead, BusyIsStarted, PTL DEF RecordsMatchProcesses

\* When the service's stop_all has returned, no process of a registered Worker runs:
\* a setup cancelled in the middle of a launch leaves its process where the loop
\* finds it, and the critical handler takes none away from it.
THEOREM ShutdownIsClean == Spec => []CleanShutdown
<1>1. IInv => CleanShutdown
  <2> SUFFICES ASSUME IInv, phase = "down", NEW p \in live PROVE p[1] \notin roster
    BY DEF CleanShutdown
  <2>1. p = <<p[1], p[2]>> /\ p[2] \in 1..MaxSpawn
    BY DEF IInv, TypeInv, TypeOK
  <2>. QED
    BY <2>1 DEF IInv, ShutsDown, NoneRuns
<1>2. QED
  BY <1>1, Invariance, PTL
============================================================================
