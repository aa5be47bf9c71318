---------------------------- MODULE Supervisor ----------------------------
(***************************************************************************)
(* The Worker supervisor of ModelDeck (supervisor/service.py): the         *)
(* life cycle of isolated Worker processes under the management service's  *)
(* single asyncio event loop.                                              *)
(*                                                                         *)
(* Each action is the code that one coroutine runs between two awaits.     *)
(* Coroutines are the elements of Tasks: the management API's request      *)
(* handlers and the capability-setup tasks (Setup), which service shutdown *)
(* cancels.  The critical thermal handler and the _watch_exit tasks are    *)
(* actors of their own; Worker processes live and die outside.             *)
(***************************************************************************)
EXTENDS Naturals, FiniteSets

CONSTANTS
    Workers,      \* Worker ids
    Exclusive,    \* the Workers whose profile says lifecycle "exclusive"
    Initial,      \* the Workers persisted when the service starts
    Tasks,        \* coroutines that call the supervisor
    Setup,        \* the Tasks that are capability-setup tasks
    Ops,          \* the operations the callers use
    Leftovers,    \* what an earlier session may have left on a Worker's port
    MaxSpawn,     \* bound: processes launched per Worker
    MaxCritical,  \* bound: times the host enters the critical thermal state
    NoTask,       \* not a Task: the holder of a free lock
    NoWorker      \* not a Worker: the operand of an idle Task

Operations == {"start", "stop", "restart", "stopAll", "remove", "register", "shutdown"}

ASSUME ConstantsAssumption ==
    /\ Exclusive \subseteq Workers
    /\ Initial \subseteq Workers
    /\ Setup \subseteq Tasks
    /\ Ops \subseteq Operations
    /\ NoTask \notin Tasks
    /\ NoWorker \notin Workers
    /\ Leftovers \subseteq {"none", "stale", "other"}
    /\ MaxSpawn \in Nat
    /\ MaxCritical \in Nat
    /\ IsFiniteSet(Workers)

VARIABLES
    roster,     \* keys of self.workers
    removed,    \* ids remove_profile deleted: their lock was popped with them
    state,      \* ManagedWorker.state
    proc,       \* ManagedWorker.process: 0 is None, n the n-th process launched
    spawned,    \* processes launched so far for each Worker
    live,       \* <<w, n>>: that process runs (returncode is None)
    watch,      \* <<w, n>>: its _watch_exit task has not finished
    leftover,   \* a listener on the Worker's port the supervisor did not launch
    loadLock,   \* holder of _load_lock
    lock,       \* holder of each Worker lock object (see LockOf)
    pc,         \* where each Task waits
    op,         \* the call each Task makes
    wid,        \* its worker_id
    sid,        \* worker_id of the stop() each Task runs, its own or a nested one
    gen,        \* which lock object each Task waits for (see LockKeys)
    pid,        \* the process each Task waits for
    seen,       \* Workers passed by the Task's loop over self.workers
    size,       \* len(self.workers) when that loop began
    thermal,    \* "admit", or "critical": loads are refused since the host went critical
    criticals,  \* times the critical state was entered
    critPc,     \* critical_stop_all: "idle", between two Workers or killing one
    critWid,    \* the Worker it is killing
    critPid,    \* the process it is killing
    critSeen,   \* Workers its loop has passed
    critSize,   \* len(self.workers) when its loop began
    phase       \* of the service: "serving", "stopping", "down", "failed"

workerVars == <<state, proc, spawned, live, watch, leftover>>
lockVars   == <<loadLock, lock>>
jobVars    == <<op, wid, sid, gen, pid, seen, size>>
taskVars   == <<pc, jobVars>>
critVars   == <<critPc, critWid, critPid, critSeen, critSize>>
hostVars   == <<thermal, criticals, critVars>>
rosterVars == <<roster, removed, phase>>
vars == <<workerVars, lockVars, taskVars, hostVars, rosterVars>>

---------------------------------------------------------------------------
WorkerState == {"stopped", "validating", "starting", "loading", "warming",
                "ready", "stopping", "failed", "incompatible"}

\* start() in progress: states only start() itself can move on from.  VALIDATING
\* is not one: it may be what a start() that raised has left (see Validate).
Busy == {"starting", "loading", "warming"}

StartPcs == {"load.lock", "worker.lock", "exclusive", "reclaim", "validate", "spawn",
             "loading", "verify", "warming", "answered", "abort"}
StopPcs  == {"stop.lock", "stop.post", "stop.wait", "stop.kill"}
Pcs      == StartPcs \cup StopPcs \cup {"idle", "remove.lock", "stopAll.next"}

Running == {"none", "start", "stop", "restart", "stopAll", "remove"}
SomeWorker == Workers \cup {NoWorker}

\* remove_profile pops the Worker's lock from the defaultdict, so a coroutine
\* that looks the lock up later gets a new object; one that already waits keeps
\* the old object.  Generation 0 is the lock of a registered Worker.
LockKeys == Workers \X {0, 1}
Gen(w)   == IF w \in removed THEN 1 ELSE 0

\* worker.process is not None and its returncode is None
Alive(w) == <<w, proc[w]>> \in live

TypeOK ==
    /\ roster \subseteq Workers
    /\ removed \subseteq Workers
    /\ state \in [Workers -> WorkerState]
    /\ proc \in [Workers -> 0..MaxSpawn]
    /\ spawned \in [Workers -> 0..MaxSpawn]
    /\ live \subseteq Workers \X (1..MaxSpawn)
    /\ watch \subseteq Workers \X (1..MaxSpawn)
    /\ leftover \in [Workers -> {"none", "stale", "other"}]
    /\ loadLock \in Tasks \cup {NoTask}
    /\ lock \in [LockKeys -> Tasks \cup {NoTask}]
    /\ pc \in [Tasks -> Pcs]
    /\ op \in [Tasks -> Running]
    /\ wid \in [Tasks -> SomeWorker]
    /\ sid \in [Tasks -> SomeWorker]
    /\ gen \in [Tasks -> {0, 1}]
    /\ pid \in [Tasks -> 0..MaxSpawn]
    /\ seen \in [Tasks -> SUBSET Workers]
    /\ size \in [Tasks -> Nat]
    /\ thermal \in {"admit", "critical"}
    /\ criticals \in 0..MaxCritical
    /\ critPc \in {"idle", "loop", "kill"}
    /\ critWid \in SomeWorker
    /\ critPid \in 0..MaxSpawn
    /\ critSeen \subseteq Workers
    /\ critSize \in Nat
    /\ phase \in {"serving", "stopping", "down", "failed"}

\* The service starts with the persisted Workers and owns no process; an earlier
\* session that crashed may have left a listener on a Worker's port.
Init ==
    /\ roster = Initial
    /\ removed = {}
    /\ state = [w \in Workers |-> "stopped"]
    /\ proc = [w \in Workers |-> 0]
    /\ spawned = [w \in Workers |-> 0]
    /\ live = {}
    /\ watch = {}
    /\ leftover \in [Workers -> Leftovers]
    /\ loadLock = NoTask
    /\ lock = [k \in LockKeys |-> NoTask]
    /\ pc = [t \in Tasks |-> "idle"]
    /\ op = [t \in Tasks |-> "none"]
    /\ wid = [t \in Tasks |-> NoWorker]
    /\ sid = [t \in Tasks |-> NoWorker]
    /\ gen = [t \in Tasks |-> 0]
    /\ pid = [t \in Tasks |-> 0]
    /\ seen = [t \in Tasks |-> {}]
    /\ size = [t \in Tasks |-> 0]
    /\ thermal = "admit"
    /\ criticals = 0
    /\ critPc = "idle"
    /\ critWid = NoWorker
    /\ critPid = 0
    /\ critSeen = {}
    /\ critSize = 0
    /\ phase = "serving"

---------------------------------------------------------------------------
(* Coroutine plumbing. *)

Goto(t, label) == pc' = [pc EXCEPT ![t] = label]

Goes(t, label) == Goto(t, label) /\ UNCHANGED jobVars

\* The coroutine waits for process n, at label.
AwaitsExit(t, label, n) ==
    /\ Goto(t, label)
    /\ pid' = [pid EXCEPT ![t] = n]
    /\ UNCHANGED <<op, wid, sid, gen, seen, size>>

\* A caller calls operation o on Worker w, which begins at label; v is w when the
\* operation begins with stop(w).
Calls(t, label, o, w, v) ==
    /\ o \in Ops /\ phase = "serving"
    /\ pc[t] = "idle"
    /\ Goto(t, label)
    /\ op' = [op EXCEPT ![t] = o]
    /\ wid' = [wid EXCEPT ![t] = w]
    /\ sid' = [sid EXCEPT ![t] = v]
    /\ gen' = [gen EXCEPT ![t] = Gen(w)]
    /\ UNCHANGED <<pid, seen, workerVars, lockVars, hostVars, rosterVars>>

\* A loop over self.workers calls stop(o).
CallsStop(t, o) ==
    /\ Goto(t, "stop.lock")
    /\ sid' = [sid EXCEPT ![t] = o]
    /\ gen' = [gen EXCEPT ![t] = Gen(o)]
    /\ seen' = [seen EXCEPT ![t] = @ \cup {o}]
    /\ UNCHANGED <<op, wid, pid, size, workerVars, lockVars, hostVars, rosterVars>>

Returned(t) ==
    /\ pc' = [pc EXCEPT ![t] = "idle"]
    /\ op' = [op EXCEPT ![t] = "none"]
    /\ wid' = [wid EXCEPT ![t] = NoWorker]
    /\ sid' = [sid EXCEPT ![t] = NoWorker]
    /\ gen' = [gen EXCEPT ![t] = 0]
    /\ pid' = [pid EXCEPT ![t] = 0]
    /\ seen' = [seen EXCEPT ![t] = {}]
    /\ size' = [size EXCEPT ![t] = 0]

Leave_KeepsLoadLock(t) ==
    /\ Returned(t)
    /\ lock' = [k \in LockKeys |-> IF lock[k] = t THEN NoTask ELSE lock[k]]
    /\ UNCHANGED loadLock

\* The coroutine's outermost call returns or raises: every "async with" exits.
Leave(t) ==
    /\ Returned(t)
    /\ loadLock' = IF loadLock = t THEN NoTask ELSE loadLock
    /\ lock' = [k \in LockKeys |-> IF lock[k] = t THEN NoTask ELSE lock[k]]

\* live' when _terminate(w) has waited for process n: SIGTERM, one second, SIGKILL.
Terminated_SigtermOnly(w, n) == live

Terminated(w, n) == live \ {<<w, n>>}

\* lock' when t leaves the "async with" of Worker w's lock
Unlocked(t, w) == [k \in LockKeys |-> IF lock[k] = t /\ k[1] = w THEN NoTask ELSE lock[k]]

---------------------------------------------------------------------------
(* start(worker_id) *)

Start(t, w) ==
    /\ w \in roster
    /\ Calls(t, "load.lock", "start", w, NoWorker)
    /\ UNCHANGED size

\* The Worker lock is looked up only once the load lock is held.
AcquireLoadLock(t) ==
    /\ pc[t] = "load.lock" /\ loadLock = NoTask
    /\ loadLock' = t
    /\ Goto(t, "worker.lock")
    /\ gen' = [gen EXCEPT ![t] = Gen(wid[t])]
    /\ UNCHANGED <<op, wid, sid, pid, seen, size, workerVars, lock, hostVars, rosterVars>>

\* worker.log_session_id, VALIDATING and the port check that follows.
BeginValidation(t, w) ==
    /\ state' = [state EXCEPT ![w] = "validating"]
    /\ Goto(t, IF leftover[w] = "none" THEN "validate" ELSE "reclaim")
    /\ seen' = [seen EXCEPT ![t] = {}]
    /\ size' = [size EXCEPT ![t] = 0]
    /\ UNCHANGED <<op, wid, sid, gen, pid, proc, spawned, live, watch, leftover, lockVars, hostVars, rosterVars>>

\* The test that makes start() return the running Worker.  It asks the process,
\* not the recorded state.
AlreadyRunning(w) == Alive(w)

\* A running Worker is returned as it is; a thermal rejection raises; an
\* exclusive Worker first stops the others.
StartLocked(t) ==
    LET w == wid[t] IN
    /\ pc[t] = "worker.lock" /\ lock[<<w, gen[t]>>] = NoTask
    /\ IF AlreadyRunning(w) \/ thermal # "admit"
       THEN /\ Leave(t)
            /\ UNCHANGED <<workerVars, hostVars, rosterVars>>
       ELSE /\ lock' = [lock EXCEPT ![<<w, gen[t]>>] = t]
            /\ Goto(t, "exclusive")
            /\ seen' = [seen EXCEPT ![t] = {w}]
            /\ size' = [size EXCEPT ![t] = Cardinality(roster)]
            /\ UNCHANGED <<op, wid, sid, gen, pid, workerVars, loadLock, hostVars, rosterVars>>

\* The other Workers that an exclusive start must still stop.
Conflicting_ReadyOnly(t) == {o \in roster \ seen[t] : o \in Exclusive /\ state[o] = "ready"}

Conflicting(t) == {o \in roster \ seen[t] : o \in Exclusive /\ Alive(o)}

\* One turn of "for other_id, other in self.workers.items()": the iterator
\* raises when the dict changed size since the loop began.
ExclusiveTurn(t) ==
    LET w == wid[t] IN
    /\ pc[t] = "exclusive"
    /\ \/ /\ w \in Exclusive /\ Cardinality(roster) # size[t]
          /\ Leave(t)
          /\ UNCHANGED <<workerVars, hostVars, rosterVars>>
       \/ /\ w \in Exclusive /\ Cardinality(roster) = size[t]
          /\ \E o \in Conflicting(t) : CallsStop(t, o)
       \/ /\ w \in Exclusive => (Cardinality(roster) = size[t] /\ Conflicting(t) = {})
          /\ BeginValidation(t, w)

\* worker.last_error is set, FAILED is recorded and start() raises.
FailBeforeLaunch(t) ==
    /\ state' = [state EXCEPT ![wid[t]] = "failed"]
    /\ Leave(t)
    /\ UNCHANGED <<proc, spawned, live, watch, hostVars, rosterVars>>

\* _reclaim_stale_worker_endpoint: only a non-ready listener with this Worker's
\* exact identity is asked to shut down, and it has two seconds to do so.
Reclaim(t) ==
    LET w == wid[t] IN
    /\ pc[t] = "reclaim"
    /\ \/ /\ leftover[w] # "other"
          /\ leftover' = [leftover EXCEPT ![w] = "none"]
          /\ Goes(t, "validate")
          /\ UNCHANGED <<state, proc, spawned, live, watch, lockVars, hostVars, rosterVars>>
       \/ /\ leftover[w] # "none"
          /\ FailBeforeLaunch(t)
          /\ UNCHANGED leftover

\* validate_llama_installation in its thread, then build_worker_launch: both
\* refuse with ValueError, which records FAILED.  An OSError, of the directories
\* the builder makes, is caught nowhere: start() raises with VALIDATING recorded.
Validate(t) ==
    /\ pc[t] = "validate"
    /\ \/ /\ state' = [state EXCEPT ![wid[t]] = "starting"]
          /\ Goes(t, "spawn")
          /\ UNCHANGED <<proc, spawned, live, watch, leftover, lockVars, hostVars, rosterVars>>
       \/ /\ FailBeforeLaunch(t)
          /\ UNCHANGED leftover
       \/ /\ Leave(t)
          /\ UNCHANGED <<workerVars, hostVars, rosterVars>>

\* create_subprocess_exec returns: the process is recorded, its watcher started.
Spawn(t) ==
    LET w == wid[t]
        n == spawned[w] + 1
    IN
    /\ pc[t] = "spawn" /\ spawned[w] < MaxSpawn
    /\ spawned' = [spawned EXCEPT ![w] = n]
    /\ proc' = [proc EXCEPT ![w] = n]
    /\ live' = live \cup {<<w, n>>}
    /\ watch' = watch \cup {<<w, n>>}
    /\ state' = [state EXCEPT ![w] = "loading"]
    /\ Goes(t, "loading")
    /\ UNCHANGED <<leftover, lockVars, hostVars, rosterVars>>

SpawnFails(t) ==
    /\ pc[t] = "spawn"
    /\ FailBeforeLaunch(t)
    /\ UNCHANGED leftover

\* _wait_until_loaded saw the process running and its health loaded.
Loaded(t) ==
    /\ pc[t] = "loading" /\ Alive(wid[t])
    /\ Goes(t, "verify")
    /\ UNCHANGED <<workerVars, lockVars, hostVars, rosterVars>>

\* _verify_identity received its three answers and they match the profile; the
\* process may have ended since it gave them.
Verified(t) ==
    /\ pc[t] = "verify"
    /\ state' = [state EXCEPT ![wid[t]] = "warming"]
    /\ Goes(t, "warming")
    /\ UNCHANGED <<proc, spawned, live, watch, leftover, lockVars, hostVars, rosterVars>>

\* The process answers the warm-up request with ready.
WarmupAnswered(t) ==
    /\ pc[t] = "warming" /\ Alive(wid[t])
    /\ Goes(t, "answered")
    /\ UNCHANGED <<workerVars, lockVars, hostVars, rosterVars>>

\* The answer reaches start(): READY and return.
BecomeReady(t) ==
    /\ pc[t] = "answered"
    /\ state' = [state EXCEPT ![wid[t]] = "ready"]
    /\ Leave(t)
    /\ UNCHANGED <<proc, spawned, live, watch, leftover, hostVars, rosterVars>>

\* A time-out, an exit, a failed load or warm-up, an identity that could not be
\* verified: the state is recorded and _terminate waits for worker.process.
StartupFails(t) ==
    LET w == wid[t] IN
    /\ \/ pc[t] \in {"loading", "warming"} /\ state' = [state EXCEPT ![w] = "failed"]
       \/ pc[t] = "verify" /\ state' = [state EXCEPT ![w] = "incompatible"]
    /\ AwaitsExit(t, "abort", proc[w])
    /\ UNCHANGED <<proc, spawned, live, watch, leftover, lockVars, hostVars, rosterVars>>

\* _terminate returned: SIGTERM or SIGKILL ended the process group.  The dead
\* process stays in worker.process.
Aborted(t) ==
    /\ pc[t] = "abort"
    /\ live' = Terminated(wid[t], pid[t])
    /\ Leave(t)
    /\ UNCHANGED <<state, proc, spawned, watch, leftover, hostVars, rosterVars>>

---------------------------------------------------------------------------
(* stop(worker_id), restart(worker_id), stop_all() *)

Stop(t, w) ==
    /\ w \in roster
    /\ Calls(t, "stop.lock", "stop", w, w)
    /\ UNCHANGED size

Restart(t, w) ==
    /\ w \in roster
    /\ Calls(t, "stop.lock", "restart", w, w)
    /\ UNCHANGED size

StopAll(t) ==
    /\ Calls(t, "stopAll.next", "stopAll", NoWorker, NoWorker)
    /\ size' = [size EXCEPT ![t] = Cardinality(roster)]

\* stop() returns to its caller: the exclusive loop of start(), the loop of
\* stop_all(), restart(), which looks the Worker up again and raises when it is
\* gone, or the API.
ReturnsInto(t) ==
    CASE op[t] = "start"   -> "exclusive"
      [] op[t] = "stopAll" -> "stopAll.next"
      [] op[t] = "restart" /\ wid[t] \in roster -> "load.lock"
      [] OTHER -> "idle"

StopReturns(t) ==
    \/ /\ ReturnsInto(t) # "idle"
       /\ Goto(t, ReturnsInto(t))
       /\ op' = [op EXCEPT ![t] = IF @ = "restart" THEN "start" ELSE @]
       /\ sid' = [sid EXCEPT ![t] = NoWorker]
       /\ pid' = [pid EXCEPT ![t] = 0]
       /\ lock' = Unlocked(t, sid[t])
       /\ UNCHANGED <<wid, gen, seen, size, loadLock>>
    \/ /\ ReturnsInto(t) = "idle"
       /\ Leave(t)

\* process = None, started_at = None, STOPPED
Stopped(t) ==
    /\ proc' = [proc EXCEPT ![sid[t]] = 0]
    /\ state' = [state EXCEPT ![sid[t]] = "stopped"]
    /\ StopReturns(t)

StopLocked(t) ==
    LET v == sid[t] IN
    /\ pc[t] = "stop.lock" /\ lock[<<v, gen[t]>>] = NoTask
    /\ \/ /\ ~Alive(v)
          /\ Stopped(t)
          /\ UNCHANGED <<spawned, live, watch, leftover, hostVars, rosterVars>>
       \/ /\ Alive(v)
          /\ lock' = [lock EXCEPT ![<<v, gen[t]>>] = t]
          /\ state' = [state EXCEPT ![v] = "stopping"]
          /\ Goes(t, "stop.post")
          /\ UNCHANGED <<proc, spawned, live, watch, leftover, loadLock, hostVars, rosterVars>>

\* POST /shutdown answered or failed.  worker.process is read again: when the
\* critical handler cleared it meanwhile, None has no wait() and stop() raises.
StopPosted(t) ==
    LET v == sid[t] IN
    /\ pc[t] = "stop.post"
    /\ IF proc[v] = 0
       THEN /\ Leave(t)
            /\ phase' = IF phase = "stopping" THEN "failed" ELSE phase
            /\ UNCHANGED <<workerVars, hostVars, roster, removed>>
       ELSE /\ AwaitsExit(t, "stop.wait", proc[v])
            /\ UNCHANGED <<workerVars, lockVars, hostVars, rosterVars>>

StopExited(t) ==
    /\ pc[t] = "stop.wait" /\ <<sid[t], pid[t]>> \notin live
    /\ Stopped(t)
    /\ UNCHANGED <<spawned, live, watch, leftover, hostVars, rosterVars>>

\* stop_timeout: _terminate reads worker.process.
StopTimesOut(t) ==
    /\ pc[t] = "stop.wait" /\ <<sid[t], pid[t]>> \in live
    /\ AwaitsExit(t, "stop.kill", proc[sid[t]])
    /\ UNCHANGED <<workerVars, lockVars, hostVars, rosterVars>>

StopKilled(t) ==
    /\ pc[t] = "stop.kill"
    /\ live' = Terminated(sid[t], pid[t])
    /\ Stopped(t)
    /\ UNCHANGED <<spawned, watch, leftover, hostVars, rosterVars>>

StopAllTodo_ReadyOnly(t) == {w \in roster \ seen[t] : state[w] = "ready"}

StopAllTodo(t) == roster \ seen[t]

\* One turn of "for worker_id in self.workers".  Shutdown ends here too.
StopAllTurn(t) ==
    LET changed == Cardinality(roster) # size[t]
        todo    == StopAllTodo(t)
    IN
    /\ pc[t] = "stopAll.next"
    /\ \/ /\ changed \/ todo = {}
          /\ Leave(t)
          /\ phase' = IF phase # "stopping" THEN phase
                      ELSE IF changed THEN "failed" ELSE "down"
          /\ UNCHANGED <<workerVars, hostVars, roster, removed>>
       \/ /\ ~changed
          /\ \E w \in todo : CallsStop(t, w)

---------------------------------------------------------------------------
(* register_profile, remove_profile, _refresh_exits *)

\* create_worker chooses a new id and a free port, so neither check refuses.
RegisterProfile(w) ==
    /\ "register" \in Ops /\ phase = "serving"
    /\ w \notin roster /\ w \notin removed
    /\ roster' = roster \cup {w}
    /\ UNCHANGED <<workerVars, lockVars, taskVars, hostVars, removed, phase>>

Remove(t, w) ==
    /\ w \in roster
    /\ Calls(t, "remove.lock", "remove", w, NoWorker)
    /\ UNCHANGED size

Refreshed_Exited == [w \in Workers |->
    IF w \in roster /\ proc[w] # 0 /\ ~Alive(w) /\ state[w] # "stopped"
    THEN "exited" ELSE state[w]]

\* state' after _refresh_exits: a registered Worker whose process has ended is
\* FAILED unless it is STOPPED already.
Refreshed == [w \in Workers |->
    IF w \in roster /\ proc[w] # 0 /\ ~Alive(w) /\ state[w] # "stopped"
    THEN "failed" ELSE state[w]]

\* The lock is held for this step only: it has no await.
RemoveLocked(t) ==
    LET w == wid[t] IN
    /\ pc[t] = "remove.lock" /\ lock[<<w, gen[t]>>] = NoTask
    /\ state' = Refreshed
    /\ IF w \in roster /\ ~Alive(w) /\ Refreshed[w] \in {"stopped", "failed"}
       THEN roster' = roster \ {w} /\ removed' = removed \cup {w}
       ELSE UNCHANGED <<roster, removed>>
    /\ Leave(t)
    /\ UNCHANGED <<proc, spawned, live, watch, leftover, hostVars, phase>>

\* list_workers and get_worker
RefreshExits ==
    /\ state' = Refreshed
    /\ state' # state
    /\ UNCHANGED <<proc, spawned, live, watch, leftover, lockVars, taskVars, hostVars, rosterVars>>

---------------------------------------------------------------------------
(* Worker processes and their watchers *)

\* A process ends by itself: a crash, or the shutdown it was asked for.
ProcessExits(w, n) ==
    /\ <<w, n>> \in live
    /\ live' = live \ {<<w, n>>}
    /\ UNCHANGED <<state, proc, spawned, watch, leftover, lockVars, taskVars, hostVars, rosterVars>>

\* _watch_exit: process.wait() returned, at any time after the exit (asyncio
\* wakes its waiters once the pipes are closed too).
WatchExit(w, n) ==
    /\ <<w, n>> \in watch /\ <<w, n>> \notin live
    /\ watch' = watch \ {<<w, n>>}
    /\ state' = [state EXCEPT ![w] = IF @ \in {"stopping", "stopped", "failed"} THEN @ ELSE "failed"]
    /\ UNCHANGED <<proc, spawned, live, leftover, lockVars, taskVars, hostVars, rosterVars>>

---------------------------------------------------------------------------
(* critical_stop_all: the poll loop awaits it when the thermal machine      *)
(* enters CRITICAL, so the next poll comes after it.  It takes no lock.     *)

EnterCritical ==
    /\ thermal = "admit" /\ critPc = "idle" /\ criticals < MaxCritical
    /\ phase \in {"serving", "stopping"}
    /\ thermal' = "critical"
    /\ criticals' = criticals + 1
    /\ critPc' = "loop"
    /\ critSize' = Cardinality(roster)
    /\ UNCHANGED <<critWid, critPid, critSeen, workerVars, lockVars, taskVars, rosterVars>>

\* One turn of "for worker in self.workers.values()": Workers without a running
\* process are passed over in dict order, which may be any.
CriticalTurn ==
    LET todo == roster \ critSeen
        idle == {w \in todo : ~Alive(w)}
        changed == Cardinality(roster) # critSize
    IN
    /\ critPc = "loop"
    /\ \/ /\ changed \/ idle = todo
          /\ critPc' = "idle" /\ critSeen' = {} /\ critSize' = 0
          /\ UNCHANGED <<state, critWid, critPid>>
       \/ /\ ~changed
          /\ \E w \in todo \ idle, skipped \in SUBSET idle :
                /\ critPc' = "kill" /\ critWid' = w /\ critPid' = proc[w]
                /\ critSeen' = critSeen \cup skipped \cup {w}
                /\ state' = [state EXCEPT ![w] = "stopping"]
          /\ UNCHANGED critSize
    /\ UNCHANGED <<proc, spawned, live, watch, leftover, lockVars, taskVars,
                   thermal, criticals, rosterVars>>

CriticalKilled ==
    /\ critPc = "kill"
    /\ live' = Terminated(critWid, critPid)
    /\ proc' = [proc EXCEPT ![critWid] = 0]
    /\ state' = [state EXCEPT ![critWid] = "stopped"]
    /\ critPc' = "loop" /\ critWid' = NoWorker /\ critPid' = 0
    /\ UNCHANGED <<critSeen, critSize, spawned, watch, leftover, lockVars, taskVars, thermal, criticals, rosterVars>>

CoolDown ==
    /\ thermal = "critical" /\ critPc = "idle"
    /\ thermal' = "admit"
    /\ UNCHANGED <<workerVars, lockVars, taskVars, criticals, critVars, rosterVars>>

---------------------------------------------------------------------------
(* Service shutdown (main.py lifespan): request handlers have drained, the  *)
(* setup tasks are cancelled wherever they wait, then stop_all runs.  The   *)
(* thermal poll loop still runs.                                            *)

Shutdown(t) ==
    /\ "shutdown" \in Ops /\ phase = "serving"
    /\ t \notin Setup
    /\ \A u \in Tasks \ Setup : pc[u] = "idle"
    /\ phase' = "stopping"
    /\ pc' = [u \in Tasks |-> IF u = t THEN "stopAll.next" ELSE "idle"]
    /\ op' = [u \in Tasks |-> IF u = t THEN "stopAll" ELSE "none"]
    /\ size' = [u \in Tasks |-> IF u = t THEN Cardinality(roster) ELSE 0]
    /\ wid' = [u \in Tasks |-> NoWorker]
    /\ sid' = [u \in Tasks |-> NoWorker]
    /\ gen' = [u \in Tasks |-> 0]
    /\ pid' = [u \in Tasks |-> 0]
    /\ seen' = [u \in Tasks |-> {}]
    /\ loadLock' = NoTask
    /\ lock' = [k \in LockKeys |-> NoTask]
    /\ UNCHANGED <<workerVars, hostVars, roster, removed>>

---------------------------------------------------------------------------
StartStep(t) ==
    \/ AcquireLoadLock(t) \/ StartLocked(t) \/ ExclusiveTurn(t) \/ Reclaim(t)
    \/ Validate(t) \/ Spawn(t) \/ SpawnFails(t) \/ Loaded(t) \/ Verified(t)
    \/ WarmupAnswered(t) \/ BecomeReady(t) \/ StartupFails(t) \/ Aborted(t)

StopStep(t) ==
    \/ StopLocked(t) \/ StopPosted(t) \/ StopExited(t) \/ StopTimesOut(t)
    \/ StopKilled(t) \/ StopAllTurn(t)

\* The coroutine moves on from where it waits.
Step(t) == StartStep(t) \/ StopStep(t) \/ RemoveLocked(t)

\* A caller begins an operation.
Call(t) ==
    \/ \E w \in Workers : Start(t, w) \/ Stop(t, w) \/ Restart(t, w) \/ Remove(t, w)
    \/ StopAll(t)

CriticalStep == CriticalTurn \/ CriticalKilled

Next ==
    \/ \E t \in Tasks : Call(t) \/ Step(t) \/ Shutdown(t)
    \/ \E w \in Workers : RegisterProfile(w)
    \/ \E w \in Workers, n \in 1..MaxSpawn : ProcessExits(w, n) \/ WatchExit(w, n)
    \/ RefreshExits
    \/ EnterCritical \/ CriticalStep \/ CoolDown

Spec == Init /\ [][Next]_vars

\* The event loop runs every coroutine that can run, and every await in a
\* coroutine is bounded by a time-out or by the death of a killed process.
\* asyncio.Lock wakes its waiters first come, first served, so a coroutine whose
\* lock is free again and again gets it.  Nothing obliges a caller to call, a
\* process to exit by itself or the host to heat up.
Fairness ==
    /\ \A t \in Tasks : SF_vars(Step(t))
    /\ \A w \in Workers, n \in 1..MaxSpawn : WF_vars(WatchExit(w, n))
    /\ WF_vars(CriticalStep)

FairSpec == Spec /\ Fairness

---------------------------------------------------------------------------
(* Properties *)

\* The supervisor never loses a process: a running process of a registered
\* Worker is the one in worker.process, where stop(), critical_stop_all() and
\* stop_all() find it.  So there is at most one per Worker.
NoUntrackedProcess ==
    \A p \in live : p[1] \in roster => proc[p[1]] = p[2]

\* Two registered exclusive Workers never run at the same time, whatever starts,
\* stops, crashes and failed launches interleave (the load lock and the loop in
\* start() together).
ExclusiveRunsAlone ==
    \A p, q \in live :
        {p[1], q[1]} \subseteq roster \cap Exclusive => p = q

\* A registered Worker shown as STOPPED or VALIDATING has no running process:
\* neither stop() nor critical_stop_all(), which takes no lock, records STOPPED
\* over a process another coroutine launched, and a start() whose launch builder
\* raised an OSError leaves VALIDATING behind, but no process.
IdleMeansDead ==
    \A p \in live : p[1] \in roster => state[p[1]] \notin {"stopped", "validating"}

\* A Worker shown as starting, loading or warming is being started: the coroutine
\* that holds the load lock is starting it.  No failure path of start() leaves such
\* a state behind, except for VALIDATING, of which IdleMeansDead speaks.
BusyIsBeingStarted ==
    phase = "serving" =>
        \A w \in Workers : state[w] \in Busy =>
            \E t \in Tasks : loadLock = t /\ wid[t] = w

\* What the supervisor records of its Workers is what runs, through every failure
\* path of start(): processes are tracked, idle Workers are dead, and a Worker
\* that is shown on its way is on its way.
RecordsMatchProcesses == NoUntrackedProcess /\ IdleMeansDead /\ BusyIsBeingStarted

\* When the service's stop_all returned, no process of a registered Worker runs,
\* even if a setup task was cancelled in the middle of a launch and the critical
\* handler ran at the same time.
CleanShutdown ==
    phase = "down" => \A p \in live : p[1] \notin roster

\* Every operation returns, also when the critical handler and a shutdown get in
\* its way: no coroutine waits for ever for a lock, a process or another
\* coroutine.
EveryCallReturns == \A t \in Tasks : pc[t] # "idle" ~> pc[t] = "idle"

\* "Stop the worker before removing its runtime configuration": a Worker whose
\* configuration was removed has no process.
RemovedHasNoProcess == \A p \in live : p[1] \in roster

\* "immediate process isolation for the host-level critical policy": once
\* critical_stop_all finished and while the critical state lasts, no Worker
\* process runs.
CriticalIsolation ==
    (thermal = "critical" /\ critPc = "idle") => live = {}
============================================================================
