--------------------------- MODULE MCSupervisor ---------------------------
(* Small instances of Supervisor for TLC.                                  *)
EXTENDS Supervisor, TLC

CONSTANTS w1, w2, t1, t2, t3

OneWorker == {w1}
TwoWorkers == {w1, w2}
OneTask == {t1}
TwoTasks == {t1, t2}
ThreeTasks == {t1, t2, t3}
Empty == {}
LifecycleOps == Operations \ {"shutdown"}
StartOnly == {"start"}
StartRemove == {"start", "remove"}
StartStopShutdown == {"start", "stop", "shutdown"}
FreePorts == {"none"}
AnyPort == {"none", "stale", "other"}
\* Callers that are all alike: none of them is cancelled.
CallerSymmetry == Permutations(Tasks)

\* asyncio does not switch where nothing is awaited: a free lock is taken at once,
\* and the loop of an exclusive start and the return of start() run on.
RunsOn(t) ==
    \/ pc[t] = "load.lock" /\ loadLock = NoTask
    \/ pc[t] \in {"worker.lock", "remove.lock"} /\ lock[<<wid[t], gen[t]>>] = NoTask
    \/ pc[t] \in {"exclusive", "answered"}

AwaitNext ==
    IF \E t \in Tasks : RunsOn(t)
    THEN \E t \in Tasks : RunsOn(t) /\ Step(t)
    ELSE Next

\* Those behaviours of Spec whose every switch is at an await that waits.
AwaitSpec == Init /\ [][AwaitNext]_vars
============================================================================
