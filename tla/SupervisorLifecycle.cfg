SPECIFICATION Spec
CONSTANTS
  w1 = w1  w2 = w2  t1 = t1  t2 = t2  t3 = t3
  NoTask = NoTask  NoWorker = NoWorker
  Workers <- TwoWorkers  Exclusive <- TwoWorkers  Initial <- OneWorker
  Tasks <- TwoTasks  Setup <- Empty  Ops <- LifecycleOps  Leftovers <- AnyPort
  MaxSpawn = 1  MaxCritical = 1
CHECK_DEADLOCK FALSE
SYMMETRY CallerSymmetry
INVARIANT TypeOK
INVARIANT RecordsMatchProcesses
INVARIANT ExclusiveRunsAlone
