SPECIFICATION FairSpec
CONSTANTS
  w1 = w1  w2 = w2  t1 = t1  t2 = t2  t3 = t3
  NoTask = NoTask  NoWorker = NoWorker
  Workers <- TwoWorkers  Exclusive <- TwoWorkers  Initial <- TwoWorkers
  Tasks <- TwoTasks  Setup <- OneTask  Ops <- StartStopShutdown  Leftovers <- FreePorts
  MaxSpawn = 1  MaxCritical = 1
CHECK_DEADLOCK FALSE
INVARIANT CleanShutdown
PROPERTY EveryCallReturns
