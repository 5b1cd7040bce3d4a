CONSTANTS
  w1 = w1
  w2 = w2
  i1 = i1
  i2 = i2
  NoWorker = NoWorker
  Items <- TwoItems
  Workers <- MCWorkers
  Concurrency = 2
  MaxAttempts = 2
  LeaseTicks = 3
  MaxFaults = 1
  Maintained = FALSE
SPECIFICATION FairSpec
PROPERTIES EverySettled
CHECK_DEADLOCK FALSE
