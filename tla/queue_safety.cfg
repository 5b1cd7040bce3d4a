CONSTANTS
  w1 = w1
  w2 = w2
  i1 = i1
  i2 = i2
  NoWorker = NoWorker
  Items <- TwoItems
  Workers <- MCWorkers
  Concurrency = 2
  MaxAttempts = 2
  LeaseTicks = 3
  MaxFaults = 2
  Maintained = TRUE
SYMMETRY Symmetry
SPECIFICATION Spec
INVARIANTS TypeOK OwnerIffLeased LatestClaimSettles WaitingHasBudget
PROPERTIES LegalMoves ExcessOnlyByReclaim ImplementsBoard
CHECK_DEADLOCK FALSE
