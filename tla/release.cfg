CONSTANTS
  none = none
  v1 = v1
  v2 = v2
  b1 = b1
  s1 = s1
  s2 = s2
  film = film
  poster = poster
  NoLabel = NoLabel
  Labels <- TwoLabels
  Builds <- OneBuild
  Sessions <- TwoSessions
  DeliveredBy <- Delivered
  Steps = 1
  MaxFaults = 2
SYMMETRY Symmetry
SPECIFICATION Spec
INVARIANTS TypeOK PublishedIsWhole LogTellsStatus ExecutionIsNotMissed
CHECK_DEADLOCK FALSE
