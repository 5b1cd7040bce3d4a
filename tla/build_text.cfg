CONSTANTS
  brief = brief
  cutout = cutout
  copy = copy
  plan = plan
  narration = narration
  music = music
  card = card
  delivery = delivery
  keyframe = keyframe
  clip = clip
  image = image
  video = video
  fallback = fallback
  cross = cross
  s1 = s1
  s2 = s2
  Nodes <- TextNodes
  Edges <- TextEdges
  Kind <- TextKind
  Policy <- NoPolicy
  Models <- GmiModels
  Errors = {}
  Reuses <- TextReuses
  Slots <- TwoSlots
  MaxRetakes = 1
  MaxFaults = 3
  FaultKinds = {"lapse", "crash", "settle", "storage", "database"}
SYMMETRY Symmetry
SPECIFICATION Spec
INVARIANTS NodeMatchesAttempt
PROPERTIES LegalMoves ImplementsDataFlow
CHECK_DEADLOCK FALSE
