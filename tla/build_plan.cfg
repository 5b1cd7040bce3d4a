CONSTANTS
  brief = brief
  cutout = cutout
  copy = copy
  plan = plan
  narration = narration
  music = music
  card = card
  delivery = delivery
  keyframe = keyframe
  clip = clip
  image = image
  video = video
  fallback = fallback
  cross = cross
  s1 = s1
  s2 = s2
  Nodes <- PlanNodes
  Edges <- PlanEdges
  Kind <- PlanKind
  Policy <- NoPolicy
  Models <- GmiModels
  Errors = {}
  Reuses <- PlanReuses
  Slots <- TwoSlots
  MaxRetakes = 2
  MaxFaults = 2
  FaultKinds = {"lapse", "crash", "settle", "storage", "database"}
SYMMETRY Symmetry
SPECIFICATION Spec
INVARIANTS TypeOK PaidOncePerDecision OnlyLatestLives NodeMatchesAttempt
PROPERTIES LegalMoves ImplementsDataFlow
CHECK_DEADLOCK FALSE
