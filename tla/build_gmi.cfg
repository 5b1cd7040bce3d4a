CONSTANTS
  brief = brief
  cutout = cutout
  copy = copy
  plan = plan
  narration = narration
  music = music
  card = card
  delivery = delivery
  keyframe = keyframe
  clip = clip
  image = image
  video = video
  fallback = fallback
  cross = cross
  s1 = s1
  s2 = s2
  Nodes <- GmiNodes
  Edges <- GmiEdges
  Kind <- GmiKind
  Policy <- GmiPolicy
  Models <- GmiModels
  Errors = {"TRANSIENT", "MODEL", "INPUT"}
  Reuses <- GmiReuses
  Slots <- TwoSlots
  MaxRetakes = 0
  MaxFaults = 2
  FaultKinds = {"lapse", "crash", "settle", "storage", "database", "late"}
SYMMETRY Symmetry
SPECIFICATION Spec
INVARIANTS NodeMatchesAttempt LadderWithinBudget FailedModelNotRepeated DecisionStands
PROPERTY ImplementsDataFlow
CHECK_DEADLOCK FALSE
