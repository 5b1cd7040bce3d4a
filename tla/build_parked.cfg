CONSTANTS
  brief = brief
  cutout = cutout
  copy = copy
  plan = plan
  narration = narration
  music = music
  card = card
  delivery = delivery
  keyframe = keyframe
  clip = clip
  image = image
  video = video
  fallback = fallback
  cross = cross
  s1 = s1
  s2 = s2
  Nodes <- ParkedNodes
  Edges <- ParkedEdges
  Kind <- ParkedKind
  Policy <- NoPolicy
  Models <- GmiModels
  Errors = {}
  Reuses <- BriefReused
  Slots <- TwoSlots
  MaxRetakes = 1
  MaxFaults = 0
  FaultKinds = {}
SPECIFICATION Spec
INVARIANT QueuedIsAttended
CHECK_DEADLOCK FALSE
