CONSTANTS
  brief = brief
  cutout = cutout
  copy = copy
  plan = plan
  narration = narration
  music = music
  card = card
  delivery = delivery
  keyframe = keyframe
  clip = clip
  image = image
  video = video
  fallback = fallback
  cross = cross
  s1 = s1
  s2 = s2
  Nodes <- LiveNodes
  Edges <- LiveEdges
  Kind <- LiveKind
  Policy <- NoPolicy
  Models <- GmiModels
  Errors = {}
  Reuses <- NoReuse
  Slots <- TwoSlots
  MaxRetakes = 0
  MaxFaults = 2
  FaultKinds = {"lapse", "crash", "settle"}
SPECIFICATION FairSpec
PROPERTIES BuildEnds
CHECK_DEADLOCK FALSE
