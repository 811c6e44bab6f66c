SPECIFICATION Spec
CONSTANTS
  w1 = w1
  w2 = w2
  Proc = {p1, p2}
  Waypoint = {w1, w2}
  Program = {g1}
  Pose = {q1}
  Lists <- Visits
  None = None
INVARIANTS ReadableUnlessSpoiled StartedLegsWereSaved
PROPERTY ImplementsAtomicStore
