CONSTANTS
  m1 = m1
  Queued = {m1}
  Blocking = {m2}
  Target <- Targets
  Reach = 2
  Nobody = Nobody
  Sync = Sync
  Stopj = Stopj
  Hand = Hand
SPECIFICATION Spec
CHECK_DEADLOCK FALSE
PROPERTY StopReachesReal
