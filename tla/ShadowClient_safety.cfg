CONSTANTS
  m1 = m1
  Queued = {m1}
  Blocking = {m2}
  Target <- Targets
  Reach = 2
  Nobody = Nobody
  Sync = Sync
  Stopj = Stopj
  Hand = Hand
SPECIFICATION SafeSpec
CHECK_DEADLOCK FALSE
INVARIANTS
  TypeOK
  GatedBySim
  DriftHasACause
