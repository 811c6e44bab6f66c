CONSTANTS
  t1 = t1
  Thread = {t1, t2}
  Legs <- TwoLegs
  NoGoal = NoGoal
SPECIFICATION Spec
INVARIANTS
  HandleIsTracked
  HandleLostToFlagged
  StopAgreesWithQueue
PROPERTY CallsEnd
