SPECIFICATION WorldSpec
CONSTANTS
  MaxClock = 5
  Spot = {0, 1}
  MaxSeen = 2
  Cache = 1
  Patience = 1
  MaxNow = 3
  Obstacle = {o1, o2}
  Location = {0, 1, 2}
  MaxRequests = 2
  Robot = Robot
  Lazy = {planner, lookup}
  Blind = {lookup}
  Depth = 2
  Cooldown = 2
  Duration = 1
INVARIANTS
  SnapshotIsHonest
  FoundHasACause
  ContextOutlivesNodes
PROPERTIES
  FeasibleAvoidsObstacles
  HandStopsArm
CHECK_DEADLOCK FALSE
