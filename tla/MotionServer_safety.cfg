CONSTANTS
  c1 = c1
  home = home
  a = a
  b = b
  Cmd = {c1, c2}
  NoCmd = NoCmd
  Pose = {home, a, b}
  Home = home
  Between = Between
  Legs <- Moves
  ToolMoves = {}
  Paths = {}
  Tool = Tool
  Path = Path
  Hand = Hand
  Grip = Grip
  Holds = {Grip}
  Stopj = Stopj
SPECIFICATION ServerSafeSpec
CHECK_DEADLOCK FALSE
INVARIANTS
  ServerTypeOK
  StopLimitsDamage
PROPERTY QueuedMovesDoNotCollide
