CONSTANTS
  c1 = c1
  home = home
  a = a
  b = b
  Cmd = {c1}
  NoCmd = NoCmd
  Pose = {home, a, b}
  Home = home
  Between = Between
  Legs <- Program
  ToolMoves <- Sequence
  Paths <- RoundTrip
  Tool = Tool
  Path = Path
  Hand = Hand
  Grip = Grip
  Holds = {Hand, Grip}
  Stopj = Stopj
SPECIFICATION ServerSafeSpec
CHECK_DEADLOCK FALSE
INVARIANT UnwatchedMotionFailed
