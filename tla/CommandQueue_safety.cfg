CONSTANTS
  Cmd = {c1, c2, c3}
  NoCmd = NoCmd
SPECIFICATION SafeSpec
SYMMETRY Symmetry
INVARIANTS
  TypeOK
  NoLostWakeup
  NoSpuriousCancel
  DroppedNeverRuns
  NothingLost
  FifoOrder
  OneLiveCommand
  SettledWhenReleased
PROPERTY ImplementsSerialQueue
