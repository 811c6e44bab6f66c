CONSTANTS
  Cmd = {c1, c2}
  NoCmd = NoCmd
SPECIFICATION Spec
PROPERTIES
  EveryCommandServed
  CancelFreesQueue
  ImplementsSerialService
