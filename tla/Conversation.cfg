SPECIFICATION Spec
CONSTANTS
  Preroll = 2
  MaxWait = 5
  SilenceHang = 2
  MaxUtterance = 8
  MaxToolRounds = 3
  MaxCalls = 2
INVARIANTS UtteranceIsWhole EveryCallAnswered
PROPERTY ComesBack
CHECK_DEADLOCK FALSE
