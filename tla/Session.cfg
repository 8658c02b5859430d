SPECIFICATION FairSpec
CONSTANTS
  Settings <- AllSettings
  Script <- Pipelined
  HelloLen = 3
  ChunkLen = 2
  MaxPushed = 3
INVARIANTS TypeOK NothingSwallowed
PROPERTIES ImplementsChannel ExchangeCompletes ConstraintsArrive SessionEnds CloseIsFollowed
CHECK_DEADLOCK FALSE
