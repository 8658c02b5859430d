SPECIFICATION Spec
CONSTANTS
  Settings <- GoSetting
  Script <- SetupOnly
  HelloLen = 2
  ChunkLen = 2
  MaxPushed = 0
INVARIANTS ResponderIsGenuine
CHECK_DEADLOCK FALSE
