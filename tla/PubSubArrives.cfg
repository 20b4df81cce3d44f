SPECIFICATION FairSpec
CONSTANTS
  Channels = {c}
  Patterns = {p}
  MaxCmds = 3
  MaxMsgs = 2
  MaxCloses = 1
CHECK_DEADLOCK FALSE
PROPERTY Arrives
