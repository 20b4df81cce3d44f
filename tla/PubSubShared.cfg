SPECIFICATION Spec
CONSTANTS
  Channels = {c}
  Patterns = {}
  MaxCmds = 3
  MaxMsgs = 1
  MaxCloses = 0
CHECK_DEADLOCK FALSE
INVARIANT KeepsSubscription
