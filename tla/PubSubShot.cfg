SPECIFICATION Spec
CONSTANTS
  Channels = {c}
  Patterns = {}
  MaxCmds = 2
  MaxMsgs = 1
  MaxCloses = 0
CHECK_DEADLOCK FALSE
INVARIANT ShotUnsubscribed
