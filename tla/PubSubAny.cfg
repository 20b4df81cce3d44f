SPECIFICATION Spec
CONSTANTS
  Channels = {c}
  Patterns = {c, p}
  MaxCmds = 3
  MaxMsgs = 2
  MaxCloses = 1
CHECK_DEADLOCK FALSE
INVARIANTS TypeOK MessagesInOrder NoMessageLost OwnConfirmation ServerAgrees
