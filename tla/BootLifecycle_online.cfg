SPECIFICATION Spec
CONSTANTS
  MaxTokens = 1
  GrubStates = 1
  LastState = 2
  Units <- UnitAndHook
  Window = 2
  MaxMessages = 1
  MaxFaults = 0
PROPERTIES
  HeartbeatKeepsOnline
\* A machine without a grub.cfg waits when there are no more tokens.
CHECK_DEADLOCK FALSE
