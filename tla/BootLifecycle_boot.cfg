SPECIFICATION FairSpec
CONSTANTS
  MaxTokens = 2
  GrubStates = 1
  LastState = 3
  Units <- TwoUnits
  Window = 1
  MaxMessages = 1
  MaxFaults = 1
INVARIANTS
  TypeOK
  RebootsAreAsked
  StateIsReal
PROPERTIES
  ViewNeverGoesBack
  SignalIsHeard
  BootIsShown
  RowFollowsBoot
\* A machine without a grub.cfg waits when there are no more tokens.
CHECK_DEADLOCK FALSE
