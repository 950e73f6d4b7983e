CONSTANTS
  DeleteTicks = 2
  UnlinkTicks = 2
  YieldTicks = 5
SPECIFICATION FairSpec
INVARIANT
  AcknowledgedStopIsSafe
PROPERTY
  SignalsAreServed
CHECK_DEADLOCK FALSE
