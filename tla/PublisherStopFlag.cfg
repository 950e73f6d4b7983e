CONSTANTS
  DeleteTicks = 2
  UnlinkTicks = 2
  YieldTicks = 5
SPECIFICATION Spec
INVARIANT TaskSeesFlagOnWake
CHECK_DEADLOCK FALSE
