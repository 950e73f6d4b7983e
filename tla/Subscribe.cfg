SPECIFICATION FairSpec
CONSTANTS
  Erd = {e1, e2, e3}
  ValidErd = {e1, e2}
  ClientQueue = 2
  AutoMode = TRUE
INVARIANTS
  SubscribeTypeOK
  AttemptOutstanding
  RetentionRuns
PROPERTIES
  SubscriptionDecided
  SubscribeSteps
CHECK_DEADLOCK FALSE
