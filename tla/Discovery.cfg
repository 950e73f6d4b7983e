SPECIFICATION FairSpec
CONSTANTS
  t1 = t1
  t2 = t2
  old = old
  new = new
  Topic = {t1, t2}
  BufSize = 2
  MaxFaults = 1
  Payload = {old, new}
  NoPayload = NoPayload
  Config = {old, new}
  Entities <- EntitiesOf
  PayloadOf <- PayloadsOf
  Generates = {old, new}
  NoRecord = NoRecord
  MaxTrouble = 2
INVARIANTS
  UpdateTypeOK
  UpdateStages
  CleanupComplete
PROPERTIES
  RecordedIsPublished
  Settles
CHECK_DEADLOCK FALSE
