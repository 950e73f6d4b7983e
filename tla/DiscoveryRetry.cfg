SPECIFICATION Spec
CONSTANTS
  t1 = t1
  t2 = t2
  old = old
  new = new
  Topic = {t1, t2}
  BufSize = 2
  MaxFaults = 1
  Payload = {old, new}
  NoPayload = NoPayload
  Config = {old}
  Entities <- EntitiesOf
  PayloadOf <- PayloadsOf
  Generates = {old}
  NoRecord = NoRecord
  MaxTrouble = 3
INVARIANT
  FailedRunIsRetried
CHECK_DEADLOCK FALSE
