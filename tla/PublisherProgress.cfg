SPECIFICATION WorldSpec
CONSTANTS
  Key = {k1, k2}
  NoKey = NoKey
  Byte = {0, 1}
  ZeroByte = 0
  Capacity = 2
  ArenaSize = 2
  MaxDataSize = 1
  MaxInputSize = 1
  MaxCooldown = 1
  Reading <- OneChanging
  NoPayload = NoPayload
  LongOutage = 1
  HaDiscovery = TRUE
  Outages = TRUE
  LossyLink = TRUE
PROPERTY
  EventuallyPublished
