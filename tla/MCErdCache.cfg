SPECIFICATION CacheSpec
CONSTANTS
  Key = {k1, k2, k3}
  NoKey = NoKey
  Byte = {0, 1}
  ZeroByte = 0
  Capacity = 2
  ArenaSize = 3
  MaxDataSize = 2
  MaxInputSize = 3
  MaxCooldown = 1
INVARIANTS
  CacheTypeOK
  CacheInv
PROPERTY
  ImplementsStore
