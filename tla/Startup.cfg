SPECIFICATION FairSpec
CONSTANTS
  e = e
  m = m
  c1 = c1
  c2 = c2
  Standard <- StandardErds
  Feature <- FeatureErds
  Mandatory <- MandatoryErds
  Custom <- CustomErds
  Published <- PublishedErds
  Position <- CustomPosition
  ERD_POLL_LIST_MAX_SIZE = 3
INVARIANTS
  StartupTypeOK
  BridgesOwned
  DataPath
  CustomErdsCovered
PROPERTIES
  SteadyIsComplete
  StartupCompletes
