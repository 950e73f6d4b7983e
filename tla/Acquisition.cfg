SPECIFICATION FairSpec
CONSTANTS
  Address = {"0xB8", "0xC0"}
  Broadcast = "0xFF"
  Features <- FeatureList
  Setups <- Appliances
  MaxRefusals = 2
  WriteErd = {"0x1001"}
  Write <- Writes
INVARIANTS
  BoardFound
  IdentityReadHeld
  FeatureReadHeld
  PendingWriteHeld
PROPERTIES
  AcquisitionCompletes
  WritesAnswered
CHECK_DEADLOCK FALSE
