SPECIFICATION FairSpec
CONSTANTS
  Doc = {d1}
  NoDoc = NoDoc
  MaxOps = 2
  MaxRev = 2
  MaxGen = 0
  MaxLate = 0
  Offered <- Reading
  Overtaking = TRUE
  KeepsMarker = {TRUE}
  DeviceDeletes = FALSE
CHECK_DEADLOCK FALSE
PROPERTIES ChainsSettle
