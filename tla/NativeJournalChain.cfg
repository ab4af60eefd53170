SPECIFICATION Spec
CONSTANTS
  Doc = {d1}
  NoDoc = NoDoc
  MaxOps = 2
  MaxRev = 3
  MaxGen = 0
  MaxLate = 0
  Offered <- Reading
  Overtaking = FALSE
  KeepsMarker = {TRUE}
  DeviceDeletes = FALSE
CHECK_DEADLOCK FALSE
INVARIANTS ChainFenced
