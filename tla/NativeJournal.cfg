SPECIFICATION Spec
CONSTANTS
  Doc = {d1, d2}
  NoDoc = NoDoc
  MaxOps = 2
  MaxRev = 2
  MaxGen = 1
  MaxLate = 1
  Offered <- Notes
  Overtaking = FALSE
  KeepsMarker = {TRUE}
  DeviceDeletes = TRUE
CHECK_DEADLOCK FALSE
INVARIANTS NativeWins  CancelKept RetiredAfterReplacement
PROPERTIES SentUnderFence
