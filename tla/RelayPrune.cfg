SPECIFICATION Spec
CONSTANTS
  Device = {1}
  Server = 2
  Key = {k1}
  Offered = {"row", "badrow"}
  MaxOps = 2
  MaxAuthored = 1
  MaxTs = 3
  MaxPush = 2
  MaxPull = 1
  MaxLate = 1
  MaxEpoch = 1
  MaxPrunes = 1
INVARIANTS PositionKept
