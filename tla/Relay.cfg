SPECIFICATION Spec
CONSTANTS
  Device = {1}
  Server = 2
  Key = {k1}
  Offered <- EverySettlement
  MaxOps = 2
  MaxAuthored = 1
  MaxTs = 2
  MaxPush = 2
  MaxPull = 1
  MaxLate = 1
  MaxEpoch = 2
  MaxPrunes = 1
INVARIANTS TypeOK MirrorLatest AcceptedHeld PulledComplete ServerSortsLast
