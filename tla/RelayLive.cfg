SPECIFICATION AllSpec
CONSTANTS
  d1 = d1
  d2 = d2
  d3 = d3
  x1 = x1
  r1 = r1
  r2 = r2
  nothing = nothing
  t1 = t1
  t2 = t2
  w1 = w1
  w2 = w2
  DeviceKey = {d1, d2, d3}
  First = {d1, d2}
  Snapshots = {x1}
  PublisherOf <- FromFirst
  Replacement = {r1, r2}
  MaxGen = 2
  NoReceipt = nothing
  Worker = {w1, w2}
  MaxFeed = 3
  MaxRevision = 3
  Todo = {t1, t2}
  AnswerSizes = {0, 1}
  MaxTicks = 4
  MaxSaved = 3
  Device <- Two
  Server = 2
  Key = {k1}
  Offered = {"row", "badvalue"}
  MaxOps = 1
  MaxAuthored = 1
  MaxTs = 2
  MaxPush = 2
  MaxPull = 1
  MaxLate = 0
  MaxEpoch = 1
  MaxPrunes = 0
INVARIANTS LibrarySound NewestImported 
PROPERTIES EveryoneCatchesUp
CHECK_DEADLOCK FALSE
