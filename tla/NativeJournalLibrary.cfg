SPECIFICATION AllSpec
CONSTANTS
  v1 = v1
  v2 = v2
  nothing = nothing
  n1 = n1
  n2 = n2
  k1 = k1
  b1 = b1
  f1 = f1
  g1 = g1
  Notebook = {n1, n2}
  Removable = {n1}
  Child = {k1}
  NotebookOf <- OwnNotebook
  Body = {b1}
  BatchLimit = 1
  MaxWrites = 2
  MaxFailures = 1
  Batch = {1, 2}
  Folder = {f1}
  Book = {g1}
  FolderOf <- OneFolder
  BookOf <- OneBook
  MaxEdits = 1
  MaxLost = 1
  AnnotationCount = 1
  Worker = {v1, v2}
  Pumper = {v1}
  Limit = 1
  MaxEvents = 2
  Authored <- OneSession
  Sweeper = {v1, v2}
  PageSize = 2
  MaxPages = 3
  NoRow = nothing
  Doc = {d1}
  NoDoc = NoDoc
  MaxOps = 2
  MaxRev = 2
  MaxGen = 1
  MaxLate = 1
  Offered <- Reading
  Overtaking = TRUE
  KeepsMarker = {TRUE, FALSE}
  DeviceDeletes = TRUE
CHECK_DEADLOCK FALSE
INVARIANTS NotificationChain PurgeSound
  ReaderConverges SearchCurrent
  
