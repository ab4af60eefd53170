SPECIFICATION AllSpec
CONSTANTS
  w1 = w1
  w2 = w2
  nobody = nobody
  nothing = nothing
  a1 = a1
  e1 = e1
  e2 = e2
  u1 = u1
  q1 = q1
  q2 = q2
  h1 = h1
  h2 = h2
  Asset = {a1}
  Index = {0}
  Digest = {e1, e2}
  Right <- OneChunk
  Uploader = {u1}
  Verifier = {w1, w2}
  MaxReset = 1
  Losable = {e2}
  NoDigest = nothing
  Reader = {w1, w2}
  Notebook = {e1}
  Ink = {h1}
  Typed = {h2}
  Nothing = nothing
  MaxChanges = 2
  TextPage = {q1, q2}
  Words = {h1, h2}
  Embedder = {w1, w2}
  NoWords = nothing
  NoEmbedder = nobody
  MaxBuilds = 2
  MaxEdits = 1
  MaxTries = 1
  Passage = {q1, q2}
  PassagesOf <- TwoVersions
  MaxInk = 2
  MaxRuns = 2
  MaxFailures = 1
  Tab = {w1, w2}
  Pass = {u1}
  Url = {h1}
  NoUrl = nothing
  Deployed <- Keyless
  Scopes <- ThreeScopes
  MaxSaves = 3
  MaxClock = 3
  p1 = p1
  p2 = p2
  c0 = c0
  c1 = c1
  Page = {p1}
  Requested = {p1}
  Content = {c1}
  Blank = {}
  Drawn <- DrawnOnePage
  Worker = {w1, w2}
  Limits = {2}
  MaxAttempts = 1
  Overlap = TRUE
  NoWorker = NoWorker
  NoContent = NoContent
  NoPage = NoPage
SYMMETRY Symmetry
CONSTRAINT NoOverride
INVARIANTS TypeOK LeaseDiscipline ReadyWhole IndexCurrent VectorsCurrent ItemsRight
PROPERTIES OwnerHold SkippedStays 
CHECK_DEADLOCK FALSE
