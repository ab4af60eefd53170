SPECIFICATION AllSpec
CONSTANTS
  w1 = w1
  w2 = w2
  nobody = nobody
  nothing = nothing
  e1 = e1
  h1 = h1
  m1 = m1
  Volume = {1}
  Lists <- ShrinkingList
  Run = {1}
  Stepper = {w1, w2}
  NoStepper = nobody
  ChunkSize = 1
  MaxJobs = 2
  MaxTouches = 1
  Recording = {1}
  ByTime <- OneRecording
  Body = {h1}
  NoBody = nothing
  Voice = {e1}
  Scribe = {w1, w2}
  NoScribe = nobody
  Requester = {m1}
  MaxDrafts = 1
  MaxRequests = 2
  MaxTurns = 1
  p1 = p1
  p2 = p2
  c0 = c0
  c1 = c1
  Page = {p1, p2}
  Requested = {p1}
  Content = {c0, c1}
  Blank = {c0}
  Drawn <- DrawnGrowing
  Worker = {w1}
  Limits = {1, 2}
  MaxAttempts = 1
  Overlap = FALSE
  NoWorker = NoWorker
  NoContent = NoContent
  NoPage = NoPage
INVARIANTS TextCurrent  RunSound MinutesSound
PROPERTIES CapFencesResults QueueDrains
