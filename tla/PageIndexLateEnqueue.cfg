SPECIFICATION Spec
CONSTANTS
  p1 = p1
  p2 = p2
  c0 = c0
  c1 = c1
  Page = {p1}
  Requested = {p1}
  Content = {c0, c1}
  Blank = {c0}
  Drawn <- DrawnOnePage
  Worker = {w1, w2}
  Limits = {2}
  MaxAttempts = 1
  Overlap = TRUE
  NoWorker = NoWorker
  NoContent = NoContent
  NoPage = NoPage
SYMMETRY Symmetry
CONSTRAINT NoOverride
INVARIANT TextCurrent
