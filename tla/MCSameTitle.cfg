\* Two change sets of the same title and size.
SPECIFICATION Spec
CONSTANTS
  A = A  B = B  p = p  q = q  v0 = v0  v1 = v1  v2 = v2  t1 = t1  t2 = t2
  None = None  Open = Open
  ChangeSets = {A, B}
  Skus = {p, q}
  Content = {v0, v1, v2}
  Titles = {t1, t2}
  Catalogue <- FullCatalogue
  Remote <- MCRemote  Drifting = {}
  Group <- BothSkus
  DraftContent <- OneDraft
  Reads <- NoReads
  Title <- SameTitle
  Linked = {A}
  Planned = {A}
  Discardable = {}
  HeadMayFail = FALSE
  MaxCommits = 4  MaxCrashes = 1  MaxFaults = 0  MaxEdits = 0
CHECK_DEADLOCK FALSE
INVARIANTS GroupIsWhole
