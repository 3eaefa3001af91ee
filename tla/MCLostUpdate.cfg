\* A standalone approval lands between a failed group approval and its retry.
SPECIFICATION Spec
CONSTANTS
  A = A  B = B  p = p  q = q  v0 = v0  v1 = v1  v2 = v2  t1 = t1  t2 = t2
  None = None  Open = Open
  ChangeSets = {A, B}
  Skus = {p, q}
  Content = {v0, v1, v2}
  Titles = {t1, t2}
  Catalogue <- FullCatalogue
  Remote <- MCRemote  Drifting = {}
  Group <- OnlyP
  DraftContent <- OneDraft
  Reads <- NoReads
  Title <- MCTitle
  Linked = {A}
  Planned = {A}
  Discardable = {}
  HeadMayFail = FALSE
  MaxCommits = 4  MaxCrashes = 0  MaxFaults = 1  MaxEdits = 0
CHECK_DEADLOCK FALSE
PROPERTIES NoLostUpdate
