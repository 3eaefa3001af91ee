\* One linked change set whose write fails.
SPECIFICATION Spec
CONSTANTS
  A = A  B = B  p = p  q = q  v0 = v0  v1 = v1  v2 = v2  t1 = t1  t2 = t2
  None = None  Open = Open
  ChangeSets = {A}
  Skus = {p, q}
  Content = {v0, v1, v2}
  Titles = {t1, t2}
  Catalogue <- MCCatalogue
  Remote <- MCRemote  Drifting = {}
  Group <- BothSkus
  DraftContent <- OneDraft
  Reads <- NoReads
  Title <- MCTitle
  Linked = {A}
  Planned = {A}
  Discardable = {}
  HeadMayFail = FALSE
  MaxCommits = 3  MaxCrashes = 0  MaxFaults = 1  MaxEdits = 0
CHECK_DEADLOCK FALSE
INVARIANTS JoinsAreRestored
