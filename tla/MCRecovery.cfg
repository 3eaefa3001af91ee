\* One linked change set, its retries, two crashes and two failures.
SPECIFICATION FairSpec
CONSTANTS
  A = A  B = B  p = p  q = q  v0 = v0  v1 = v1  v2 = v2  t1 = t1  t2 = t2
  None = None  Open = Open
  ChangeSets = {A}
  Skus = {p, q}
  Content = {v0, v1, v2}
  Titles = {t1, t2}
  Catalogue <- MCCatalogue
  Remote <- MCRemote  Drifting = {}
  Group <- BothSkus
  DraftContent <- OneDraft
  Reads <- NoReads
  Title <- MCTitle
  Linked = {A}
  Planned = {A}
  Discardable = {}
  HeadMayFail = FALSE
  MaxCommits = 4  MaxCrashes = 2  MaxFaults = 2  MaxEdits = 0
INVARIANTS TypeOK GroupIsWhole DirtIsUndoable LandedStays
PROPERTIES PointersGoForward EventuallySettled
