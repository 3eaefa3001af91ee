\* A change set that reconciles a drift is interrupted after its approval, and discarded.
SPECIFICATION Spec
CONSTANTS
  A = A  B = B  p = p  q = q  v0 = v0  v1 = v1  v2 = v2  t1 = t1  t2 = t2
  None = None  Open = Open
  ChangeSets = {B}
  Skus = {p, q}
  Content = {v0, v1, v2}
  Titles = {t1, t2}
  Catalogue <- MCCatalogue
  Remote <- MCRemote  Drifting = {p}
  Group <- ReaderAndEditor
  DraftContent <- OneDraft
  Reads <- AReadsP
  Title <- MCTitle
  Linked = {}
  Planned = {}
  Discardable = {B}
  HeadMayFail = FALSE
  MaxCommits = 3  MaxCrashes = 1  MaxFaults = 0  MaxEdits = 0
CHECK_DEADLOCK FALSE
INVARIANTS DriftIsHeld
