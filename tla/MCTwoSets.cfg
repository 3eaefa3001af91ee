\* A linked change set that reads the product of a standalone one, with drift, edits and exports.
SPECIFICATION Spec
CONSTANTS
  A = A  B = B  p = p  q = q  v0 = v0  v1 = v1  v2 = v2  t1 = t1  t2 = t2
  None = None  Open = Open
  ChangeSets = {A, B}
  Skus = {p, q}
  Content = {v0, v1, v2}
  Titles = {t1, t2}
  Catalogue <- MCCatalogue
  Remote <- MCRemote  Drifting = {p}
  Group <- ReaderAndEditor
  DraftContent <- OneDraft
  Reads <- AReadsP
  Title <- MCTitle
  Linked = {A}
  Planned = {A}
  Discardable = {A, B}
  HeadMayFail = TRUE
  MaxCommits = 3  MaxCrashes = 1  MaxFaults = 1  MaxEdits = 1
CHECK_DEADLOCK FALSE
INVARIANTS ExportIsReviewed AuditedOnce
PROPERTIES ApprovalNeverMoves CommitsHoldDrafts ImplementsReviewed
