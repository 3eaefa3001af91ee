SPECIFICATION Spec
CONSTANTS
  a = a  b = b  k1 = k1  k2 = k2  k3 = k3
  Skus = {k1, k2, k3}  Existing = {k1, k2}  Sets = {a, b}
  Writes <- MCWrites  Reads <- MCReads
  MaxJobs = 2  MaxRunning = 2  MaxPages = 2  MaxEvents = 1  MaxCrashes = 1
CHECK_DEADLOCK FALSE
INVARIANTS TypeOK SyncedIsApproved SyncedWasWhole
PROPERTIES ResumeRepeats KeepsSynced PushesEnd
