\* One item whose page is extracted with a domain profile, one request.
SPECIFICATION Spec
CONSTANTS
  b1 = b1  b2 = b2  None = None
  Items = {1}
  StaticItems = {}
  Brands = {b1, b2}
  FirstBrand <- MCFirstBrand
  MaxConcurrency = 1  StaleAfter = 1
  MaxClock = 0  MaxWorkers = 1  MaxEdits = 1
CHECK_DEADLOCK FALSE
PROPERTIES TasksWriteUnderLease
