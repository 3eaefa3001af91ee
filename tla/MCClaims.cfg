\* Two items, one of them of a domain without a profile; two workers, one request.
SPECIFICATION Spec
CONSTANTS
  b1 = b1  b2 = b2  None = None
  Items = {1, 2}
  StaticItems = {2}
  Brands = {b1}
  FirstBrand <- MCFirstBrand
  MaxConcurrency = 2  StaleAfter = 1
  MaxClock = 2  MaxWorkers = 2  MaxEdits = 1
CHECK_DEADLOCK FALSE
INVARIANTS TypeOK OneTaskPerItem
PROPERTIES CurationIsCurrent ReviewedOutputStays KeepsListings
