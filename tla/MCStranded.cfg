\* One item whose page is extracted without a profile; no request, no crash.
SPECIFICATION Spec
CONSTANTS
  b1 = b1  b2 = b2  None = None
  Items = {1}
  StaticItems = {1}
  Brands = {b1, b2}
  FirstBrand <- MCFirstBrand
  MaxConcurrency = 1  StaleAfter = 1
  MaxClock = 0  MaxWorkers = 1  MaxEdits = 0
CHECK_DEADLOCK FALSE
INVARIANTS NoneStranded
