SPECIFICATION Spec
CONSTANTS
  None = None
  here = here
  there = there
  Here = here
  Stations <- BothStations
  MaxRentals = 2
  MaxKeys = 2
  MaxFaults = 2
CHECK_DEADLOCK FALSE
INVARIANTS
  SeenBeforeNext
