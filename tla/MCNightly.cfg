SPECIFICATION NightSpec
CONSTANTS
  None = None
  Clients = {c1, c2}
  Rentals = {r1}
  Reachable = {r1}
  Events = {evt, push}
  Bajie = {push}
  Lead = 1
  Grace = 2
  Retention = 1
  MaxTime = 2
  MaxRuns = 3
  MaxFaults = 1
  Attempts = 2
  Ops <- Operations
  Databases <- Nights
  Accepts <- Accepted
  Mutate <- Mutated
SYMMETRY Same
CHECK_DEADLOCK FALSE
INVARIANTS
  LossAfterWarning
  AcknowledgedIsApplied
PROPERTIES
  StoreIsAtomic
