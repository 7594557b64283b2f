SPECIFICATION FairSpec
CONSTANTS
  None = None
  s1 = s1
  s2 = s2
  c1 = c1
  c2 = c2
  b1 = b1
  b2 = b2
  Stations = {s1, s2}
  Cabinets = {c1, c2}
  Batteries = {b1}
  RentalIds = {r1}
  SlotsOf <- TwoAndOne
  SlotsAtFirst <- SomeSlots
  LinkedAtFirst <- FirstOnly
  BatteriesIn <- OneInside
  Requests = {p1, p2}
  Steady = {p1}
  Faults = 1
  Prompt = TRUE
CHECK_DEADLOCK FALSE
INVARIANTS
  ValidInventory
PROPERTIES
  ReturnIsReal
  ReturnNoticed
  InventoryConverges
