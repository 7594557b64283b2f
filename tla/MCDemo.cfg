SPECIFICATION Spec
CONSTANTS
  None = None
  r1 = r1
  r2 = r2
  c1 = c1
  c2 = c2
  b1 = b1
  b2 = b2
  sA = sA
  sB = sB
  x1 = x1
  x2 = x2
  x3 = x3
  RentalIds = {r1, r2}
  Customers = {c1, c2}
  Batteries = {b1, b2}
  Stations = {sA}
  Slots = {x1, x2}
  StationOf <- OneStation
  InitialSlots <- BothTaken
  Pricings <- Flat
  LossGrace = 1
  StationFlags = {"blocked"}
  FailureModes = {"payment", "timeout"}
  Store = "d1"
  Modes = {"mock"}
  WebhookAmounts = {}
  MaxTime = 1
  MaxLag = 0
  MaxSimulated = 1
SYMMETRY Symmetry
CHECK_DEADLOCK FALSE
INVARIANTS
  BatteryWithCustomer
  OneRentalPerCustomer
PROPERTIES
  TerminalIsFinal
