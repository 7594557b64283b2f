SPECIFICATION CoordinatorSpec
CONSTANTS
  None = None
  r1 = r1
  r2 = r2
  c1 = c1
  c2 = c2
  b1 = b1
  b2 = b2
  sA = sA
  x1 = x1
  x2 = x2
  p1 = p1
  p2 = p2
  RentalIds = {r1}
  Customers = {c1}
  Batteries = {b1, b2}
  Stations = {sA}
  Slots = {x1, x2}
  StationOf <- OneStation
  InitialSlots <- BothTaken
  Pricings <- Flat
  LossGrace = 1
  StationFlags = {}
  FailureModes = {}
  Store = "postgres"
  Modes = {"stripe"}
  WebhookAmounts = {0, 1, 2}
  MaxTime = 2
  MaxLag = 0
  MaxSimulated = 0
  Requests = {p1, p2}
  Ejector = TRUE
  Lossy = TRUE
  Crashes = 1
  BankCancels = TRUE
  RefundAmounts = {1}
SYMMETRY Symmetry
CHECK_DEADLOCK FALSE
INVARIANTS
  CoordinatorTypeOK
  CapturesTrue
  OneBatteryPerRental
  
