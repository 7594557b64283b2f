SPECIFICATION Spec
CONSTANTS
  None = None
  r1 = r1
  r2 = r2
  c1 = c1
  c2 = c2
  b1 = b1
  b2 = b2
  sA = sA
  sB = sB
  x1 = x1
  x2 = x2
  x3 = x3
  RentalIds = {r1}
  Customers = {c1, c2}
  Batteries = {b1}
  Stations = {sA, sB}
  Slots = {x1, x2, x3}
  StationOf <- TwoStations
  InitialSlots <- OneBattery
  Pricings <- OldAndNew
  LossGrace = 2
  StationFlags = {"online"}
  FailureModes = {}
  Store = "postgres"
  Modes = {"mock", "stripe"}
  WebhookAmounts = {2, 3}
  MaxTime = 3
  MaxLag = 1
  MaxSimulated = 0
SYMMETRY Symmetry
CHECK_DEADLOCK FALSE
INVARIANTS
  TypeOK
  DepositBeforeBattery
  NothingHeldAtTheEnd
  ForfeitOnlyWhenLate
PROPERTIES
  HistoryWrittenOnce
