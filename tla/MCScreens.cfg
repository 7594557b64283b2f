SPECIFICATION FairSpec
CONSTANTS
  None = None
  s1 = s1
  m1 = m1
  m2 = m2
  Stations = {s1}
  Venues = {v1, v2}
  Runtimes = {r1, r2}
  Followed = {r1}
  TokenIds = {t1, t2}
  v1 = v1
  v2 = v2
  a1 = a1
  a2 = a2
  r1 = r1
  r2 = r2
  n1 = n1
  n2 = n2
  Names = {n1, n2}
  Addresses = {a1, a2}
  AddressAtFirst <- OneEach
  NameAtFirst <- Named
  Entries <- Renamed
  Texts = {x1}
  Media = {m1, m2}
  OnAirAtFirst = {m1}
  VenueAtFirst <- First
  TargetsOf <- ForAll
  WindowOf <- Closing
  MaxTime = 4
  MaxVersion <- Rotations
  MaxFlight = 2
CHECK_DEADLOCK FALSE
INVARIANTS
  OneRuntimePerStation
  VersionCoversWrites
PROPERTIES
  OnlyLateLocations
  ScreenNeverGoesBack
  ScreenCatchesUp
