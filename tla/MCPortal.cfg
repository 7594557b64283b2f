SPECIFICATION FairSpec
CONSTANTS
  None = None
  boss = boss
  host = host
  p1 = p1
  p2 = p2
  v1 = v1
  v2 = v2
  s1 = s1
  r1 = r1
  a1 = a1
  Tabs = {boss, host}
  RoleOf <- TwoRoles
  PartnerOf <- TwoPartners
  Partners = {p1, p2}
  Venues = {v1, v2, v3}
  Stations = {s1, s2}
  Rentals = {r1}
  Tickets = {t1}
  Addresses = {a1, a2}
  Rates = {0, 1}
  MaxWrites = 2
  Programs = {host}
  Databases <- Seeds
CHECK_DEADLOCK FALSE
INVARIANTS
  PortalConsistent
PROPERTIES
  TenantConfined
  OwedFollowsReturns
  PageCatchesUp
