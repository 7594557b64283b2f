SPECIFICATION Spec
CONSTANTS
  None = None
  owner = owner
  demo = demo
  partner = partner
  member = member
  q1 = q1
  q2 = q2
  Users = {owner, demo, member}
  RoleOf <- TheRoles
  PartnerOf <- ThePartners
  DemoUsers = {demo}
  DemoPartners = {partner}
  WithPhone = {owner}
  Steps = {1, 2}
  Requests = {q1, q2}
  SessionLife = 1
  MaxTime = 2
  MaxVersion = 1
  Tokens = {t1, t2}
  Secrets = {k1}
  t1 = t1
  t2 = t2
  t3 = t3
  k1 = k1
SYMMETRY Symmetry
CHECK_DEADLOCK FALSE
INVARIANTS
  AccountsConsistent
  SomeoneOwns
  SessionIsCurrent
PROPERTIES
  CodeOpensOneSession
