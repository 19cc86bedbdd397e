SPECIFICATION MCSpec
CONSTANTS
  s1 = s1
  s2 = s2
  root = root
  admin = admin
  student = student
  month = month
  forever = forever
  Null = Null
  Schools = {s1, s2}
  Seeded = {s1}
  Licensed = {s1}
  Npsn = {n1, n2}
  Keys = {k1, k2}
  Types = {month, forever}
  Permanent = {forever}
  Duration <- MCDuration
  Validity = {1}
  DefaultDays = 1
  CancelDays = 0
  Renewals = {r1}
  Clerks = {c1, c2}
  Horizon = 1
  Accounts = {root, admin, student}
  Role <- MCRole
  SchoolOf <- MCSchoolOf
  Sessions = {i1, i2, i3}
  Clients = {p1, p2}
  Threshold = 2
  Ready = {root, admin}
  MaxGen = 1
  MaxPassword = 1
INVARIANTS
  TypeOK
  OneSession
  KeysSpentOnce
PROPERTIES
  SuspensionHolds
  LockoutStays
CHECK_DEADLOCK FALSE
SYMMETRY Symmetry
