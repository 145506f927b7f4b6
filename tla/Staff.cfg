SPECIFICATION Spec
CONSTANTS
  Accounts = {u1}
  Contests = {c1}
  c1 = c1
  SessionIds = {s1}
  TokenIds = {t1, t2, t3}
  Requests = {r1, r2}
  None = None
  Global = Global
  MaxFailed = 1
  Mega = {mega}
  Supers = {a1}
  Grantable <- SomeRoles
  Permissions = {scan}
  MaxChanges = 2
SYMMETRY Interchangeable
INVARIANTS OneLiveToken RefreshedRoleCurrent RealmsApart
PROPERTIES OverStaysOver
CHECK_DEADLOCK FALSE
