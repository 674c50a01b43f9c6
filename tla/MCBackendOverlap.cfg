\* Two runs overlap: both find the same bundle due.
SPECIFICATION BackendSpec
CONSTANTS
  u1 = u1  s1 = s1  s2 = s2
  r1 = r1  r2 = r2  r3 = r3  j1 = j1  j2 = j2  c1 = c1
  Users = {u1}
  Subs = {s1}
  Requests = {r1, r2}
  Runs = {j1, j2}
  Cancels = {}
  Null = Null
  FreeLimit = 1
  MonthLength = 2
  Horizon = 1
  CycleLength = 1
  MaxFailures = 0
  PoolSize = 2
  SubscriptionRows <- RenewingRows
  NewRows <- NoBodies
SYMMETRY BackendSymmetry
INVARIANT
  PeriodPaidOnce
