\* A cancellation saves the counter it read before a message was charged.
SPECIFICATION BackendSpec
CONSTANTS
  u1 = u1  s1 = s1  s2 = s2
  r1 = r1  r2 = r2  r3 = r3  j1 = j1  j2 = j2  c1 = c1
  Users = {u1}
  Subs = {s1}
  Requests = {r1, r2}
  Runs = {}
  Cancels = {c1}
  Null = Null
  FreeLimit = 1
  MonthLength = 2
  Horizon = 1
  CycleLength = 1
  MaxFailures = 0
  PoolSize = 2
  SubscriptionRows <- RenewingRows
  NewRows <- NoBodies
SYMMETRY BackendSymmetry
\* With no renewal job running the backend comes to rest.
CHECK_DEADLOCK FALSE
INVARIANT
  SubscriptionNeverOverspent
