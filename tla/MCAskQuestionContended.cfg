\* Requests of two months contend for the first of two equal bundles.
SPECIFICATION Spec
CONSTANTS
  u1 = u1  u2 = u2
  s1 = s1  s2 = s2
  r1 = r1  r2 = r2  r3 = r3  r4 = r4
  Users = {u1}
  Subs = {s1, s2}
  Requests = {r1, r2, r3, r4}
  Null = Null
  FreeLimit = 1
  MonthLength = 1
  Horizon = 1
  PoolSize = 2
  SubscriptionRows <- EqualRows
SYMMETRY AskSymmetry
PROPERTY
  RefusedOnlyWhenExhausted
