\* Two renewing bundles come due while their user asks; one run may die
\* half-way and drop the rest of its list.
SPECIFICATION FairBackendSpec
CONSTANTS
  u1 = u1  s1 = s1  s2 = s2
  r1 = r1  r2 = r2  r3 = r3  j1 = j1  j2 = j2  c1 = c1
  Users = {u1}
  Subs = {s1, s2}
  Requests = {r1, r2}
  Runs = {j1}
  Cancels = {}
  Null = Null
  FreeLimit = 1
  MonthLength = 2
  Horizon = 1
  CycleLength = 1
  MaxFailures = 1
  PoolSize = 2
  SubscriptionRows <- DueRows
  NewRows <- NoBodies
INVARIANTS
  ChargesMatchPeriods
PROPERTIES
  ImplementsSubscriptionLife
  DueIsSettled
  EveryRequestEnds
