\* Four requests of two users, of whom one has bundles, around the end of a
\* month: requests of both months contend for the same bundles.
SPECIFICATION Spec
CONSTANTS
  u1 = u1  u2 = u2
  s1 = s1  s2 = s2
  r1 = r1  r2 = r2  r3 = r3  r4 = r4
  Users = {u1, u2}
  Subs = {s1, s2}
  Requests = {r1, r2, r3, r4}
  Null = Null
  FreeLimit = 1
  MonthLength = 1
  Horizon = 1
  PoolSize = 2
  SubscriptionRows <- MonthEndRows
SYMMETRY AskSymmetry
INVARIANTS
  FreeQuotaNeverOverspent
  SubscriptionNeverOverspent
  ChargedIffStored
  ChargedToTheAsker
  NoOrphanLock
  NoDeadlock
PROPERTIES
  ImplementsQuotaLedger
  NearerTheEnd
