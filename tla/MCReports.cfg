\* Three requests of one user, in one month, on two connections, and one
\* usage summary.
SPECIFICATION FairReportSpec
CONSTANTS
  u1 = u1
  s1 = s1  s2 = s2
  r1 = r1  r2 = r2  r3 = r3
  Users = {u1}
  Subs = {s1, s2}
  Requests = {r1, r2, r3}
  Null = Null
  FreeLimit = 1
  MonthLength = 1
  Horizon = 0
  PoolSize = 2
  SubscriptionRows <- LastingRows
INVARIANTS
  IInv
  SummaryCoversTotal
  BlockedByAnother
PROPERTIES
  EveryRequestEnds
  RefusedOnlyWhenExhausted
