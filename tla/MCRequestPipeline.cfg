\* Three requests from two addresses for two identities with one email.
SPECIFICATION FairPipelineSpec
CONSTANTS
  i1 = i1  i2 = i2  a1 = a1  a2 = a2  e1 = e1  r1 = r1  r2 = r2  r3 = r3
  Keys = {i1, i2}
  Max = 2
  Window = 1
  Horizon = 2
  Requests = {r1, r2, r3}
  Ips = {a1, a2}
  IpMax = 1
  IpWindow = 1
  Emails = {e1}
  EmailOf <- SharedEmail
  Workloads <- MixedWorkloads
INVARIANTS
  PipelineInv
  RefusedOnlyWhenSpent
  CountsOncePerRequest
  HandledAsOneUser
  ConflictHasAWinner
PROPERTIES
  EveryArrivalAnswered
