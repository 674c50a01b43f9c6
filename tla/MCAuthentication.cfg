\* Two requests of one identity, which may log in again with another role.
SPECIFICATION AuthSpec
CONSTANTS
  i1 = i1  r1 = r1  r2 = r2
  Identities = {i1}
  Requests = {r1, r2}
  Sender <- OneSender
  TokenTtl = 1
  ClockTolerance = 1
  SignatureWindow = 2
  MaxSkew = 1
  MaxLag = 1
  Horizon = 7
SYMMETRY RequestSymmetry
INVARIANT
  OneRolePerIdentity
PROPERTIES
  HonestRequestsPass
  StaleRequestsFail
