CONSTANTS
  Users = {u1}
  Requests = {r1, r2}
  u1 = u1
  r1 = r1
  r2 = r2
  IdleTimeout = 1
  MaxTime = 1
  MaxRestarts = 0
SPECIFICATION FairSpec
INVARIANTS
  TypeOK
  CountersExact
PROPERTIES
  EveryoneSettles
  NeverUnderRequest
