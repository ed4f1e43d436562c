CONSTANTS
  Users = {u1, u2}
  Requests = {r1, r2}
  u1 = u1
  u2 = u2
  r1 = r1
  r2 = r2
  IdleTimeout = 1
  MaxTime = 0
  MaxRestarts = 1
SPECIFICATION Spec
PROPERTIES
  NeverUnderRequest
  NoneAdmittedBlocked
SYMMETRY Symmetry
