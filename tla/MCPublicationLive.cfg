CONSTANTS
  Jobs = {j1, j2}
  Workers = {w1, w2}
  Agents = {a1}
  Contents = {c1}
  Clients = {u1}
  j1 = j1
  j2 = j2
  w1 = w1
  w2 = w2
  a1 = a1
  c1 = c1
  u1 = u1
  Kinds = {"agent.apply"}
  MaxRetries = 0
  MaxRestarts = 0
  MaxTests = 0
  MaxFaults = 1
  MaxReconciles = 1
SPECIFICATION PubFairSpec
PROPERTIES
  BlockOwned
CHECK_DEADLOCK FALSE
