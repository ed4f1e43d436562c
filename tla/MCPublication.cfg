CONSTANTS
  Jobs = {j1, j2}
  Workers = {w1, w2}
  Agents = {a1}
  Contents = {c1, c2}
  Clients = {u1}
  j1 = j1
  j2 = j2
  w1 = w1
  w2 = w2
  a1 = a1
  c1 = c1
  c2 = c2
  u1 = u1
  Kinds = {"agent.apply"}
  MaxRetries = 0
  MaxRestarts = 1
  MaxTests = 0
  MaxFaults = 2
  MaxReconciles = 1
SPECIFICATION PubSpec
INVARIANTS
  PubTypeOK
  ServedCommitted
  StagedBehindBlock
  StagedUnderNobody
  SucceededCommitted
SYMMETRY Symmetry
CHECK_DEADLOCK FALSE
