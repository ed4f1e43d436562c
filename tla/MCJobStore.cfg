CONSTANTS
  Jobs = {j1, j2}
  Workers = {w1, w2, w3}
  Agents = {a1, a2}
  j1 = j1
  j2 = j2
  w1 = w1
  w2 = w2
  w3 = w3
  a1 = a1
  a2 = a2
  Kinds = {"agent.apply", "models.apply", "sandbox.action", "agent.archive", "agent.restore", "agent.delete", "agent.delete-empty"}
  MaxRetries = 1
  MaxRestarts = 2
  MaxTests = 1
SPECIFICATION Spec
INVARIANTS
  TypeOK
  ExecutingExclusive
  LoadTestExclusive
  UncertainHeld
  CancelHonoured
PROPERTIES
  NoResurrection
SYMMETRY Symmetry
CHECK_DEADLOCK FALSE
