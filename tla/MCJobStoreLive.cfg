CONSTANTS
  Jobs = {j1, j2}
  Workers = {w1, w2, w3}
  Agents = {a1}
  j1 = j1
  j2 = j2
  w1 = w1
  w2 = w2
  w3 = w3
  a1 = a1
  Kinds = {"agent.apply", "agent.delete"}
  MaxRetries = 1
  MaxRestarts = 1
  MaxTests = 0
SPECIFICATION FairSpec
PROPERTIES
  JobSettles
CHECK_DEADLOCK FALSE
