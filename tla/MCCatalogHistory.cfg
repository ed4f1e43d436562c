CONSTANTS
  m1 = m1
  a1 = a1
  s1 = s1
  c1 = c1
  x1 = x1
  Models = {m1}
  Agents = {a1}
  Resources = {s1}
  Contents = {c1}
  Releases = {x1}
  MaxVersions = 1
  MaxGateways = 2
  MaxEdits = 5
SPECIFICATION MCSpecDraft
INVARIANTS
  BindingsKept
CHECK_DEADLOCK FALSE
