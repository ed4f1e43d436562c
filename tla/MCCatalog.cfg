CONSTANTS
  m1 = m1
  a1 = a1
  a2 = a2
  s1 = s1
  s2 = s2
  c1 = c1
  x1 = x1
  x2 = x2
  Models = {m1}
  Agents = {a1, a2}
  Resources = {s1, s2}
  Contents = {c1}
  Releases = {x1, x2}
  MaxVersions = 2
  MaxGateways = 3
  MaxEdits = 4
SPECIFICATION MCSpec
INVARIANTS
  TypeOK
  ReferencesWhole
  GatewayServes
PROPERTIES
  FormsUndisturbed
SYMMETRY Symmetry
CHECK_DEADLOCK FALSE
