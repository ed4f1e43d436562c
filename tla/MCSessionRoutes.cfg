CONSTANTS
  o1 = o1
  o2 = o2
  s1 = s1
  s2 = s2
  r1 = r1
  r2 = r2
  None = None
  Owners = {o1, o2}
  Sessions = {s1, s2}
  Requests = {r1, r2}
  BatchSize = 2
SPECIFICATION Spec
INVARIANTS
  TypeOK
  Isolation
PROPERTIES
  RecordsAnswered
