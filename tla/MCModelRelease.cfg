CONSTANTS
  r1 = r1
  r2 = r2
  r3 = r3
  Releases = {r1, r2, r3}
  None = None
  MaxCrashes = 3
SPECIFICATION Spec
INVARIANTS
  TypeOK
  Agreement
  ReturnKept
PROPERTIES
  Atomic
CHECK_DEADLOCK FALSE
