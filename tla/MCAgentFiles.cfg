CONSTANTS
  u1 = u1
  n1 = n1
  n2 = n2
  r1 = r1
  r2 = r2
  Users = {u1}
  Names = {n1, n2}
  Requests = {r1, r2}
  Quota = 2
  MaxSize = 2
  MaxExecutions = 2
  MaxWrites = 1
  MaxCrashes = 1
SPECIFICATION FairSpec
INVARIANTS
  TypeOK
  RemovesPreviewed
  CleanedEmpty
  QuotaKept
PROPERTIES
  GuardFreed
CHECK_DEADLOCK FALSE
