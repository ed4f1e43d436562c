CONSTANTS
  t1 = t1
  u1 = u1
  u2 = u2
  Tests = {t1}
  Users = {u1}
  TestOf <- OneTest
  BatchSize = 1
  MaxCleanups = 2
  MaxCrashes = 1
  MaxDockerFaults = 1
SPECIFICATION FairSpec
INVARIANTS
  TypeOK
  CleanedGone
  EndedSettled
PROPERTIES
  TestEnds
  CleanupEnds
CHECK_DEADLOCK FALSE
