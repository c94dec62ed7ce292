SPECIFICATION Spec
CONSTANTS
  Savers = {s1, s2}
  Key = {k1, k2}
  TTL = 2
  MaxDelay = 1
  MaxTime = 6
  MaxSaves = 2
SYMMETRY Interchangeable
CHECK_DEADLOCK TRUE
INVARIANTS TypeOK AgeBound
PROPERTY RecoveryIsExact
