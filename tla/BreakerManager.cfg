SPECIFICATION ManagerSpec
CONSTANTS
  Callers = {c1, c2, c3}
  Threshold = 2
  Cooldown = 2
  MaxTime = 5
  MaxFailures = 4
SYMMETRY CallerSymmetry
CHECK_DEADLOCK TRUE
INVARIANTS TypeOK ClosedBelowThreshold HalfOpenAfterCooldown
PROPERTIES CooldownRespected ProbeFailureReopens ContractSpec SharesOneBreaker
