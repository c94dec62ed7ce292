SPECIFICATION Spec
CONSTANTS
  Workers = {w1, w2}
  Limit = 2
  Window = 2
  RedisFails = TRUE
  MaxDelay = 1
  MaxTime = 6
  MaxAdmitted = 5
CHECK_DEADLOCK FALSE
INVARIANTS TypeOK WindowLimit
PROPERTY RejectionJustified
