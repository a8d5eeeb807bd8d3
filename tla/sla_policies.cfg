\* Four requests of any kind and both SLA jobs over three minutes.
SPECIFICATION Spec
CONSTANTS
  Requests = {r1, r2, r3, r4}
  Spellings = {"p1", "P1", "P2"}
  Upper <- MCUpper
  Minutes = {0, 2}
  WARNING = 1
  MaxClock = 3
  NULL = NULL
SYMMETRY Symmetry
CHECK_DEADLOCK FALSE
INVARIANTS
  TypeOK
  DuplicatesOverlapped
  DeadlineByStandingPolicy
  NoDanglingPolicy
PROPERTIES
  StaleWarningNeedsChange
