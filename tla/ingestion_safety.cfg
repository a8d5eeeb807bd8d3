\* Two requests with one or two alerts each, two windows, a key that expires.
\* The instance has finitely many requests: it stops when all are answered.
SPECIFICATION Spec
CONSTANTS
  r1 = r1
  r2 = r2
  w1 = w1
  w2 = w2
  c1 = c1
  svc = svc
  other = other
  Services = {svc, other}
  Requests <- TwoRequests
  Payloads <- MCPayloads
  Batches <- MixedBatches
  MaxBatch = 2
  LikeMatches <- WildcardLike
  Windows <- TwoWindows
  Configs = {c1}
  WindowService <- MCWindowService
  MaxExpiries = 1
SYMMETRY MCSymmetry
CHECK_DEADLOCK FALSE
INVARIANTS
  TypeOK
  OneAlertPerWindow
  NoDanglingLink
  AuditTrailComplete
  AnnouncedBeforeVisible
  DuplicatesNeedOverlap
