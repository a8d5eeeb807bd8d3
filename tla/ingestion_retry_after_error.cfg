\* A request that fails after its Redis key was set is sent again.
SPECIFICATION Spec
CONSTANTS
  r1 = r1
  r2 = r2
  w1 = w1
  w2 = w2
  c1 = c1
  svc = svc
  other = other
  Services = {svc, other}
  Requests <- OneRequest
  Payloads <- MCPayloads
  Batches <- SingleAlerts
  MaxBatch = 1
  LikeMatches <- ExactLike
  Windows = {}
  Configs = {}
  WindowService <- MCWindowService
  MaxExpiries = 0
CHECK_DEADLOCK FALSE
INVARIANTS
  AnsweredAlertsAreStored
