\* Two concurrent requests, no windows, no expiry; it stops when all are answered.
SPECIFICATION Spec
CONSTANTS
  r1 = r1
  r2 = r2
  w1 = w1
  w2 = w2
  c1 = c1
  svc = svc
  other = other
  Services = {svc, other}
  Requests <- TwoRequests
  Payloads <- MCPayloads
  Batches <- SingleAlerts
  MaxBatch = 1
  LikeMatches <- ExactLike
  Windows = {}
  Configs = {}
  WindowService <- MCWindowService
  MaxExpiries = 0
CHECK_DEADLOCK FALSE
INVARIANTS
  OneOpenIncidentPerService
