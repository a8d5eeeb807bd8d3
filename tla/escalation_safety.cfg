\* One incident, two policies, steps added in and out of order, two failures.
SPECIFICATION Spec
CONSTANTS
  i1 = i1
  i2 = i2
  p1 = p1
  p2 = p2
  s1 = s1
  s2 = s2
  t1 = t1
  u1 = u1
  Incidents <- OneIncident
  Policies <- TwoPolicies
  NoPolicy = NoPolicy
  Steps <- AllSteps
  PolicyOf <- MCPolicyOf
  Order <- MCOrder
  Delay <- MCDelay
  InitialSteps <- MCInitialSteps
  MaxClock = 1
  MaxFailures = 2
INVARIANTS
  TypeOK
  RecordedWasAnnounced
  RepeatsNeedFailure
  AuditFollowsPolicy
