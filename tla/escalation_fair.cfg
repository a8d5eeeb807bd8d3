\* Two incidents under one policy to which a step is added that sorts before
\* the first, with the scheduler's fairness.
SPECIFICATION FairSpec
CONSTANTS
  i1 = i1
  i2 = i2
  p1 = p1
  p2 = p2
  s1 = s1
  s2 = s2
  t1 = t1
  u1 = u1
  Incidents <- TwoIncidents
  Policies <- OnePolicy
  NoPolicy = NoPolicy
  Steps <- StepsBackwards
  PolicyOf <- MCPolicyOf
  Order <- MCOrder
  Delay <- MCDelay
  InitialSteps <- BackwardsInitialSteps
  MaxClock = 1
  MaxFailures = 1
PROPERTIES
  StaleNeedsChange
  ImplementsContract
  DueStepIsTaken
