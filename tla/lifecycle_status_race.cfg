\* Two status requests for the same incident at once.
SPECIFICATION Spec
CONSTANTS
  i1 = i1
  r1 = r1
  r2 = r2
  p1 = p1
  Incidents = {i1}
  Requests = {r1, r2}
  Policies = {p1}
  NoPolicy = NoPolicy
  Steps <- MCSteps
  Deadline <- MCDeadline
  MaxClock = 4
PROPERTIES
  ImplementsStateMachine
