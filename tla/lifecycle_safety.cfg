\* Two concurrent requests, both workers, one incident.
SPECIFICATION Spec
CONSTANTS
  i1 = i1
  r1 = r1
  r2 = r2
  p1 = p1
  Incidents = {i1}
  Requests = {r1, r2}
  Policies = {p1}
  NoPolicy = NoPolicy
  Steps <- MCSteps
  Deadline <- MCDeadline
  MaxClock = 5
SYMMETRY RequestSymmetry
INVARIANTS
  TypeOK
  StampsMatchStatus
  EventsMatchRow
PROPERTIES
  WorkerColumnsSurvive
