\* A page and other clients, one request at a time; both jobs.
SPECIFICATION FairPageSpec
CONSTANTS
  i1 = i1
  r1 = r1
  p1 = p1
  w1 = w1
  Incidents = {i1}
  Requests = {r1}
  Policies = {p1}
  NoPolicy = NoPolicy
  Steps <- MCSteps
  Deadline <- MCDeadline
  MaxClock = 6
  Pages = {w1}
  Shows <- MCShows
INVARIANTS
  AuditReplaysStatus
  RefusalNeedsChange
PROPERTIES
  ImplementsStateMachine
  OverdueIsMarked
