\* Two threads and the jitter task on two services, with the task's fairness.
SPECIFICATION FairSpec
CONSTANTS
  payment = payment
  auth = auth
  SERVICES <- TwoServices
  Watched = {"error"}
  Threads = {t1, t2}
  Asked = {"service_down", "unknown"}
  Durations = {1}
  Shortest = 1
  MaxClock = 1
INVARIANTS
  TypeOK
  FaultsHaveAnEnd
  ActiveScenarioShows
PROPERTIES
  NoEarlyEnd
  EndedIsCleared
