\* One group of two alerts, TTL and repeat_interval of two group_intervals.
SPECIFICATION Spec
CONSTANTS
  a1 = a1
  a2 = a2
  g1 = g1
  Alerts = {a1, a2}
  Groups = {g1}
  Group <- MCGroup
  Ttl = 2
  RepeatInterval = 2
  MaxIncidents = 2
  MaxFailures = 1
  MaxReopens = 1
PROPERTIES
  FiringIsTracked
INVARIANTS
  MissedIsBounded
