CONSTANTS
  licence = licence
  records = records
  s1 = s1
  here = here
  c1 = c1
  c2 = c2
  Types = {licence, records}
  Checkers = {c1, c2}
  Replicas = {r1, r2}
  Subscriptions = {s1}
  Url <- MCUrl
  EventTypes <- MCEventTypes
  BatchLimit = 2
  Debounce = 2
  Window = 1
  Retention = 1
  MaxWarnings = 4
  MaxTime = 4
  MaxFaults = 1
  None = None
SPECIFICATION Spec
CONSTRAINT Bounds
INVARIANTS TypeOK WarningsBounded SentOnce
PROPERTIES WarningsAttempted
CHECK_DEADLOCK FALSE
