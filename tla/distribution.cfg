CONSTANTS
  j1 = j1
  j2 = j2
  None = None
  Jobs = {j1, j2}
  Workers = {w1, w2}
  AnswersOf <- OneUnsliceable
  MaxAttempts = 3
  BatchLimit = 2
  Faults = {"crash", "db"}
  MaxFaults = 2
SPECIFICATION FairSpec
INVARIANTS NoJobStranded SendsBounded
PROPERTIES SettledForGood JobsEventuallySettled
CHECK_DEADLOCK FALSE
