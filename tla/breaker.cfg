CONSTANTS
  Requests = {r1, r2, r3}
  Outcomes = {"success", "failure", "unrecorded"}
  Threshold = 3
  OpenDuration = 2
  MaxTries = 2
SPECIFICATION FairBreakerSpec
INVARIANTS AtomicsAgree
PROPERTIES OpenEnds
CHECK_DEADLOCK FALSE
