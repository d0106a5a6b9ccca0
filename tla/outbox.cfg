CONSTANTS
  t1 = t1
  e1 = e1
  e2 = e2
  None = None
  Txns = {t1}
  Events = {e1, e2}
  EventsOf <- TwoEvents
  ReplayRows = {n1}
  Workers = {w1, w2}
  MaxRetries = 2
  BatchLimit = 1
  Faults = {"crash", "db", "timeout", "kafka"}
  MaxFaults = 1
SPECIFICATION FairSpec
INVARIANTS NoEventLost ParkedAfterMaxRetries
PROPERTIES SettledForGood ImplementsEventDelivery RowsEventuallySettled
CHECK_DEADLOCK FALSE
