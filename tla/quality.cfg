CONSTANTS
  e1 = e1
  e2 = e2
  q1 = q1
  q2 = q2
  q3 = q3
  Rules = {r1}
  Definitions <- MCDefinitions
  Entities = {e1, e2}
  TypeOf <- MCTypeOf
  Requests = {q1, q2, q3}
  Bulk = {q1, q2}
  Chunk <- MCChunk
  Fits = {}
  Stewards = {s1, s2}
  Erasable = {e2}
  MaxFaults = 1
  None = None
  Deleted = Deleted
SPECIFICATION Spec
INVARIANTS TypeOK GateHolds SnapshotExplains NoViolationLost
CHECK_DEADLOCK FALSE
