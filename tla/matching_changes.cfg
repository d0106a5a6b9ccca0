CONSTANTS
  e1 = e1
  e2 = e2
  e3 = e3
  w1 = w1
  w2 = w2
  mail = mail
  other = other
  dashed = dashed
  plain = plain
  ann = ann
  anna = anna
  standard = standard
  fuzzy = fuzzy
  Entities = {e1, e2}
  Workers = {w1}
  Bulk = {e1, e2}
  Editable = {e2}
  Reviewed = {e1, e2}
  Patches <- MCPatches
  First <- MCFirst
  Contents <- MCContents
  Key <- MCKey
  Text <- MCText
  Weightings = {standard}
  Standard = standard
  Similarity <- MCSimilarity
  VectorWeight <- MCVectorWeight
  Updates = {}
  ExactFields = {"email", "phone"}
  MaxCandidates = 2
  CandidateIds = {"entity"}
  Faults = {"insert", "enqueue", "task", "cache", "persist", "notify"}
  Absent = Absent
SPECIFICATION Spec
INVARIANTS DecisionRecorded
PROPERTIES CacheSettles TasksEnd
CHECK_DEADLOCK FALSE
