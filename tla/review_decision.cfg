CONSTANTS
  e1 = e1
  e2 = e2
  e3 = e3
  w1 = w1
  w2 = w2
  mail = mail
  other = other
  dashed = dashed
  plain = plain
  ann = ann
  anna = anna
  standard = standard
  fuzzy = fuzzy
  Entities = {e1, e2}
  Workers = {w1}
  Bulk = {e1, e2}
  Editable = {}
  Reviewed = {e1}
  Patches <- MCPatches
  First <- MCFirst
  Contents <- MCContents
  Key <- MCKey
  Text <- MCText
  Weightings = {standard}
  Standard = standard
  Similarity <- MCSimilarity
  VectorWeight <- MCVectorWeight
  Updates = {}
  ExactFields = {"email", "phone"}
  MaxCandidates = 2
  CandidateIds = {"entity", "row"}
  Faults = {}
  Absent = Absent
SPECIFICATION Spec
INVARIANTS DecisionRecorded
CHECK_DEADLOCK FALSE
