CONSTANTS
  e1 = e1
  e2 = e2
  e3 = e3
  w1 = w1
  w2 = w2
  mail = mail
  other = other
  dashed = dashed
  plain = plain
  ann = ann
  anna = anna
  standard = standard
  fuzzy = fuzzy
  Entities = {e1, e2, e3}
  Workers = {w1, w2}
  Bulk = {e1, e2}
  Editable = {}
  Reviewed = {}
  Patches <- MCPatches
  First <- MCFirst
  Contents <- MCContents
  Key <- MCKey
  Text <- MCText
  Weightings = {standard, fuzzy}
  Standard = standard
  Similarity <- MCSimilarity
  VectorWeight <- MCVectorWeight
  Updates <- MCUpdates
  ExactFields = {"email", "phone"}
  MaxCandidates = 2
  CandidateIds = {"entity"}
  Faults = {}
  Absent = Absent
SPECIFICATION Spec
SYMMETRY MCSymmetry
CONSTRAINT UnreadCopiesWait
INVARIANTS TypeOK DuplicatesFound QueueHoldsUnresolved HubIsMaster
CHECK_DEADLOCK FALSE
