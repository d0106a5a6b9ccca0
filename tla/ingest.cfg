CONSTANTS
  j1 = j1
  j2 = j2
  Jobs = {j1, j2}
  Workers = {w1, w2}
  Files <- TwoFiles
  HasQueue = TRUE
  Faults = {"crash", "enqueue", "pop", "refused", "answer", "body", "sql"}
SPECIFICATION FairSpec
INVARIANTS NoChunkCountedTwice FinalMeansAllCounted CompletedMeansProcessed ProcessedWasStored
PROPERTIES FinalIsFinal JobsEnd
CHECK_DEADLOCK FALSE
