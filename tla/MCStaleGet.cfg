\* SyncBatch, a loss of power between AddFile and Reset.
SPECIFICATION Spec
CONSTANTS
  k1 = k1
  k2 = k2
  v1 = v1
  Key = {k1}
  Value = {v1}
  Tombstone = Tombstone
  EmptyKey = EmptyKey
  Batches <- NoBatch
  SyncPolicy = "batch"
  SyncEveryN = 2
  CompactThreshold = 2
  Crashes = {"power"}
  Faults = {}
  MaxFaults = 0
  MaxSeq = 3
  MaxFile = 3
VIEW LiveView
INVARIANTS
  GetMatchesIterator
CHECK_DEADLOCK FALSE
