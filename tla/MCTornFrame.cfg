\* A failed append leaves a torn frame in the middle of the log.
SPECIFICATION Spec
CONSTANTS
  k1 = k1
  k2 = k2
  v1 = v1
  Key = {k1}
  Value = {v1}
  Tombstone = Tombstone
  EmptyKey = EmptyKey
  Batches <- NoBatch
  SyncPolicy = "full"
  SyncEveryN = 2
  CompactThreshold = 2
  Crashes = {}
  Faults = {"append"}
  MaxFaults = 1
  MaxSeq = 3
  MaxFile = 3
VIEW LiveView
INVARIANTS
  SyncedFramesAreReplayed
CHECK_DEADLOCK FALSE
