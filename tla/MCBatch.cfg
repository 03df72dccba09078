\* SyncBatch, both kinds of crash, room for two flushes of two keys.
SPECIFICATION Spec
CONSTANTS
  k1 = k1
  k2 = k2
  v1 = v1
  Key = {k1, k2}
  Value = {v1}
  Tombstone = Tombstone
  EmptyKey = EmptyKey
  Batches <- PairBatch
  SyncPolicy = "batch"
  SyncEveryN = 2
  CompactThreshold = 2
  Crashes = {"process", "power"}
  Faults = {}
  MaxFaults = 0
  MaxSeq = 3
  MaxFile = 2
VIEW LiveView
INVARIANTS
  SeqIdentifiesWrite
  UnsyncedIsBounded
PROPERTIES
  ImplementsKVStore
  FlushEmptiesMemtable
CHECK_DEADLOCK FALSE
