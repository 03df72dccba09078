\* SyncFull, losses of power, and calls fail whose errors the code recovers from.
SPECIFICATION Spec
CONSTANTS
  k1 = k1
  k2 = k2
  v1 = v1
  Key = {k1}
  Value = {v1}
  Tombstone = Tombstone
  EmptyKey = EmptyKey
  Batches <- SameKeyBatch
  SyncPolicy = "full"
  SyncEveryN = 2
  CompactThreshold = 2
  Crashes = {"power"}
  Faults = {"seekLog", "refuse", "alloc", "create", "write", "openSst", "truncate", "resetSync",
            "merge"}
  MaxFaults = 2
  MaxSeq = 3
  MaxFile = 3
VIEW LiveView
INVARIANTS
  SyncedFramesAreReplayed
  ManifestNamesWholeTables
  IteratorShowsStore
  GetMatchesIterator
PROPERTIES
  ImplementsKVStore
CHECK_DEADLOCK FALSE
