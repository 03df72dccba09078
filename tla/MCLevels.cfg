\* No crash: repeated compactions over both levels, flushes and compactions that fail at their end.
SPECIFICATION Spec
CONSTANTS
  k1 = k1
  k2 = k2
  v1 = v1
  Key = {k1, k2}
  Value = {v1}
  Tombstone = Tombstone
  EmptyKey = EmptyKey
  Batches <- PairBatch
  SyncPolicy = "full"
  SyncEveryN = 2
  CompactThreshold = 2
  Crashes = {}
  Faults = {"addFile", "openSst", "truncate", "resetSync", "openOut", "replace"}
  MaxFaults = 1
  MaxSeq = 4
  MaxFile = 5
VIEW LiveView
INVARIANTS
  GetShowsStore
  GetMatchesIterator
PROPERTIES
  MaintenanceKeepsStore
CHECK_DEADLOCK FALSE
