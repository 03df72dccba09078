\* Any call may fail, and a batch has a key of length 0.
SPECIFICATION Spec
CONSTANTS
  k1 = k1
  k2 = k2
  v1 = v1
  Key = {k1, EmptyKey}
  Value = {v1}
  Tombstone = Tombstone
  EmptyKey = EmptyKey
  Batches <- EmptyKeyBatch
  SyncPolicy = "full"
  SyncEveryN = 2
  CompactThreshold = 2
  Crashes = {"process", "power"}
  Faults = {"readLog", "seekLog", "append", "refuse", "sync", "alloc", "create", "write", "addFile",
            "openSst", "truncate", "resetSync", "merge", "readInput", "openOut", "replace"}
  MaxFaults = 2
  MaxSeq = 3
  MaxFile = 3
VIEW LiveView
INVARIANTS
  TypeOK
  OutputNameIsFresh
  SeqIdentifiesWrite
CHECK_DEADLOCK FALSE
