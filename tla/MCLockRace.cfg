\* Two processes find the same stale lock.
SPECIFICATION LockSpec
CONSTANTS
  Proc = {p1, p2}
  NoLock = NoLock
  MaxDeaths = 1
  Ages = "dead"
INVARIANTS
  MutualExclusion
