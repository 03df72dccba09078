\* Any lock file may reach StaleAge, its owner dead or alive.
SPECIFICATION FairLockSpec
CONSTANTS
  Proc = {p1, p2, p3}
  NoLock = NoLock
  MaxDeaths = 3
  Ages = "any"
INVARIANTS
  ExclusiveUnlessStolen
PROPERTIES
  DeadLockIsRemoved
