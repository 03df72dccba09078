\* The test of the package: Seek of a key that is in the list.
SPECIFICATION ScanSpec
CONSTANTS
  MaxKey = 4
  MaxLen = 4
INVARIANTS
  SeekFindsTarget
