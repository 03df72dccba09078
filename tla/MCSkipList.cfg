\* Three keys, a value and the deletion marker, which is shorter, two levels, one Clear.
SPECIFICATION SkipSpec
CONSTANTS
  Key = {1, 2, 3}
  Value = {5}
  Tombstone = Tombstone
  EmptyKey = EmptyKey
  MaxLevel = 2
  MaxSeq = 2
  MaxNode = 5
INVARIANTS
  ImplementsMemTable
  SearchIsExact
  CountersMatch
  WalkVisitsAll
