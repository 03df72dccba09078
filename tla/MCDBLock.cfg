\* Goroutines that close an iterator before they call the DB again.
SPECIFICATION DBSpec
CONSTANTS
  Goroutine = {g1, g2, g3}
  Nobody = Nobody
  MaxKey = 2
  Nested = FALSE
INVARIANTS
  IteratorIsCurrent
PROPERTIES
  CallsReturn
