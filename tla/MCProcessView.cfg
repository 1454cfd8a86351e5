SPECIFICATION Spec
CONSTANTS
  Pids = {p1, p2}
  Fallback = Fallback
  None = None
  Freed = Freed
  MaxStart = 2
  MaxWork = 1
  Filters <- SomeFilters
  Untimed <- SecondUntimed
SYMMETRY Symmetry
INVARIANTS
  DetailsOfLiving
  ChargedOnce
  TreeOwned
  
PROPERTIES
  SelectionStays
CHECK_DEADLOCK FALSE
