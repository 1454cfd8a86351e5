SPECIFICATION FairSpec
CONSTANTS
  Lists <- MCLists
  InitialBuffer = 1
  MaximumBuffer = 4
  Sizes <- MCSizes
  MaximumPages = 5
  Handles = {0, 1, 2, 3}
  Counts = {0, 1, 2, 3, 5}
  Needed = {0, 2, 3, 4, 12}
  Junk = Junk
INVARIANTS
  AllOrNothing
  NoNeedlessFailure
PROPERTIES
  Returns
CHECK_DEADLOCK FALSE
