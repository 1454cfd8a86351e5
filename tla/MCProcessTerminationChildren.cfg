SPECIFICATION Spec
CONSTANTS
  Unknown = Unknown
  None = None
  Pids = {p1, p2, p3}
  MaxClock = 2
  MaxChosen = 2
SYMMETRY Symmetry
INVARIANTS
  AllChildrenEnded
CHECK_DEADLOCK FALSE
