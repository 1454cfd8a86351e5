SPECIFICATION Spec
CONSTANTS
  Unknown = Unknown
  None = None
  Pids = {p1, p2, p3}
  MaxClock = 2
  MaxChosen = 1
SYMMETRY Symmetry
INVARIANTS
  EveryProcessShownOnce
  OnlyChosenTouched
  SuccessMeansGone
CHECK_DEADLOCK FALSE
