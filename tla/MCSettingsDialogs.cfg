SPECIFICATION Spec
CONSTANTS
  Busy = Busy
  Blank = Blank
  Idle = Idle
  Name = Name
  Cpu = Cpu
  Texts = {Blank, Busy, Idle}
  Columns = {Name, Cpu}
  InitialRules <- MCInitialRules
  InitialColumns <- MCInitialColumns
  DefaultColumns <- MCDefaultColumns
  Absent = Absent
  None = None
  MaxRules = 3
  MaxDialogs = 3
  MaxEdits = 2
INVARIANTS
  EditorsPointHome
  RulesInForce
PROPERTIES
  NothingElseChanges
  ColumnsKept
CHECK_DEADLOCK FALSE
