SPECIFICATION Spec
CONSTANTS
  App = App
  Other = Other
  Cpu = Cpu
  Memory = Memory
  Pids = {p1, p2}
  Names = {App}
  Conditions = {Cpu}
  RuleLists <- SafetyLists
  NotFound = NotFound
  None = None
  TicksPerSecond = 2
  HistoryLimit = 2
  MaxClock = 3
  MaxAlerts = 3
INVARIANTS
  CooldownKept
PROPERTIES
  NothingSilenced
CHECK_DEADLOCK FALSE
