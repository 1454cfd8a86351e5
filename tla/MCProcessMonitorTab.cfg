SPECIFICATION FairSpec
CONSTANTS
  App = App
  Other = Other
  Cpu = Cpu
  Memory = Memory
  Pids = {p1, p2}
  Names = {App, Other}
  Conditions = {Cpu}
  RuleLists <- LiveLists
  NotFound = NotFound
  None = None
  TicksPerSecond = 1
  HistoryLimit = 2
  MaxClock = 0
  MaxAlerts = 3
PROPERTIES
  ExitReportedOnAnyTab
CHECK_DEADLOCK FALSE
