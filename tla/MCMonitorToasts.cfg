SPECIFICATION ToastsSpec
CONSTANTS
  App = App
  Other = Other
  Cpu = Cpu
  Memory = Memory
  Pids = {p1}
  Names = {App, Other}
  Conditions = {Cpu}
  RuleLists <- LiveLists
  NotFound = NotFound
  None = None
  TicksPerSecond = 1
  HistoryLimit = 2
  MaxClock = 0
  MaxAlerts = 2
  Handles = {h1, h2}
  Opaque = 3
  FadeStep = 2
INVARIANTS
  OneOwner
  Stacked
  RightTimerRuns
PROPERTIES
  ExitReported
  ToastsGo
CHECK_DEADLOCK FALSE
