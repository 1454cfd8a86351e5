SPECIFICATION FairSpec
CONSTANTS
  Services = {s1}
  Lifetime = 1
  Default = Default
  None = None
  MaxChanges = 2
  MaxClock = 0
  MaxGenerations = 2
  QueueLimit = 1
PROPERTIES
  ChangeReachesDisplay
  ShutdownCompletes
CHECK_DEADLOCK FALSE
