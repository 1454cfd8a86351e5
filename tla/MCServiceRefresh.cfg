SPECIFICATION Spec
CONSTANTS
  Services = {s1}
  Lifetime = 2
  Default = Default
  None = None
  MaxChanges = 2
  MaxClock = 2
  MaxGenerations = 3
  QueueLimit = 2
INVARIANTS
  CacheHoldsOwnChanges
  BoundedStaleness
  FreshDisplay
  SnapshotsAccountedFor
  SleepsOnlyWhenIdle
PROPERTIES
  ViewSpec
  NoRequestForgotten
  ShutdownIsShort
CHECK_DEADLOCK FALSE
