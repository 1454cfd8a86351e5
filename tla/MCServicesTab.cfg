SPECIFICATION Spec
CONSTANTS
  Spooler = Spooler
  Audio = Audio
  Svchost = Svchost
  None = None
  Services = {Spooler, Audio}
  Hosts = {Svchost}
  Host <- MCHost
  IdlePid = IdlePid
  Searches = {{}, {Spooler, Audio}}
  MaxPolls = 2
  MaxLives = 1
SYMMETRY MCSymmetry
INVARIANTS
  ListFollows
PROPERTIES
  CommandReachesItsService
  RestartIsNew
CHECK_DEADLOCK FALSE
