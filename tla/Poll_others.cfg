SPECIFICATION Spec
CONSTANTS
  NClients = 3
  Listen = listen
  Free = free
  FirstFd = 3
  LastFd = 6
  UserSize = 3
  MaxSaid = 1
  Leaving = {"fin"}
  Resetters = {}
INVARIANT OnlyToOthers
CHECK_DEADLOCK FALSE
