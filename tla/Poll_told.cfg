SPECIFICATION Spec
CONSTANTS
  NClients = 3
  Listen = listen
  Free = free
  FirstFd = 3
  LastFd = 6
  UserSize = 3
  MaxSaid = 1
  Leaving = {}
  Resetters = {}
PROPERTY OthersAreTold
CHECK_DEADLOCK FALSE
