SPECIFICATION Spec
CONSTANTS
  NClients = 3
  Listen = listen
  Free = free
  FirstFd = 3
  LastFd = 6
  UserSize = 2
  MaxSaid = 1
  Leaving = {"fin", "rst"}
  Resetters = {1, 3}
INVARIANTS TypeOK EntriesAreClients RoundIsComplete
CHECK_DEADLOCK FALSE
PROPERTIES EverySenderIsRead LeaversAreClosed
