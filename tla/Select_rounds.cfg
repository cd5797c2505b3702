SPECIFICATION Spec
CONSTANTS
  NClients = 3
  Listen = listen
  Free = free
  FirstFd = 3
  LastFd = 6
  Size = 3
  MaxSaid = 2
INVARIANTS SlotsAreClients NeverBlocks
CHECK_DEADLOCK FALSE
PROPERTIES EverySenderIsRead QuitsAreClosed
