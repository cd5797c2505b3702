SPECIFICATION ProgramsSpec
CONSTANTS
  MaxItems = 4
  Users = {a, b, c}
  MaxProcs = 5
  MaxOpen = 2
  NoSock = NoSock
  Starts = {p1, p2, p3}
  Removals = 1
  Pages = {root, x, y}
  Root = root
  MaxCount = 2
  MaxServers = 3
  MaxQuery = 5
INVARIANTS PopFindsAValue NoLostWakeup EachValueOnce Types
           OneReaderEach ChildrenAreAwaited Exclusive EachPageOnce RunningIsKnown EachPartOnce
PROPERTIES SleeperIsWoken SleepEnds PartnerEnds WaitersAreRead
CHECK_DEADLOCK FALSE
