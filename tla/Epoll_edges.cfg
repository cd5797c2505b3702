SPECIFICATION Spec
CONSTANTS
  NClients = 3
  Listen = listen
  Instance = instance
  Free = free
  FirstFd = 3
  LastFd = 6
  MaxSaid = 1
  HalfClosers = {1}
INVARIANTS ItemsAreClients NeverBlocks SilentClientsAreHarmless
PROPERTIES QuestionsAreAnswered SilentQuitsAreClosed
CHECK_DEADLOCK FALSE
