CONSTANTS
  NW = 3
  Keys <- MCKeys
  Names <- MCNames
  Owner <- MCOwner
  Glob <- MCGlob
  Mixes <- MCMixes
  MaxWrites = 1
SPECIFICATION FairSpec
INVARIANTS
  RepliesInOrder
  PendingExact
  WatchRefsExact
  NoStaleCommit
  RegistryFollows
  MessagesInOrder
PROPERTIES
  ProgramOrderPerKey
  EveryRequestAnswered
CHECK_DEADLOCK FALSE
