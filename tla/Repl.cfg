CONSTANTS
  A = A  B = B  C = C
  NoOne = NoOne
  Nodes = {A, B, C}
  Conf <- MoveConf
  Targets <- MoveTargets
  DBs <- DB0
  Cap = 1
  MaxWrites = 3
  MaxBreaks = 2
  MaxFails = 1
  MaxAdmin = 2
  MaxRestarts = 1
SPECIFICATION FairSpec
INVARIANTS
  MirrorsMaster
  StreamFollows
PROPERTY ReplicasCatchUp
CHECK_DEADLOCK FALSE
