CONSTANTS
  Clients <- MCClients
  NDB = 2
  Fsync = "always"
  MaxLog = 4
  Loads <- MCLoads
  ColdKeys = {0, 1}
  Layouts <- MCLayouts
  ColdVals <- MCColdVals
  MaxDisk = 3
  PersistCold = FALSE
  MaxId = 2
  MaxFaults = 1
SPECIFICATION MCSpec
INVARIANTS RestartRestores BackupRestores ColdReadsBack ReplayExact
CHECK_DEADLOCK FALSE
VIEW Unanswered
