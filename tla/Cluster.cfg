CONSTANTS
  Confs <- MCConfs
  MaxEpoch = 3
  Clients = {1, 2}
  SlotKeys = {1, 2}
  Count = 2
  MaxWrites = 1
  MaxFaults = 1
  MaxLoad = 2
SPECIFICATION MCSpec
INVARIANTS
  OneWinnerPerEpoch
  FailNeedsQuorum
  OneHolder
  MoveKeepsKeys
PROPERTY ClaimsSettle
CHECK_DEADLOCK FALSE
