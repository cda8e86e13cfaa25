CONSTANTS
  NRings = 2
  Bounded = {1}
  N = 3
  DRAIN_MAX = 1
  MaxPush <- MCMaxPush
  PipeCap = 1
SPECIFICATION FairSpec
INVARIANTS
  NoLostWakeup
PROPERTIES
  ImplementsFifo
  EveryPushPopped
  StopTerminates
CHECK_DEADLOCK FALSE
