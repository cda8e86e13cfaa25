CONSTANTS
  Clients <- MCClients
  Keys = {"a", "b"}
  Requests <- MCRequests
  MaxSent = 4
  MaxNew = 2
  MaxTime = 2
SPECIFICATION Spec
INVARIANT RepliesInOrder
CHECK_DEADLOCK FALSE
