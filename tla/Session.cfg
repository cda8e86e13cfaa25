CONSTANTS
  Sessions = {s1, s2}
  NDB = 2
  Cmds <- WatchCmds
  MaxWatch = 1
  MaxQueue = 1
  MaxChanges = 2
SPECIFICATION Spec
SYMMETRY Perms
PROPERTY ExecIsOptimistic
