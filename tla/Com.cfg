SPECIFICATION FairSpec
CONSTANTS
  root = root
  a = a
  b = b
  d = d
  e = e
  Root = root
  NoCmd = NoCmd
  Cmds = {root, a, b, d, e}
  Shapes <- Safe
INVARIANTS ComInv ExitLeavesNothing
PROPERTIES CommandsComplete
CHECK_DEADLOCK FALSE
