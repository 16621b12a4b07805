SPECIFICATION Spec
CONSTANTS
  root = root
  a = a
  b = b
  d = d
  e = e
  Root = root
  NoCmd = NoCmd
  Cmds = {root, a, b, d, e}
  Shapes <- Signals
PROPERTIES SignalsActive
CHECK_DEADLOCK FALSE
