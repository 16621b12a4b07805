SPECIFICATION Spec
CONSTANTS
  Stdouts = {TRUE}
  Cap = 3
  MaxBytes = 4
  MaxLen = 3
  Callers = {}
  AlignPower2 <- Power2
INVARIANTS FlushGoesOn
CHECK_DEADLOCK FALSE
