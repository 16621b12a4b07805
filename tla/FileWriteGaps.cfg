SPECIFICATION Spec
CONSTANTS
  Stdouts = {FALSE}
  Cap = 3
  MaxBytes = 7
  MaxLen = 4
  Callers = {"offsets", "gaps"}
  AlignPower2 <- Power2
INVARIANTS NoStaleBytes
CHECK_DEADLOCK FALSE
