SPECIFICATION FairSpec
CONSTANTS
  Stdouts = {TRUE, FALSE}
  Cap = 3
  MaxBytes = 6
  MaxLen = 5
  Callers = {"offsets"}
  AlignPower2 <- Power2
INVARIANTS FileWriteInv CloseIsExact InOrder NeverSeeks
PROPERTIES CallsReturn
CHECK_DEADLOCK FALSE
