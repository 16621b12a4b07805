SPECIFICATION Spec
CONSTANTS
  Inputs = 2
  Blocks = 2
  Modes <- AllModes
  Failures = {"open", "info", "read", "write", "rename", "remove", "short", "flush", "signal", "crash"}
INVARIANTS TrustedIsCopied TrustedIsComplete TargetIsWhole NoHalfFile
PROPERTIES OldFilesStay
CHECK_DEADLOCK FALSE
