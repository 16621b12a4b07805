SPECIFICATION Spec
CONSTANTS
  Inputs = 2
  Blocks = 2
  Modes <- Unverified
  Failures = {"short"}
INVARIANTS RenamedIsCopied
CHECK_DEADLOCK FALSE
