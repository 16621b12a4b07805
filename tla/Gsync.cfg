SPECIFICATION Spec
CONSTANTS
  Kinds <- Two
  Bytes <- Alike
  Sizes <- TreeSizes
  Wildcards <- SameKind
  Slice = 2
  MaxAsks = 2
  Failures = {"open", "child", "create", "move", "trash"}
INVARIANTS GsyncInv DoneAsShown BatchIsWhole WorkGoesOn MarksAreTrue
PROPERTIES DoneOnce
CHECK_DEADLOCK FALSE
