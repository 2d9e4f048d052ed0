\* Unplugging before the head of a chain.
SPECIFICATION Spec
CONSTANTS
  Io = {a, b, c}
  NULL = NULL
  Kinds = {}
  SupportSets <- BothWays
  CallTypes = {"READ"}
  LossTypes = {}
  SelfUnplug = TRUE
  SharedHold = FALSE
  PfcloseFails = FALSE
  NestedFails = FALSE
INVARIANT NoDangling
CHECK_DEADLOCK FALSE
