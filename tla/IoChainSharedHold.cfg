\* A compound io whose two ios share a link closes them both.
SPECIFICATION Spec
CONSTANTS
  Io = {a, b, c}
  NULL = NULL
  Kinds = {"rdwr"}
  SupportSets <- BothWays
  CallTypes = {"READ"}
  LossTypes = {}
  SelfUnplug = FALSE
  SharedHold = TRUE
  PfcloseFails = FALSE
  NestedFails = FALSE
INVARIANT ClosesLiveLink
CHECK_DEADLOCK FALSE
