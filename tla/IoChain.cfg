\* Four links: plain ones, compound ios that close others in their pfclose, a
\* pfclose callback of a plain link that may fail.
SPECIFICATION MCSpec
CONSTANTS
  Io = {a, b, c, d}
  NULL = NULL
  Kinds = {"rdwr", "debug"}
  SupportSets <- BothWays
  CallTypes = {"WRITE", "RDWR"}
  LossTypes = {"WRITE"}
  SelfUnplug = FALSE
  SharedHold = FALSE
  PfcloseFails = TRUE
  NestedFails = FALSE
INVARIANTS TypeOK CountsMatch NoDangling ClosesLiveLink
PROPERTIES OwnerSpec CloseTerminates
