\* A lock that is taken and reported as refused.
SPECIFICATION Spec
CONSTANTS
  Thread = {t1, t2}
  Nobody = Nobody
  Unseen = Unseen
INVARIANT IdleLockIsFree
