SPECIFICATION Spec
CONSTANTS
  t1 = t1
  t2 = t2
  d0 = d0
  d1 = d1
  Digests = {d0, d1}
  Tags = {t1, t2}
  NoDigest = NoDigest
  NoRef = NoRef
  Last = 2
  Driver = 2
  TagVersion <- MCTag
  Projects <- MCProjects
INVARIANTS ReviewGate SameVersionSameDigest BaselineIsDelivered RepeatedCheckFindsNothing
CHECK_DEADLOCK FALSE
