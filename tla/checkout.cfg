SPECIFICATION Spec
CONSTANTS
  t1 = t1
  t2 = t2
  d0 = d0
  d1 = d1
  s1 = s1
  s2 = s2
  Digests = {d0, d1}
  Tags = {t1, t2}
  NoDigest = NoDigest
  NoRef = NoRef
  Last = 3
  Sources = {s1, s2}
  NoSource = NoSource
  SourceVersion <- MCVersion
  SourceTag <- MCTag
  Coordinated = TRUE
  Via <- MCVia
  Mode <- MCMode
  Match <- MCMatch
  OldEntries <- MCOld
  Submits = TRUE
  MaxRuns = 3
  MaxMoves = 1
INVARIANTS FailureRestores ImageSetChangesAtOnce LockIsDelivered PackagedTreeAgrees
PROPERTIES PackagedVersionsIncrease
CHECK_DEADLOCK FALSE
