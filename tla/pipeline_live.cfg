SPECIFICATION FairSpec
CONSTANTS
  a = a
  b = b
  c = c
  r1 = r1
  r2 = r2
  none = none
  Source = {a, b}
  NoSource = none
  BaseVersion <- MCBaseVersion
  Release <- MCRelease
  Tag <- Untagged
  NoTag = none
  Numeric = FALSE
  Recipe = {r1}
  InitialVersion = 1
  LegacyLocks = TRUE
  Lookup = TRUE
  ContinueIfNewer = FALSE
  SkipIfExists = TRUE
  AllowDowngrade = FALSE
  ManualVersion = {4}
  Budget <- FailureBudget
INVARIANTS RecoveryInv
PROPERTIES NewestSourceHandled ResubmissionIsGranted
