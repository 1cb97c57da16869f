SPECIFICATION FairSpec
CONSTANTS
  Version = 2
  MaxAttempts = 3
  MaxLookups = 3
  Credentials = {TRUE, FALSE}
  StateAware = TRUE
  CreateIfMissing = TRUE
  SkipIfExists = TRUE
  AllowDowngrade = FALSE
  Guard = TRUE
  ContinueIfNewer = TRUE
  OtherBound = 3
  OtherVersion = {1, 2, 3}
INVARIANTS CreatedReported FailureHasCause
PROPERTIES InformationSubmitted ImplementsPublication WaitingReplacedByNewer PublicationEnds
CHECK_DEADLOCK FALSE
