SPECIFICATION PartsSpec
CONSTANTS
  Files <- MCFiles
  Words <- MCWords
  b1 = b1
  b2 = b2
  b3 = b3
  MaxName = 4
  Builds = {b1, b2, b3}
  NoBuild = NoBuild
  Created <- MCCreated
  Fits = {b1, b3}
  Eligible = {1, 2, 3, 4}
  Version <- MCVersion
  Prerelease = {3}
  Numeric <- MCNumeric
  Rules <- MCRules
  PageSize = 2
  Limit = 3
  MaxLookups = 2
  MaxMoves = 1
  Twin = b3
  Base = 3
  MaxDigits = 2
  MaxParts = 3
  Largest = 1
  Prereleases = 2
  Fingerprints = {f1, f2}
  None = None
  Overflow = Overflow
INVARIANTS AcceptedRuns RefusedBeforeCopies CoordinatedAsConfigured SelectedIsHighest LookupsAgree VersionsCorrect
PROPERTIES PackagedVersionGrows
CHECK_DEADLOCK FALSE
