SPECIFICATION FairSpec
CONSTANTS
  DaemonsAdmitted = TRUE
  MaxPeriods = 3
  MaxStarts = 2
  MaxBuilds = 3
  MaxOverlapping = 2
  MaxVersions = 2
  Syncs = {1, 2}
  MaxReleases = 2
  Workloads <- AllWorkloads
INVARIANTS
  TokensKept
  OutcomeStored
  KnownIsCached
PROPERTIES
  ComesBack
  StopsWhenTold
CHECK_DEADLOCK FALSE
