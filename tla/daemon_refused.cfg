SPECIFICATION FairSpec
CONSTANTS
  DaemonsAdmitted = FALSE
  MaxPeriods = 1
  MaxStarts = 1
  MaxBuilds = 0
  MaxOverlapping = 0
  MaxVersions = 1
  Syncs = {}
  MaxReleases = 1
  Workloads <- Peace
PROPERTIES
  ComesBack
CHECK_DEADLOCK FALSE
