SPECIFICATION FairSpec
CONSTANTS
  Invalid = 4
  Releases = TRUE
INVARIANTS
  FreshId
  ReportsOnlyWhenFull
PROPERTIES
  ScanEndsWhenFree
