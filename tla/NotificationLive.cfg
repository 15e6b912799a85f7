SPECIFICATION FairSpec
CONSTANTS
  Accounts = {a1}
  Frequency = 1
  Overlap <- NoOverlap
  MaxPuts = 1
  MaxCrashes = 1
  PutAges = {0}
  Reachable = {a1}
PROPERTIES WantedIsMailed
