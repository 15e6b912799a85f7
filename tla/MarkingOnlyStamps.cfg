SPECIFICATION Spec
CONSTANTS
  Accounts = {a1}
  Frequency = 1
  Overlap <- BackupsOverlap
  MaxPuts = 1
  MaxCrashes = 1
  PutAges = {0,3}
  Reachable = {a1}
PROPERTIES MarkingOnlyStamps
