SPECIFICATION SavesSpec
CONSTANTS
  Threads = {t1, t2}
  Accounts = {a1}
  MaxItems = 1
SYMMETRY Symmetry
INVARIANTS SavesTypeOK PointOfTheDay FailureHasCause
