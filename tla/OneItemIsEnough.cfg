SPECIFICATION FairSpec
CONSTANTS
  x = x
  Contents = {x}
  MaxEdits = 1
  MaxPuts = 2
PROPERTY OneItemIsEnough
