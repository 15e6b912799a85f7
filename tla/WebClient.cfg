SPECIFICATION Spec
CONSTANTS
  x = x
  Contents = {x}
  MaxEdits = 2
  MaxPuts = 2
INVARIANTS TypeOK DemoIsNotSaved ShownIsStored SavingsStayTrue
