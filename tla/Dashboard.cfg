SPECIFICATION Spec
CONSTANTS
  Items <- MCItems
  Amounts = {1000}
  Plans <- MCPlans
  Positions = {35}
  Rate <- MCRate
  MaxItems = 1
  MaxEdits = 1
INVARIANTS TypeOK SumsFit SavingsKept SliderHolds ForecastIsCurrent InterestPays
