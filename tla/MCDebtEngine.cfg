SPECIFICATION Spec
CONSTANTS
  Inputs <- MCInputs
  MaxMonths = 60
  MaxOwed = 4000000
  Epsilon = 5
INVARIANTS MoneyAddsUp PlanBeatsBaseline AvalancheIsCheapest
CHECK_DEADLOCK FALSE
