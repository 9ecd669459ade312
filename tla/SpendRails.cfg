SPECIFICATION Spec
SYMMETRY MCSymmetry
CONSTANTS
  Ids = {i1, i2}
  budgetPact = budgetPact
  timePact = timePact
  Pacts <- MCPacts
  PactBudget <- MCPactBudget
  PactDeadline <- MCPactDeadline
  PerTxCap = 2
  DailyCap = 3
  WeeklyCap = 3
  WeekOf <- MCWeekOf
  MaxAmount = 2
  MaxBalance = 2
  MaxDay = 2
  MaxCrashes = 1
  NoId = NoId
  NoPact = NoPact
INVARIANTS
  LimitsHold
  NothingSpentUncounted
  SettlementsAgree
PROPERTIES
  DeadlineRevokes
