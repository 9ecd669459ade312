SPECIFICATION ExecutionSpec
SYMMETRY MCSymmetry
CONSTANTS
  Intents = {i1, i2, i3}
  Authorities = {"supervised"}
  MaxMishaps = 2
  NoIntent = NoIntent
INVARIANTS
  ExecutionTypeOK
  RecordsAreTrue
  AlarmIsExact
PROPERTIES
  ReconciliationGuards
CHECK_DEADLOCK FALSE
