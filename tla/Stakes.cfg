SPECIFICATION Spec
CONSTANTS
  Owners = {o1, o2}
  NoOwner = NoOwner
  NumStakes = 2
  NumSlashes = 2
  Amounts = {1000}
  Reasons = {"spend", "settlement"}
  Pct <- MCPct
  Cooldown = 1
  Window = 2
  MaxNow = 3
  MaxCrashes = 1
SYMMETRY MCSymmetry
INVARIANTS
  AmountsAccounted
  AnswersAreDurable
CHECK_DEADLOCK FALSE
