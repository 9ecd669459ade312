\* A proposal and manual orders share two running requests and two orders; one restart. The position cap of one is reached by the first fill.
SPECIFICATION Spec
CONSTANTS
  Proposals = {p1}
  Calls = {c1, c2}
  Manual = manual
  Slots = {s1, s2}
  MaxPositions = 1
  MaxCrashes = 1
INVARIANTS OneOrderPerProposal StatusTellsTheTruth
PROPERTIES KillStopsNewOrders EveryRequestEnds
CHECK_DEADLOCK FALSE
