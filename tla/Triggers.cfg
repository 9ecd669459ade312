SPECIFICATION TriggersSpec
CONSTANTS
  p = p
  n = n
  Triggers <- MCTriggers
  Proposing <- MCProposing
  MaxEdits = 4
  MaxFires = 2
  MaxRestarts = 1
INVARIANTS
  TriggersTypeOK
  EditsHoldUnlessOverwritten
PROPERTIES
  ProposesOnEdges
  EveryCheckEnds
