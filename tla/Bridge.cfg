SPECIFICATION Spec
CONSTANTS
  o1 = o1
  o2 = o2
  b1 = b1
  c1 = c1
  b2 = b2
  k1 = k1
  k2 = k2
  v1 = v1
  v2 = v2
  Ops = {o1, o2}
  Amount <- MCAmount
  Nonce <- MCNonce
  Block <- MCBlock
  Expiry <- MCExpiry
  Blocks = {b1, c1, b2}
  Height <- MCHeight
  NoBlock = NoBlock
  Observers = {v1, v2}
  ObserverQuorum = 1
  StaleDepth = 1
  Keys = {k1, k2}
  Signers = {k1, k2}
  Quorum = 1
  MessageLimit = 1
  DailyLimit = 1
  Window = 1
  MaxNow = 1
  MaxChanges = 2
SYMMETRY MCSymmetry
CHECK_DEADLOCK FALSE
INVARIANTS
  Backed
  OneOutcome
PROPERTIES
  NoRivalHead
