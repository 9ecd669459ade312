SPECIFICATION FairSpec
CONSTANTS
  Accounts = {a1}
  IntentIds = {i1, i2}
  Requests = {q1, q2}
  Callers = {c1, c2, c3}
  MaxPerAccount = 1
  MaxCrashes = 1
  MaxFaults = 1
  NoRequest = NoRequest
  NoRef = NoRef
INVARIANTS
  EffectsMatchReplies
PROPERTIES
  OrphansStayClosed
  EveryCallAnswered
  Implements
