SPECIFICATION FairSpec
CONSTANTS
  o1 = o1
  o2 = o2
  o3 = o3
  c1 = c1
  c2 = c2
  other = other
  busy = busy
  quiet = quiet
  Jobs = {o1, o2, o3, c1, c2, other}
  Accounts = {busy, quiet}
  AccountOf <- MCAccountOf
  ActionOf <- MCActionOf
  MaxDepth = 3
  MaxCrashes = 1
INVARIANTS
  JobsAccounted
PROPERTIES
  OrderKept
  EveryJobSettles
CHECK_DEADLOCK FALSE
