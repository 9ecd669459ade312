SPECIFICATION Spec
CONSTANTS
  u = u
  v = v
  c1 = c1
  c2 = c2
  d = d
  Users <- MCUsers
  Claims <- MCClaims
  Owner <- MCOwner
  Points <- MCPoints
  MaxEarned <- MCMaxEarned
  MaxReserve = 2
  MaxTxs = 2
  MaxCrashes = 1
INVARIANTS TypeOK Solvent SettledOnce PaidWithinPoints
CHECK_DEADLOCK FALSE
