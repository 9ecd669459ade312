------------------------------- MODULE MCBridge -------------------------------
EXTENDS Bridge, TLC

CONSTANTS o1, o2, b1, c1, b2, k1, k2, v1, v2

\* Two operations whose blocks are rivals, the first of which expires at once.
MCAmount == [o \in Ops |-> 1]
MCNonce == [o \in Ops |-> IF o = o1 THEN 1 ELSE 2]
MCBlock == [o \in Ops |-> IF o = o1 THEN b1 ELSE c1]
MCExpiry == [o \in Ops |-> IF o = o1 THEN 0 ELSE 1]
MCHeight == [b \in Blocks |-> IF b = b2 THEN 3 ELSE 1]
MCSymmetry == Permutations(Observers) \cup Permutations(Keys)
=============================================================================
