---------------------------- MODULE MCPortfolioLane ----------------------------
(* Five calls for one account and one for another: the first queue fills,  *)
(* with closes that arrive behind opens.                                   *)
EXTENDS PortfolioLane

CONSTANTS o1, o2, o3, c1, c2, other, busy, quiet

MCAccountOf == [j \in Jobs |-> IF j = other THEN quiet ELSE busy]
MCActionOf == [j \in Jobs |-> IF j \in {c1, c2} THEN "close" ELSE "open"]
=============================================================================
