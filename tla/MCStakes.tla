-------------------------------- MODULE MCStakes --------------------------------
(* The rules of the platform; owners are interchangeable. A stake can be   *)
(* withdrawn before an appeal about it is decided, and appeals can lapse.  *)
EXTENDS Stakes, TLC

MCPct == "spend" :> 10 @@ "settlement" :> 5
MCSymmetry == Permutations(Owners)
=============================================================================
