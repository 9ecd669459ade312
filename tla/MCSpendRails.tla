------------------------------ MODULE MCSpendRails ------------------------------
(* A budget Pact that two reservations exhaust and a time Pact that ends   *)
(* on the second day; two reservations against caps that one day, and one  *)
(* week of two days, can reach.                                            *)
EXTENDS SpendRails, TLC

CONSTANTS budgetPact, timePact

MCPacts == {budgetPact, timePact}
MCPactBudget == [p \in MCPacts |-> IF p = budgetPact THEN 3 ELSE 0]
MCPactDeadline == [p \in MCPacts |-> IF p = timePact THEN 1 ELSE 0]

\* Days 0 and 1 are one week, day 2 is the next.
MCWeekOf == [d \in 0..MaxDay |-> d \div 2]

\* Reservations are interchangeable.
MCSymmetry == Permutations(Ids)
=============================================================================
