----------------------------- MODULE MCPaperLedger -----------------------------
(* Two positions, prices on both sides of a cost of two, cash that a third *)
(* lot can exhaust.                                                        *)
EXTENDS PaperLedger, TLC

\* Position ids are interchangeable.
MCSymmetry == Permutations(Ids)
=============================================================================
