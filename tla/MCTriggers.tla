------------------------------ MODULE MCTriggers ------------------------------
(* Two triggers, of which one proposes and one only notifies. *)
EXTENDS Triggers

CONSTANTS p, n

MCTriggers == {p, n}
MCProposing == {p}
===============================================================================
