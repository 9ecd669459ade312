----------------------------- MODULE MCPointClaims -----------------------------
(* One user with two claims of the same size, and another with one. *)
EXTENDS PointClaims

CONSTANTS u, v, c1, c2, d

MCUsers == {u, v}
MCClaims == {c1, c2, d}
MCOwner == [c \in MCClaims |-> IF c = d THEN v ELSE u]
MCMaxEarned == [x \in MCUsers |-> IF x = u THEN 2 ELSE 1]
MCPoints == [c \in MCClaims |-> 1]
===============================================================================
