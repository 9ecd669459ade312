--------------------------- MODULE MCRuntimeWatch ---------------------------
(***************************************************************************)
(* Two supervisors of one agent key, on two hosts.                         *)
(***************************************************************************)
EXTENDS RuntimeWatch, TLC

CONSTANTS s1, s2
=============================================================================
