--------------------------- MODULE MCPaperExecution ---------------------------
(* Three intents: two opens that can meet in the ledgers and a close of    *)
(* one of them, or one open closed twice.                                  *)
EXTENDS PaperExecution, TLC

\* Intents are interchangeable.
MCSymmetry == Permutations(Intents)
=============================================================================
