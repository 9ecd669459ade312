--------------------------- MODULE MCExecutionIntents ---------------------------
(* One account whose clients know one id more than its store has room for, *)
(* two requests they may bind an id to, three requests in the server at    *)
(* once (the first user of an id and two that join it), one process crash  *)
(* and one failing save.  Nothing needs overriding.                        *)
EXTENDS ExecutionIntents
=============================================================================
