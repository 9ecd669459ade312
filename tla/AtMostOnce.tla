------------------------------- MODULE AtMostOnce -------------------------------
(***************************************************************************)
(* What the paper execution API promises the holder of an idempotency key  *)
(* (docs/EXECUTION_IDEMPOTENCY.md, lib/execution-intents.js): a key is     *)
(* bound to one request, the request takes effect at most once however     *)
(* often it is retried, and every definite answer about the key is the     *)
(* same and is true.  Nothing is promised about an answer ever becoming    *)
(* definite: a key may stay claimed for ever.                              *)
(***************************************************************************)
CONSTANTS
  Refs,       \* idempotency keys: an account and a client-chosen id
  Requests,   \* what a client may ask for
  NoRequest   \* the binding of a key nobody has used

VARIABLES
  phase,      \* phase[r]: "free", "claimed" or "settled"
  bound,      \* bound[r]: the request key r stands for
  effect,     \* effect[r]: how many times the request took effect
  told        \* told[r]: the definite answers given about r

vars == <<phase, bound, effect, told>>

Verdicts == {"filled", "unfilled", "failed"}

\* A verdict a client may be told when the request took effect n times.  A
\* failed order may have been filled and then reversed, so "failed" says
\* nothing of n.
Truthful(v, n) ==
  /\ v = "filled" => n = 1
  /\ v = "unfilled" => n = 0

Init ==
  /\ phase = [r \in Refs |-> "free"]
  /\ bound = [r \in Refs |-> NoRequest]
  /\ effect = [r \in Refs |-> 0]
  /\ told = [r \in Refs |-> {}]

Claim(r, q) ==
  /\ phase[r] = "free"
  /\ phase' = [phase EXCEPT ![r] = "claimed"]
  /\ bound' = [bound EXCEPT ![r] = q]
  /\ UNCHANGED <<effect, told>>

Apply(r) ==
  /\ phase[r] = "claimed"
  /\ effect[r] = 0
  /\ effect' = [effect EXCEPT ![r] = 1]
  /\ UNCHANGED <<phase, bound, told>>

Settle(r) ==
  /\ phase[r] = "claimed"
  /\ phase' = [phase EXCEPT ![r] = "settled"]
  /\ UNCHANGED <<bound, effect, told>>

\* Only the request the key is bound to is answered with a verdict, and all
\* verdicts about one key agree.
Tell(r, q, v) ==
  /\ phase[r] = "settled"
  /\ q = bound[r]
  /\ Truthful(v, effect[r])
  /\ told[r] \subseteq {v}
  /\ told' = [told EXCEPT ![r] = {v}]
  /\ UNCHANGED <<phase, bound, effect>>

Next ==
  \E r \in Refs :
    \/ Apply(r)
    \/ Settle(r)
    \/ \E q \in Requests :
         \/ Claim(r, q)
         \/ \E v \in Verdicts : Tell(r, q, v)

Spec == Init /\ [][Next]_vars
=============================================================================
