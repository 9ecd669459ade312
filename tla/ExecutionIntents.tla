---------------------------- MODULE ExecutionIntents ----------------------------
(***************************************************************************)
(* lib/execution-intents.js: the durable idempotency layer in front of     *)
(* every agent paper order.  A request handler runs without interruption   *)
(* between its awaits, so one action is one handler up to its next await.  *)
(*                                                                         *)
(* On disk (survives a crash): status, request.  In memory: the inflight   *)
(* map (`promise`), the operations that are running (`acted`) and the      *)
(* handlers that await them (`call`).  `effects` and `replies` record what *)
(* the world saw: orders that took effect, answers that were sent.         *)
(*                                                                         *)
(* The stored status 'succeeded' keeps the operation's result, and the     *)
(* result says whether the order was filled, so 'succeeded' is modelled as *)
(* "filled" or "unfilled".                                                 *)
(***************************************************************************)
EXTENDS Naturals, FiniteSets

CONSTANTS
  Accounts,       \* authenticated accounts
  IntentIds,      \* client-chosen ids that pass validateExecutionIntentId
  Requests,       \* values of executionRequestHash(action, request)
  Callers,        \* HTTP requests that may be in the server at once
  MaxPerAccount,  \* MAX_PER_ACCOUNT
  MaxCrashes,     \* bound: process crashes explored
  MaxFaults,      \* bound: failing saves explored
  NoRequest,      \* the request of an absent record
  NoRef           \* the key of an idle caller

Refs == Accounts \X IntentIds

ASSUME RequestAssumption == NoRequest \notin Requests
ASSUME RefAssumption == NoRef \notin Refs
ASSUME BoundAssumption ==
  MaxPerAccount \in Nat /\ MaxCrashes \in Nat /\ MaxFaults \in Nat

VARIABLES
  status,     \* status[r]: the stored record's status
  request,    \* request[r]: the stored requestHash
  promise,    \* promise[r]: the inflight entry: none, running or its outcome
  acted,      \* acted[r]: the running operation has placed its order
  call,       \* call[c]: what caller c's handler awaits
  effects,    \* effects[r]: how many orders key r has caused
  replies,    \* every answer sent: key, request asked, kind
  crashes, faults

disk == <<status, request>>
vars == <<status, request, promise, acted, call, effects, replies, crashes, faults>>

Verdicts == {"filled", "unfilled", "failed"}
Outcomes == Verdicts \cup {"unknown"}
Kinds == Outcomes \cup {"conflict", "capacity", "error"}
Statuses == Verdicts \cup {"absent", "pending"}

Idle == [pc |-> "idle", ref |-> NoRef, request |-> NoRequest, outcome |-> "awaited"]

TypeOK ==
  /\ status \in [Refs -> Statuses]
  /\ request \in [Refs -> Requests \cup {NoRequest}]
  /\ promise \in [Refs -> {"none", "running"} \cup Outcomes]
  /\ acted \in [Refs -> BOOLEAN]
  /\ call \in [Callers -> [pc : {"idle", "owner", "joined"},
                           ref : Refs \cup {NoRef},
                           request : Requests \cup {NoRequest},
                           outcome : {"awaited"} \cup Outcomes]]
  /\ effects \in [Refs -> Nat]
  /\ replies \subseteq [ref : Refs, request : Requests, kind : Kinds]
  /\ crashes \in 0..MaxCrashes
  /\ faults \in 0..MaxFaults

Init ==
  /\ status = [r \in Refs |-> "absent"]
  /\ request = [r \in Refs |-> NoRequest]
  /\ promise = [r \in Refs |-> "none"]
  /\ acted = [r \in Refs |-> FALSE]
  /\ call = [c \in Callers |-> Idle]
  /\ effects = [r \in Refs |-> 0]
  /\ replies = {}
  /\ crashes = 0
  /\ faults = 0

-----------------------------------------------------------------------------
(* runExecutionIntent up to its first await                                *)

Owned(a) == {r \in Refs : r[1] = a /\ status[r] # "absent"}

Answer(r, q, kind) ==
  replies' = replies \cup {[ref |-> r, request |-> q, kind |-> kind]}

Await(c, pc, r, q) ==
  call' = [call EXCEPT ![c] =
            [pc |-> pc, ref |-> r, request |-> q,
             outcome |-> IF promise'[r] = "running" THEN "awaited" ELSE promise'[r]]]

Arrives(c) == call[c].pc = "idle"

HasRoom(r) == Cardinality(Owned(r[1])) < MaxPerAccount

\* The first use of a key: the pending record reaches the disk, and only then
\* does operation() run.
NewIntent(c, r, q) ==
  /\ Arrives(c)
  /\ status[r] = "absent"
  /\ HasRoom(r)
  /\ status' = [status EXCEPT ![r] = "pending"]
  /\ request' = [request EXCEPT ![r] = q]
  /\ promise' = [promise EXCEPT ![r] = "running"]
  /\ acted' = [acted EXCEPT ![r] = FALSE]
  /\ Await(c, "owner", r, q)
  /\ UNCHANGED <<effects, replies, crashes, faults>>

\* save() throws.  The temporary file may already have been renamed over the
\* store (the second chmod failed), and then the record stays.
NewIntentUnsaved(c, r, q) ==
  /\ Arrives(c)
  /\ status[r] = "absent"
  /\ HasRoom(r)
  /\ faults < MaxFaults
  /\ faults' = faults + 1
  /\ \/ UNCHANGED disk
     \/ /\ status' = [status EXCEPT ![r] = "pending"]
        /\ request' = [request EXCEPT ![r] = q]
  /\ Answer(r, q, "error")
  /\ UNCHANGED <<promise, acted, call, effects, crashes>>

CapacityReached(c, r, q) ==
  /\ Arrives(c)
  /\ status[r] = "absent"
  /\ ~HasRoom(r)
  /\ Answer(r, q, "capacity")
  /\ UNCHANGED <<disk, promise, acted, call, effects, crashes, faults>>

Conflict(c, r, q) ==
  /\ Arrives(c)
  /\ status[r] # "absent"
  /\ request[r] # q
  /\ Answer(r, q, "conflict")
  /\ UNCHANGED <<disk, promise, acted, call, effects, crashes, faults>>

\* Mutant: a verdict is replayed to whoever names the id.
ReplayTerminalUnbound(c, r, q) ==
  /\ Arrives(c)
  /\ status[r] \in Verdicts
  /\ Answer(r, q, status[r])
  /\ UNCHANGED <<disk, promise, acted, call, effects, crashes, faults>>

ReplayTerminal(c, r, q) ==
  /\ Arrives(c)
  /\ status[r] \in Verdicts
  /\ request[r] = q
  /\ Answer(r, q, status[r])
  /\ UNCHANGED <<disk, promise, acted, call, effects, crashes, faults>>

\* Mutant: a pending record nobody is working on is run again.
ReplayOrphanReruns(c, r, q) ==
  /\ Arrives(c)
  /\ status[r] = "pending"
  /\ request[r] = q
  /\ promise[r] = "none"
  /\ promise' = [promise EXCEPT ![r] = "running"]
  /\ acted' = [acted EXCEPT ![r] = FALSE]
  /\ Await(c, "owner", r, q)
  /\ UNCHANGED <<disk, effects, replies, crashes, faults>>

\* A pending record nobody in this process is working on: a crash or a failed
\* save came between the order and its record.  It is never run again.
ReplayOrphan(c, r, q) ==
  /\ Arrives(c)
  /\ status[r] = "pending"
  /\ request[r] = q
  /\ promise[r] = "none"
  /\ Answer(r, q, "unknown")
  /\ UNCHANGED <<disk, promise, acted, call, effects, crashes, faults>>

Join(c, r, q) ==
  /\ Arrives(c)
  /\ status[r] = "pending"
  /\ request[r] = q
  /\ promise[r] # "none"
  /\ UNCHANGED promise
  /\ Await(c, "joined", r, q)
  /\ UNCHANGED <<disk, acted, effects, replies, crashes, faults>>

-----------------------------------------------------------------------------
(* The operation, and the handlers it wakes                                *)

\* operation() places its order (executePaperOpen, executePaperClose).
Act(r) ==
  /\ promise[r] = "running"
  /\ ~acted[r]
  /\ acted' = [acted EXCEPT ![r] = TRUE]
  /\ effects' = [effects EXCEPT ![r] = @ + 1]
  /\ UNCHANGED <<disk, promise, call, replies, crashes, faults>>

\* What operation() can come back with: a result that reports what it did, or
\* an exception, which a reversed fill raises too.
Produces(r, v) ==
  /\ v \in Verdicts
  /\ v = "filled" => acted[r]
  /\ v = "unfilled" => ~acted[r]

\* Mutant: only the first caller is told.
WakeOwner(r, o) ==
  call' = [c \in Callers |->
             IF call[c].ref = r /\ call[c].pc = "owner"
             THEN [call[c] EXCEPT !.outcome = o] ELSE call[c]]

Wake(r, o) ==
  call' = [c \in Callers |->
             IF call[c].ref = r THEN [call[c] EXCEPT !.outcome = o] ELSE call[c]]

\* The operation ends and its verdict is saved over the pending record.
Resolve(r, v) ==
  /\ promise[r] = "running"
  /\ Produces(r, v)
  /\ status' = [status EXCEPT ![r] = v]
  /\ promise' = [promise EXCEPT ![r] = v]
  /\ Wake(r, v)
  /\ UNCHANGED <<request, acted, effects, replies, crashes, faults>>

\* Mutant: the answer does not wait for the save.
ResolveUnsavedTold(r, v) ==
  /\ promise[r] = "running"
  /\ Produces(r, v)
  /\ faults < MaxFaults
  /\ faults' = faults + 1
  /\ status' \in {status, [status EXCEPT ![r] = v]}
  /\ promise' = [promise EXCEPT ![r] = v]
  /\ Wake(r, v)
  /\ UNCHANGED <<request, acted, effects, replies, crashes>>

\* The save throws, before or after the rename: everyone is told "unknown".
ResolveUnsaved(r, v) ==
  /\ promise[r] = "running"
  /\ Produces(r, v)
  /\ faults < MaxFaults
  /\ faults' = faults + 1
  /\ status' \in {status, [status EXCEPT ![r] = v]}
  /\ promise' = [promise EXCEPT ![r] = "unknown"]
  /\ Wake(r, "unknown")
  /\ UNCHANGED <<request, acted, effects, replies, crashes>>

\* The handler's continuation: the first caller also drops the inflight entry.
Resume(c) ==
  /\ call[c].pc # "idle"
  /\ call[c].outcome # "awaited"
  /\ Answer(call[c].ref, call[c].request, call[c].outcome)
  /\ promise' = IF call[c].pc = "owner"
                  THEN [promise EXCEPT ![call[c].ref] = "none"]
                  ELSE promise
  /\ call' = [call EXCEPT ![c] = Idle]
  /\ UNCHANGED <<disk, acted, effects, crashes, faults>>

\* The process dies: only the store survives, and the callers get no answer.
Crash ==
  /\ crashes < MaxCrashes
  /\ crashes' = crashes + 1
  /\ promise' = [r \in Refs |-> "none"]
  /\ acted' = [r \in Refs |-> FALSE]
  /\ call' = [c \in Callers |-> Idle]
  /\ UNCHANGED <<disk, effects, replies, faults>>

-----------------------------------------------------------------------------
Request(c, r, q) ==
  \/ NewIntent(c, r, q)
  \/ NewIntentUnsaved(c, r, q)
  \/ CapacityReached(c, r, q)
  \/ Conflict(c, r, q)
  \/ ReplayTerminal(c, r, q)
  \/ ReplayOrphan(c, r, q)
  \/ Join(c, r, q)

Finish(r) == \E v \in Verdicts : Resolve(r, v) \/ ResolveUnsaved(r, v)

Next ==
  \/ \E c \in Callers, r \in Refs, q \in Requests : Request(c, r, q)
  \/ \E r \in Refs : Act(r) \/ Finish(r)
  \/ \E c \in Callers : Resume(c)
  \/ Crash

Spec == Init /\ [][Next]_vars

\* The event loop runs every continuation, and an operation always ends: each
\* network call it awaits has a timeout (lib/market.js).
Fairness ==
  /\ \A r \in Refs : WF_vars(Finish(r))
  /\ \A c \in Callers : WF_vars(Resume(c))

FairSpec == Spec /\ Fairness

-----------------------------------------------------------------------------
(* Properties                                                              *)

\* Every verdict ever sent is about the request the key is bound to, is the
\* verdict on record, and is true of the order: a key reported filled caused
\* exactly one order, one reported unfilled has caused none and never will
\* (docs/EXECUTION_IDEMPOTENCY.md: a retry never duplicates a position).
TruthfulReplies ==
  \A m \in replies :
    m.kind \in Verdicts =>
      /\ status[m.ref] = m.kind
      /\ request[m.ref] = m.request
      /\ m.kind = "filled" => effects[m.ref] = 1
      /\ m.kind = "unfilled" => effects[m.ref] = 0

\* However often a key is retried, whatever crashes or fails to save, its
\* order is placed at most once, and never without a record on disk that
\* blocks the next attempt.
AtMostOneEffect ==
  \A r \in Refs : effects[r] > 0 => effects[r] = 1 /\ status[r] # "absent"

\* What callers are told and what was done are one thing: every reply is true
\* of its order, and no order has more than the one effect its record stands for.
EffectsMatchReplies == TruthfulReplies /\ AtMostOneEffect

\* No interleaving of first uses takes an account past MAX_PER_ACCOUNT.
CapacityHeld == \A a \in Accounts : Cardinality(Owned(a)) <= MaxPerAccount

Orphan(r) == status[r] = "pending" /\ promise[r] = "none"

\* Once the outcome of a key is lost, no retry, however timed, places its
\* order again or makes up a verdict for it.
OrphansStayClosed ==
  [][\A r \in Refs : Orphan(r) => effects'[r] = effects[r] /\ Orphan(r)']_vars

\* A key keeps the request it was first used for and the verdict it was given.
VerdictsFinal ==
  [][\A r \in Refs :
       /\ status[r] # "absent" => request'[r] = request[r]
       /\ status[r] \in Verdicts => status'[r] = status[r]]_vars

\* Every caller is answered, joined callers included, unless the process dies
\* with the call in it.
EveryCallAnswered == \A c \in Callers : call[c].pc # "idle" ~> call[c].pc = "idle"

-----------------------------------------------------------------------------
(* The abstract promise this layer implements                              *)

Phase(r) ==
  CASE status[r] = "absent" -> "free"
    [] status[r] = "pending" -> "claimed"
    [] OTHER -> "settled"

Told(r) == {v \in Verdicts : \E m \in replies : m.ref = r /\ m.kind = v}

A == INSTANCE AtMostOnce WITH
       phase <- [r \in Refs |-> Phase(r)],
       bound <- request,
       effect <- effects,
       told <- [r \in Refs |-> Told(r)]

\* The layer implements AtMostOnce.
Implements == A!Spec
=============================================================================
