----------------------------- MODULE PortfolioLane -----------------------------
(***************************************************************************)
(* The paper-execution arbiter (lib/agent-portfolio-orchestrator.js): every *)
(* account has one writer at a time and a bounded queue in which closes     *)
(* stand before opens.  A job is one runPortfolioExecution call, with the   *)
(* operation it was given: executePaperOpen or executePaperClose of         *)
(* server.js.                                                               *)
(*                                                                          *)
(* The promise of an operation settles, its caller is told, and only then   *)
(* does the lane clear its active slot and drain: other code may queue a    *)
(* job in between.  The lane lives in memory: a crash loses what it holds.  *)
(***************************************************************************)
EXTENDS Integers, Sequences

CONSTANTS
  Jobs,       \* the calls that may be made
  Accounts,
  AccountOf,  \* AccountOf[j]: the account job j is for
  ActionOf,   \* ActionOf[j]: "open" or "close" (cleanAction)
  MaxDepth,   \* MAX_QUEUE_DEPTH
  MaxCrashes  \* bound: process crashes explored

ASSUME JobAssumption ==
  /\ AccountOf \in [Jobs -> Accounts]
  /\ ActionOf \in [Jobs -> {"open", "close"}]
ASSUME BoundAssumption == MaxDepth \in Nat \ {0} /\ MaxCrashes \in Nat

VARIABLES
  job,     \* job[j]: how far the call got
  active,  \* active[a]: whether the lane of account a has its slot taken
  queue,   \* queue[a]: the jobs waiting in it
  crashes

vars == <<job, active, queue, crashes>>

Settled == {"resolved", "rejected"}

TypeOK ==
  /\ job \in [Jobs -> {"new", "waiting", "running", "refused", "lost"} \cup Settled]
  /\ active \in [Accounts -> BOOLEAN]
  /\ queue \in [Accounts -> Seq(Jobs)]
  /\ \A a \in Accounts : Len(queue[a]) <= MaxDepth
  /\ crashes \in 0..MaxCrashes

\* A lane that is not in the map is an idle one.
Init ==
  /\ job = [j \in Jobs |-> "new"]
  /\ active = [a \in Accounts |-> FALSE]
  /\ queue = [a \in Accounts |-> <<>>]
  /\ crashes = 0

-----------------------------------------------------------------------------

\* Mutant: everybody goes to the end.
IsPlaceAtEnd(q, j, k) == k = Len(q) + 1

\* Where a job goes: a close before the first open, an open at the end.
IsPlace(q, j, k) ==
  /\ k \in 1..Len(q) + 1
  /\ ActionOf[j] = "open" => k = Len(q) + 1
  /\ ActionOf[j] = "close" =>
       /\ \A i \in 1..k - 1 : ActionOf[q[i]] = "close"
       /\ k <= Len(q) => ActionOf[q[k]] = "open"

InsertedAt(q, j, k) ==
  [i \in 1..Len(q) + 1 |-> IF i < k THEN q[i] ELSE IF i = k THEN j ELSE q[i - 1]]

\* drain: the slot goes to the head of q, the queue of account a.
Drain(a, q, jb) ==
  IF q = <<>>
  THEN /\ active' = [active EXCEPT ![a] = FALSE]
       /\ queue' = [queue EXCEPT ![a] = q]
       /\ job' = jb
  ELSE /\ active' = [active EXCEPT ![a] = TRUE]
       /\ queue' = [queue EXCEPT ![a] = Tail(q)]
       /\ job' = [jb EXCEPT ![Head(q)] = "running"]

\* Mutant: the active slot is not looked at.
SubmitAtOnce(j) ==
  LET a == AccountOf[j]
  IN /\ job[j] = "new"
     /\ Drain(a, Append(queue[a], j), [job EXCEPT ![j] = "waiting"])
     /\ UNCHANGED crashes

\* runPortfolioExecution.
Submit(j) ==
  LET a == AccountOf[j]
  IN /\ job[j] = "new"
     /\ Len(queue[a]) < MaxDepth
     /\ \E k \in 1..Len(queue[a]) + 1 :
          /\ IsPlace(queue[a], j, k)
          /\ IF active[a]
             THEN /\ queue' = [queue EXCEPT ![a] = InsertedAt(queue[a], j, k)]
                  /\ job' = [job EXCEPT ![j] = "waiting"]
                  /\ UNCHANGED active
             ELSE Drain(a, InsertedAt(queue[a], j, k), [job EXCEPT ![j] = "waiting"])
     /\ UNCHANGED crashes

\* portfolio-orchestrator-capacity
Refuse(j) ==
  /\ job[j] = "new"
  /\ Len(queue[AccountOf[j]]) >= MaxDepth
  /\ job' = [job EXCEPT ![j] = "refused"]
  /\ UNCHANGED <<active, queue, crashes>>

\* The operation's promise settles and the caller hears of it.
Settle(j, outcome) ==
  /\ job[j] = "running"
  /\ job' = [job EXCEPT ![j] = outcome]
  /\ UNCHANGED <<active, queue, crashes>>

\* Mutant: the slot is cleared and nothing more.
ReleaseOnly(a) ==
  /\ active[a]
  /\ \A j \in Jobs : AccountOf[j] = a => job[j] # "running"
  /\ active' = [active EXCEPT ![a] = FALSE]
  /\ UNCHANGED <<job, queue, crashes>>

\* finally: the slot is cleared and the lane drains.
Release(a) ==
  /\ active[a]
  /\ \A j \in Jobs : AccountOf[j] = a => job[j] # "running"
  /\ Drain(a, queue[a], job)
  /\ UNCHANGED crashes

Crash ==
  /\ crashes < MaxCrashes
  /\ job' = [j \in Jobs |-> IF job[j] \in {"waiting", "running"} THEN "lost" ELSE job[j]]
  /\ active' = [a \in Accounts |-> FALSE]
  /\ queue' = [a \in Accounts |-> <<>>]
  /\ crashes' = crashes + 1

Working == \E j \in Jobs, outcome \in Settled : Settle(j, outcome)
Releasing == \E a \in Accounts : Release(a)

Next ==
  \/ \E j \in Jobs : Submit(j) \/ Refuse(j)
  \/ Working
  \/ Releasing
  \/ Crash

Spec == Init /\ [][Next]_vars

\* An operation settles: what it awaits (quotes, the market gateway) times
\* out.  The lane's own steps are promise callbacks.
FairSpec ==
  /\ Spec
  /\ \A j \in Jobs : WF_vars(\E outcome \in Settled : Settle(j, outcome))
  /\ \A a \in Accounts : WF_vars(Release(a))

-----------------------------------------------------------------------------
(* Properties                                                              *)

\* onePaperWriterPerAccount: no two operations of one account run at once.
OneWriter == \A i, j \in Jobs :
  job[i] = "running" /\ job[j] = "running" /\ AccountOf[i] = AccountOf[j] => i = j

\* No job is forgotten or run twice: the waiting jobs of an account are those
\* in its queue, each once, and they wait for a slot that is taken.
NoneForgotten == \A a \in Accounts :
  /\ {j \in Jobs : AccountOf[j] = a /\ job[j] = "waiting"} = {queue[a][i] : i \in DOMAIN queue[a]}
  /\ \A i, k \in DOMAIN queue[a] : queue[a][i] = queue[a][k] => i = k
  /\ queue[a] # <<>> => active[a]

\* An account's jobs are the one that runs and the ones that wait, each once.
JobsAccounted == OneWriter /\ NoneForgotten

\* priority: risk-reducing closes first.  An open is never started while a close
\* of the account is kept waiting.
ClosesFirst == [][\A c \in Jobs :
  ActionOf[c] = "close" /\ job[c] = "waiting" /\ job'[c] = "waiting" =>
    \A o \in Jobs :
      /\ AccountOf[o] = AccountOf[c]
      /\ ActionOf[o] = "open"
      /\ job'[o] = "running"
      => job[o] = "running"]_vars

\* Otherwise first in, first out: whoever waits is never passed, except an open
\* by a close.
PassedOnlyByCloses == [][\A a \in Accounts : \A k \in DOMAIN queue[a] :
  \A m, n \in DOMAIN queue'[a] :
    queue'[a][n] = queue[a][k] /\ m < n =>
      \/ \E i \in 1..k - 1 : queue'[a][m] = queue[a][i]
      \/ ActionOf[queue[a][k]] = "open" /\ ActionOf[queue'[a][m]] = "close"]_vars

\* The lane's order: closes before opens, and first in, first out among equals.
OrderKept == ClosesFirst /\ PassedOnlyByCloses

\* Every job the lane accepts settles, unless a crash takes it.
EveryJobSettles == \A j \in Jobs :
  job[j] = "waiting" ~> job[j] \in Settled \cup {"lost"}
=============================================================================
