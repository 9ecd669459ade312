---------------------------- MODULE WriteAheadProofs ----------------------------
(***************************************************************************)
(* Proofs about the two protocols that write a record ahead of a call and  *)
(* survive its loss: ExecutionIntents (the server's intent before an       *)
(* order) and RuntimeWatch (a supervisor's heartbeat before it is sent),   *)
(* for any accounts, requests, callers, supervisors and bounds, and for    *)
(* any number of crashes, failing saves and lost messages.                 *)
(*                                                                         *)
(* TruthfulReplies is not inductive: an answer is prepared (in `promise`   *)
(* and in `call`) before it is sent, and an order is placed before its     *)
(* verdict is known.  IInv says what those intermediate states agree on.   *)
(* EveryBeatOnce is not either: RelayInv says whose sessions are whose and *)
(* how far behind the lease a status, a file or a late message may be.     *)
(***************************************************************************)
EXTENDS ExecutionIntents, RuntimeWatch, FiniteSetTheorems, SequenceTheorems, TLAPS

\* A running operation has a pending record and has placed as many orders as
\* it remembers placing.
RunsInv ==
  \A r \in Refs :
    promise[r] = "running" =>
      /\ status[r] = "pending"
      /\ acted[r] => effects[r] = 1
      /\ ~acted[r] => effects[r] = 0

\* The record agrees with the world.
RecordInv ==
  \A r \in Refs :
    /\ effects[r] \in {0, 1}
    /\ status[r] = "absent" => effects[r] = 0 /\ promise[r] = "none"
    /\ status[r] = "filled" => effects[r] = 1
    /\ status[r] = "unfilled" => effects[r] = 0
    /\ promise[r] \in Verdicts => status[r] = promise[r]

\* A waiting caller asked for the request on record, and the answer it is
\* about to get is the verdict on record.
CallInv ==
  \A c \in Callers :
    call[c].pc # "idle" =>
      /\ call[c].ref \in Refs
      /\ call[c].request \in Requests
      /\ status[call[c].ref] # "absent"
      /\ request[call[c].ref] = call[c].request
      /\ call[c].outcome \in Verdicts => status[call[c].ref] = call[c].outcome

\* A verdict that was sent is the verdict on record.
ReplyInv ==
  \A m \in replies :
    m.kind \in Verdicts =>
      /\ status[m.ref] = m.kind
      /\ request[m.ref] = m.request

IInv == TypeOK /\ RunsInv /\ RecordInv /\ CallInv /\ ReplyInv

-----------------------------------------------------------------------------
\* The strengthened invariant holds initially.
LEMMA InitIInv == Init => IInv
<1> SUFFICES ASSUME Init PROVE IInv
  OBVIOUS
<1>1. TypeOK
  BY BoundAssumption DEF Init, TypeOK, Idle, Statuses
<1>2. RunsInv /\ RecordInv /\ CallInv /\ ReplyInv
  BY DEF Init, RunsInv, RecordInv, CallInv, ReplyInv, Idle, Verdicts
<1> QED
  BY <1>1, <1>2 DEF IInv

\* Every step keeps the types.
LEMMA NextTypeOK == TypeOK /\ CallInv /\ [Next]_vars => TypeOK'
<1> SUFFICES ASSUME TypeOK, CallInv, [Next]_vars PROVE TypeOK'
  OBVIOUS
<1> USE BoundAssumption DEF TypeOK, Statuses, Verdicts, Outcomes, Kinds
<1>1. ASSUME NEW c \in Callers, NEW r \in Refs, NEW q \in Requests, NewIntent(c, r, q)
      PROVE TypeOK'
  BY <1>1 DEF NewIntent, Await
<1>2. ASSUME NEW c \in Callers, NEW r \in Refs, NEW q \in Requests,
             NewIntentUnsaved(c, r, q)
      PROVE TypeOK'
  BY <1>2 DEF NewIntentUnsaved, Answer, disk
<1>3. ASSUME NEW c \in Callers, NEW r \in Refs, NEW q \in Requests,
             \/ CapacityReached(c, r, q)
             \/ Conflict(c, r, q)
             \/ ReplayTerminal(c, r, q)
             \/ ReplayOrphan(c, r, q)
      PROVE TypeOK'
  BY <1>3 DEF CapacityReached, Conflict, ReplayTerminal, ReplayOrphan, Answer, disk
<1>4. ASSUME NEW c \in Callers, NEW r \in Refs, NEW q \in Requests, Join(c, r, q)
      PROVE TypeOK'
  BY <1>4 DEF Join, Await, disk
<1>5. ASSUME NEW r \in Refs, Act(r) PROVE TypeOK'
  BY <1>5 DEF Act, disk
<1>6. ASSUME NEW r \in Refs, NEW v \in Verdicts, Resolve(r, v) PROVE TypeOK'
  BY <1>6 DEF Resolve, Wake
<1>7. ASSUME NEW r \in Refs, NEW v \in Verdicts, ResolveUnsaved(r, v) PROVE TypeOK'
  BY <1>7 DEF ResolveUnsaved, Wake
<1>8. ASSUME NEW c \in Callers, Resume(c) PROVE TypeOK'
  BY <1>8 DEF Resume, CallInv, Answer, Idle, disk
<1>9. ASSUME Crash PROVE TypeOK'
  BY <1>9 DEF Crash, Idle, disk
<1>10. CASE UNCHANGED vars
  BY <1>10 DEF vars
<1> HIDE DEF TypeOK, Statuses, Verdicts, Outcomes, Kinds
<1> QED
  BY <1>1, <1>2, <1>3, <1>4, <1>5, <1>6, <1>7, <1>8, <1>9, <1>10
     DEF Next, Request, Finish

\* Every step keeps the rest of the invariant.
LEMMA NextStateInv ==
  IInv /\ [Next]_vars => RunsInv' /\ RecordInv' /\ CallInv' /\ ReplyInv'
<1> SUFFICES ASSUME IInv, [Next]_vars
             PROVE RunsInv' /\ RecordInv' /\ CallInv' /\ ReplyInv'
  OBVIOUS
<1> USE DEF IInv, TypeOK, Statuses, Verdicts, Outcomes, Kinds
<1>1. ASSUME NEW c \in Callers, NEW r \in Refs, NEW q \in Requests, NewIntent(c, r, q)
      PROVE RunsInv' /\ RecordInv' /\ CallInv' /\ ReplyInv'
  <2>1. RunsInv'
    BY <1>1 DEF NewIntent, RunsInv, RecordInv
  <2>2. RecordInv'
    BY <1>1 DEF NewIntent, RecordInv
  <2>3. CallInv'
    BY <1>1 DEF NewIntent, Await, CallInv
  <2>4. ReplyInv'
    BY <1>1 DEF NewIntent, ReplyInv
  <2> QED
    BY <2>1, <2>2, <2>3, <2>4
<1>2. ASSUME NEW c \in Callers, NEW r \in Refs, NEW q \in Requests,
             NewIntentUnsaved(c, r, q)
      PROVE RunsInv' /\ RecordInv' /\ CallInv' /\ ReplyInv'
  <2>1. RunsInv'
    BY <1>2 DEF NewIntentUnsaved, RunsInv, RecordInv, disk
  <2>2. RecordInv'
    BY <1>2 DEF NewIntentUnsaved, RecordInv, disk
  <2>3. CallInv'
    BY <1>2 DEF NewIntentUnsaved, CallInv, disk
  <2>4. ReplyInv'
    BY <1>2 DEF NewIntentUnsaved, Answer, ReplyInv, disk
  <2> QED
    BY <2>1, <2>2, <2>3, <2>4
<1>3. ASSUME NEW c \in Callers, NEW r \in Refs, NEW q \in Requests,
             \/ CapacityReached(c, r, q)
             \/ Conflict(c, r, q)
             \/ ReplayTerminal(c, r, q)
             \/ ReplayOrphan(c, r, q)
      PROVE RunsInv' /\ RecordInv' /\ CallInv' /\ ReplyInv'
  <2> USE DEF CapacityReached, Conflict, ReplayTerminal, ReplayOrphan
  <2>1. RunsInv' /\ RecordInv' /\ CallInv'
    BY <1>3 DEF RunsInv, RecordInv, CallInv, disk
  <2>2. ReplyInv'
    BY <1>3 DEF Answer, ReplyInv, disk
  <2> QED
    BY <2>1, <2>2
<1>4. ASSUME NEW c \in Callers, NEW r \in Refs, NEW q \in Requests, Join(c, r, q)
      PROVE RunsInv' /\ RecordInv' /\ CallInv' /\ ReplyInv'
  <2>1. RunsInv' /\ RecordInv' /\ ReplyInv'
    BY <1>4 DEF Join, RunsInv, RecordInv, ReplyInv, disk
  <2>2. CallInv'
    BY <1>4 DEF Join, Await, CallInv, RecordInv, disk
  <2> QED
    BY <2>1, <2>2
<1>5. ASSUME NEW r \in Refs, Act(r)
      PROVE RunsInv' /\ RecordInv' /\ CallInv' /\ ReplyInv'
  <2>1. RunsInv' /\ RecordInv'
    BY <1>5 DEF Act, RunsInv, RecordInv, disk
  <2>2. CallInv' /\ ReplyInv'
    BY <1>5 DEF Act, CallInv, ReplyInv, disk
  <2> QED
    BY <2>1, <2>2
<1>6. ASSUME NEW r \in Refs, NEW v \in Verdicts, Resolve(r, v)
      PROVE RunsInv' /\ RecordInv' /\ CallInv' /\ ReplyInv'
  <2>1. RunsInv' /\ RecordInv'
    BY <1>6 DEF Resolve, Produces, RunsInv, RecordInv
  <2>2. CallInv'
    BY <1>6 DEF Resolve, Wake, RunsInv, CallInv
  <2>3. ReplyInv'
    BY <1>6 DEF Resolve, RunsInv, ReplyInv
  <2> QED
    BY <2>1, <2>2, <2>3
<1>7. ASSUME NEW r \in Refs, NEW v \in Verdicts, ResolveUnsaved(r, v)
      PROVE RunsInv' /\ RecordInv' /\ CallInv' /\ ReplyInv'
  <2>1. RunsInv' /\ RecordInv'
    BY <1>7 DEF ResolveUnsaved, Produces, RunsInv, RecordInv
  <2>2. CallInv'
    BY <1>7 DEF ResolveUnsaved, Wake, RunsInv, CallInv
  <2>3. ReplyInv'
    BY <1>7 DEF ResolveUnsaved, RunsInv, ReplyInv
  <2> QED
    BY <2>1, <2>2, <2>3
<1>8. ASSUME NEW c \in Callers, Resume(c)
      PROVE RunsInv' /\ RecordInv' /\ CallInv' /\ ReplyInv'
  <2>1. RunsInv' /\ RecordInv'
    BY <1>8 DEF Resume, RunsInv, RecordInv, CallInv, disk
  <2>2. CallInv'
    BY <1>8 DEF Resume, CallInv, Idle, disk
  <2>3. ReplyInv'
    BY <1>8 DEF Resume, Answer, CallInv, ReplyInv, disk
  <2> QED
    BY <2>1, <2>2, <2>3
<1>9. ASSUME Crash
      PROVE RunsInv' /\ RecordInv' /\ CallInv' /\ ReplyInv'
  BY <1>9 DEF Crash, Idle, RunsInv, RecordInv, CallInv, ReplyInv, disk
<1>10. CASE UNCHANGED vars
  BY <1>10 DEF vars, RunsInv, RecordInv, CallInv, ReplyInv
<1> HIDE DEF IInv, TypeOK, Statuses, Verdicts, Outcomes, Kinds
<1> QED
  BY <1>1, <1>2, <1>3, <1>4, <1>5, <1>6, <1>7, <1>8, <1>9, <1>10
     DEF Next, Request, Finish

\* The strengthened invariant holds in every reachable state.
THEOREM Inductive == Spec => []IInv
<1>1. IInv /\ [Next]_vars => IInv'
  BY NextTypeOK, NextStateInv DEF IInv
<1> QED
  BY InitIInv, <1>1, PTL DEF Spec

\* The variables keep their types.
THEOREM TypeCorrect == Spec => []TypeOK
<1>1. IInv => TypeOK
  BY DEF IInv
<1> QED
  BY <1>1, Inductive, PTL

\* Every verdict ever sent is the one on record, about the request the key is
\* bound to, and true of the orders the key has caused.
THEOREM RepliesTruthful == Spec => []TruthfulReplies
<1>1. IInv => TruthfulReplies
  BY DEF IInv, TypeOK, RecordInv, ReplyInv, TruthfulReplies, Verdicts
<1> QED
  BY <1>1, Inductive, PTL

\* However often it is retried, a key causes at most one order.
THEOREM EffectsAtMostOnce == Spec => []AtMostOneEffect
<1>1. IInv => AtMostOneEffect
  BY DEF IInv, RecordInv, AtMostOneEffect
<1> QED
  BY <1>1, Inductive, PTL

-----------------------------------------------------------------------------
(* Capacity.  Owned(a) is finite in every reachable state even when there  *)
(* are infinitely many ids, so nothing is assumed of IntentIds.            *)

CapacityInv ==
  \A a \in Accounts :
    IsFiniteSet(Owned(a)) /\ Cardinality(Owned(a)) <= MaxPerAccount

\* Recording one key of account r[1], when that account has room, keeps every
\* account within its capacity.
LEMMA RecordKey ==
  ASSUME CapacityInv, NEW r \in Refs, HasRoom(r),
         \A a \in Accounts :
           Owned(a)' = IF a = r[1] THEN Owned(a) \cup {r} ELSE Owned(a)
  PROVE  CapacityInv'
<1> SUFFICES ASSUME NEW a \in Accounts
             PROVE IsFiniteSet(Owned(a)') /\ Cardinality(Owned(a)') <= MaxPerAccount
  BY DEF CapacityInv
<1>1. IsFiniteSet(Owned(a)) /\ Cardinality(Owned(a)) <= MaxPerAccount
  BY DEF CapacityInv
<1>2. CASE a = r[1]
  <2>1. Owned(a)' = Owned(a) \cup {r}
    BY <1>2
  <2>2. Cardinality(Owned(a)) \in Nat /\ Cardinality(Owned(a)) < MaxPerAccount
    BY <1>1, <1>2, FS_CardinalityType DEF HasRoom
  <2>3. /\ IsFiniteSet(Owned(a) \cup {r})
        /\ Cardinality(Owned(a) \cup {r}) = IF r \in Owned(a) THEN Cardinality(Owned(a))
                                            ELSE Cardinality(Owned(a)) + 1
    BY <1>1, FS_AddElement
  <2> QED
    BY <2>1, <2>2, <2>3, BoundAssumption
<1>3. CASE a # r[1]
  BY <1>1, <1>3
<1> QED
  BY <1>2, <1>3

\* A step either records one key of an account that has room or leaves every
\* account's records where they are.
LEMMA NextCapacityInv == IInv /\ CapacityInv /\ [Next]_vars => CapacityInv'
<1> SUFFICES ASSUME IInv, CapacityInv, [Next]_vars PROVE CapacityInv'
  OBVIOUS
<1>1. ASSUME UNCHANGED status PROVE CapacityInv'
  BY <1>1 DEF CapacityInv, Owned
<1>2. ASSUME NEW r \in Refs, NEW s \in Statuses \ {"absent"}, status[r] # "absent",
             status' = [status EXCEPT ![r] = s]
      PROVE CapacityInv'
  <2>1. \A a \in Accounts : Owned(a)' = Owned(a)
    BY <1>2 DEF Owned, IInv, TypeOK
  <2> QED
    BY <2>1 DEF CapacityInv
<1>3. ASSUME NEW r \in Refs, HasRoom(r), status[r] = "absent",
             status' = [status EXCEPT ![r] = "pending"]
      PROVE CapacityInv'
  <2>1. ASSUME NEW a \in Accounts
        PROVE Owned(a)' = IF a = r[1] THEN Owned(a) \cup {r} ELSE Owned(a)
    BY <1>3 DEF Owned, IInv, TypeOK
  <2> QED
    BY <1>3, <2>1, RecordKey
<1>4. ASSUME NEW c \in Callers, NEW r \in Refs, NEW q \in Requests, Request(c, r, q)
      PROVE CapacityInv'
  <2>1. UNCHANGED status
        \/ (HasRoom(r) /\ status[r] = "absent" /\ status' = [status EXCEPT ![r] = "pending"])
    BY <1>4 DEF Request, NewIntent, NewIntentUnsaved, CapacityReached, Conflict,
                ReplayTerminal, ReplayOrphan, Join, disk
  <2> QED
    BY <1>1, <1>3, <2>1
<1>5. ASSUME NEW r \in Refs, Finish(r) PROVE CapacityInv'
  <2>1. PICK v \in Verdicts : Resolve(r, v) \/ ResolveUnsaved(r, v)
    BY <1>5 DEF Finish
  <2>2. status[r] # "absent"
    BY <2>1 DEF Resolve, ResolveUnsaved, IInv, RunsInv
  <2>3. UNCHANGED status \/ status' = [status EXCEPT ![r] = v]
    BY <2>1 DEF Resolve, ResolveUnsaved
  <2>4. v \in Statuses \ {"absent"}
    BY DEF Verdicts, Statuses
  <2> QED
    BY <1>1, <1>2, <2>2, <2>3, <2>4
<1>6. ASSUME \/ \E r \in Refs : Act(r)
             \/ \E c \in Callers : Resume(c)
             \/ Crash
             \/ UNCHANGED vars
      PROVE CapacityInv'
  BY <1>1, <1>6 DEF Act, Resume, Crash, disk, vars
<1> QED
  BY <1>4, <1>5, <1>6 DEF Next

\* No account ever has more than MaxPerAccount records, however many keys its
\* clients try.
THEOREM CapacityRespected == Spec => []CapacityHeld
<1>1. Init => CapacityInv
  <2> SUFFICES ASSUME Init, NEW a \in Accounts
               PROVE IsFiniteSet(Owned(a)) /\ Cardinality(Owned(a)) <= MaxPerAccount
    BY DEF CapacityInv
  <2>1. Owned(a) = {}
    BY DEF Init, Owned
  <2> QED
    BY <2>1, FS_EmptySet, BoundAssumption
<1>2. CapacityInv => CapacityHeld
  BY DEF CapacityInv, CapacityHeld
<1> QED
  BY <1>1, <1>2, Inductive, NextCapacityInv, PTL DEF Spec

-----------------------------------------------------------------------------
(* Action properties                                                       *)

\* A key whose outcome was lost is never run again and never gets a verdict.
THEOREM OrphansClosed == Spec => OrphansStayClosed
<1>1. ASSUME TypeOK, [Next]_vars, NEW r \in Refs, Orphan(r)
      PROVE effects'[r] = effects[r] /\ Orphan(r)'
  <2> USE <1>1 DEF Orphan, TypeOK
  <2>1. ASSUME NEW c \in Callers, NEW s \in Refs, NEW q \in Requests, Request(c, s, q)
        PROVE effects'[r] = effects[r] /\ Orphan(r)'
    BY <2>1 DEF Request, NewIntent, NewIntentUnsaved, CapacityReached, Conflict,
                ReplayTerminal, ReplayOrphan, Join, disk
  <2>2. ASSUME NEW s \in Refs, Act(s) \/ Finish(s)
        PROVE effects'[r] = effects[r] /\ Orphan(r)'
    BY <2>2 DEF Act, Finish, Resolve, ResolveUnsaved, disk
  <2>3. ASSUME NEW c \in Callers, Resume(c)
        PROVE effects'[r] = effects[r] /\ Orphan(r)'
    BY <2>3 DEF Resume, disk
  <2>4. CASE Crash \/ UNCHANGED vars
    BY <2>4 DEF Crash, vars, disk
  <2> QED
    BY <2>1, <2>2, <2>3, <2>4 DEF Next
<1>2. TypeOK /\ [Next]_vars =>
        [\A r \in Refs : Orphan(r) => effects'[r] = effects[r] /\ Orphan(r)']_vars
  BY <1>1
<1> QED
  BY <1>2, TypeCorrect, PTL DEF Spec, OrphansStayClosed

\* A key never changes its request, nor a verdict once it has one.
THEOREM VerdictsAreFinal == Spec => VerdictsFinal
<1>1. ASSUME IInv, [Next]_vars, NEW r \in Refs
      PROVE /\ status[r] # "absent" => request'[r] = request[r]
            /\ status[r] \in Verdicts => status'[r] = status[r]
  <2> USE <1>1 DEF IInv, TypeOK, Verdicts
  <2>1. ASSUME NEW c \in Callers, NEW s \in Refs, NEW q \in Requests, Request(c, s, q)
        PROVE /\ status[r] # "absent" => request'[r] = request[r]
              /\ status[r] \in Verdicts => status'[r] = status[r]
    BY <2>1 DEF Request, NewIntent, NewIntentUnsaved, CapacityReached, Conflict,
                ReplayTerminal, ReplayOrphan, Join, disk
  <2>2. ASSUME NEW s \in Refs, Act(s) \/ Finish(s)
        PROVE /\ status[r] # "absent" => request'[r] = request[r]
              /\ status[r] \in Verdicts => status'[r] = status[r]
    BY <2>2 DEF Act, Finish, Resolve, ResolveUnsaved, RunsInv, disk
  <2>3. CASE (\E c \in Callers : Resume(c)) \/ Crash \/ UNCHANGED vars
    BY <2>3 DEF Resume, Crash, vars, disk
  <2> QED
    BY <2>1, <2>2, <2>3 DEF Next
<1>2. IInv /\ [Next]_vars =>
        [\A r \in Refs :
           /\ status[r] # "absent" => request'[r] = request[r]
           /\ status[r] \in Verdicts => status'[r] = status[r]]_vars
  BY <1>1
<1> QED
  BY <1>2, Inductive, PTL DEF Spec, VerdictsFinal

-----------------------------------------------------------------------------
(* The layer implements AtMostOnce                                         *)

\* Sending no new verdict changes nothing the abstract specification sees.
LEMMA SilentReply ==
  ASSUME NEW r \in Refs, NEW q \in Requests, NEW k \in Kinds, k \notin Verdicts, Answer(r, q, k)
  PROVE  \A s \in Refs : Told(s)' = Told(s)
BY DEF Answer, Told

\* Sending the verdict on record is the abstract Tell.
LEMMA VerdictReply ==
  ASSUME IInv, IInv', NEW r \in Refs, NEW q \in Requests, NEW k \in Verdicts,
         status[r] = k, request[r] = q, Answer(r, q, k),
         UNCHANGED <<status, request, effects>>
  PROVE  A!Tell(r, q, k)
<1>1. ASSUME NEW s \in Refs
      PROVE Told(s)' = IF s = r THEN Told(s) \cup {k} ELSE Told(s)
  <2> DEFINE m == [ref |-> r, request |-> q, kind |-> k]
  <2>1. \A v \in Verdicts :
          v \in Told(s)' <=> v \in Told(s) \/ (m.ref = s /\ m.kind = v)
    BY DEF Answer, Told
  <2>2. \A v \in Verdicts : v \in Told(s)' <=> v \in Told(s) \/ (s = r /\ v = k)
    BY <2>1
  <2>3. Told(s) \subseteq Verdicts /\ Told(s)' \subseteq Verdicts
    BY DEF Told
  <2> QED
    BY <2>2, <2>3
<1>2. Told(r) \subseteq {k}
  BY DEF Told, IInv, ReplyInv
<1>3. A!Truthful(k, effects[r])
  BY DEF A!Truthful, IInv, RecordInv
<1>4. Phase(r) = "settled"
  BY DEF Phase, Verdicts
<1>5. \A s \in Refs : Phase(s)' = Phase(s)
  BY DEF Phase
<1> DEFINE told == [s \in Refs |-> Told(s)]
<1>6. told' = [told EXCEPT ![r] = {k}]
  BY <1>1, <1>2
<1> QED
  BY <1>2, <1>3, <1>4, <1>5, <1>6 DEF A!Tell

\* Every step is a step of the abstract specification or a stutter.
LEMMA NextRefines == IInv /\ IInv' /\ [Next]_vars => [A!Next]_(A!vars)
<1> SUFFICES ASSUME IInv, IInv', [Next]_vars PROVE A!Next \/ UNCHANGED A!vars
  OBVIOUS
<1> DEFINE phase == [s \in Refs |-> Phase(s)]
<1> DEFINE told == [s \in Refs |-> Told(s)]
<1>1. ASSUME UNCHANGED <<status, request, effects>>,
             \A s \in Refs : Told(s)' = Told(s)
      PROVE UNCHANGED A!vars
  <2>1. \A s \in Refs : Phase(s)' = Phase(s)
    BY <1>1 DEF Phase
  <2>2. phase' = phase /\ told' = told
    BY <1>1, <2>1
  <2> QED
    BY <1>1, <2>2 DEF A!vars
<1>2. ASSUME UNCHANGED replies PROVE told' = told
  BY <1>2 DEF Told
<1>3. ASSUME NEW r \in Refs, NEW s \in Statuses,
             status' = [status EXCEPT ![r] = s]
      PROVE phase' = [phase EXCEPT ![r] =
              IF s = "absent" THEN "free" ELSE IF s = "pending" THEN "claimed" ELSE "settled"]
  BY <1>3 DEF Phase, IInv, TypeOK
<1>4. ASSUME NEW r \in Refs, NEW q \in Requests, status[r] = "absent",
             status' = [status EXCEPT ![r] = "pending"],
             request' = [request EXCEPT ![r] = q],
             UNCHANGED effects, told' = told
      PROVE A!Claim(r, q)
  <2>1. phase[r] = "free"
    BY <1>4 DEF Phase
  <2>2. phase' = [phase EXCEPT ![r] = "claimed"]
    BY <1>3, <1>4 DEF Statuses
  <2> QED
    BY <1>4, <2>1, <2>2 DEF A!Claim
<1>5. ASSUME NEW r \in Refs, NEW v \in Verdicts, status[r] = "pending",
             status' = [status EXCEPT ![r] = v],
             UNCHANGED <<request, effects, replies>>
      PROVE A!Settle(r)
  <2>1. phase[r] = "claimed"
    BY <1>5 DEF Phase
  <2>2. phase' = [phase EXCEPT ![r] = "settled"]
    BY <1>3, <1>5 DEF Statuses, Verdicts
  <2>3. told' = told
    BY <1>2, <1>5
  <2> QED
    BY <1>5, <2>1, <2>2, <2>3 DEF A!Settle
<1>6. ASSUME NEW c \in Callers, NEW r \in Refs, NEW q \in Requests, Request(c, r, q)
      PROVE A!Next \/ UNCHANGED A!vars
  <2>1. CASE NewIntent(c, r, q)
    BY <1>2, <1>4, <2>1 DEF NewIntent, A!Next
  <2>2. CASE NewIntentUnsaved(c, r, q)
    <3>1. \A s \in Refs : Told(s)' = Told(s)
      BY <2>2, SilentReply DEF NewIntentUnsaved, Kinds, Outcomes, Verdicts
    <3>2. CASE UNCHANGED disk
      BY <1>1, <2>2, <3>1, <3>2 DEF NewIntentUnsaved, disk
    <3>3. CASE /\ status' = [status EXCEPT ![r] = "pending"]
               /\ request' = [request EXCEPT ![r] = q]
      BY <1>4, <2>2, <3>1, <3>3 DEF NewIntentUnsaved, A!Next
    <3> QED
      BY <2>2, <3>2, <3>3 DEF NewIntentUnsaved
  <2>3. CASE CapacityReached(c, r, q) \/ Conflict(c, r, q) \/ ReplayOrphan(c, r, q)
    <3>1. PICK k \in Kinds \ Verdicts : Answer(r, q, k)
      BY <2>3 DEF CapacityReached, Conflict, ReplayOrphan, Kinds, Outcomes, Verdicts
    <3>2. UNCHANGED <<status, request, effects>>
      BY <2>3 DEF CapacityReached, Conflict, ReplayOrphan, disk
    <3> QED
      BY <1>1, <3>1, <3>2, SilentReply
  <2>4. CASE ReplayTerminal(c, r, q)
    <3>1. A!Tell(r, q, status[r])
      BY <2>4, VerdictReply DEF ReplayTerminal, disk
    <3> QED
      BY <2>4, <3>1 DEF ReplayTerminal, A!Next, A!Verdicts, Verdicts
  <2>5. CASE Join(c, r, q)
    BY <1>1, <2>5 DEF Join, disk, Told
  <2> QED
    BY <1>6, <2>1, <2>2, <2>3, <2>4, <2>5 DEF Request
<1>7. ASSUME NEW r \in Refs, Act(r) PROVE A!Next \/ UNCHANGED A!vars
  <2>1. phase[r] = "claimed" /\ effects[r] = 0
    BY <1>7 DEF Act, Phase, IInv, RunsInv
  <2>2. effects' = [effects EXCEPT ![r] = 1]
    BY <1>7, <2>1 DEF Act
  <2>3. phase' = phase
    BY <1>7 DEF Act, Phase, disk
  <2>4. A!Apply(r)
    BY <1>2, <1>7, <2>1, <2>2, <2>3 DEF Act, A!Apply, disk
  <2> QED
    BY <2>4 DEF A!Next
<1>8. ASSUME NEW r \in Refs, NEW v \in Verdicts, Resolve(r, v) \/ ResolveUnsaved(r, v)
      PROVE A!Next \/ UNCHANGED A!vars
  <2>1. status[r] = "pending" /\ UNCHANGED <<request, effects, replies>>
    BY <1>8 DEF Resolve, ResolveUnsaved, IInv, RunsInv
  <2>2. UNCHANGED status \/ status' = [status EXCEPT ![r] = v]
    BY <1>8 DEF Resolve, ResolveUnsaved
  <2>3. CASE UNCHANGED status
    BY <1>1, <2>1, <2>3 DEF Told
  <2>4. CASE status' = [status EXCEPT ![r] = v]
    BY <1>5, <2>1, <2>4 DEF A!Next
  <2> QED
    BY <2>2, <2>3, <2>4
<1>9. ASSUME NEW c \in Callers, Resume(c) PROVE A!Next \/ UNCHANGED A!vars
  <2> DEFINE r == call[c].ref
             q == call[c].request
             k == call[c].outcome
  <2>1. r \in Refs /\ q \in Requests /\ k \in Outcomes /\ Answer(r, q, k)
    BY <1>9 DEF Resume, IInv, TypeOK, CallInv
  <2>2. UNCHANGED <<status, request, effects>>
    BY <1>9 DEF Resume, disk
  <2>3. CASE k \in Verdicts
    <3>1. status[r] = k /\ request[r] = q
      BY <1>9, <2>3 DEF Resume, IInv, CallInv
    <3>2. A!Tell(r, q, k)
      BY <2>1, <2>2, <2>3, <3>1, VerdictReply
    <3> QED
      BY <2>1, <2>3, <3>2 DEF A!Next, A!Verdicts, Verdicts
  <2>4. CASE k \notin Verdicts
    BY <1>1, <2>1, <2>2, <2>4, SilentReply DEF Kinds
  <2> QED
    BY <2>3, <2>4
<1>10. CASE Crash \/ UNCHANGED vars
  BY <1>1, <1>10 DEF Crash, vars, disk, Told
<1> QED
  BY <1>6, <1>7, <1>8, <1>9, <1>10 DEF Next, Finish

\* The idempotency layer implements the abstract promise.
THEOREM ImplementsAtMostOnce == Spec => Implements
<1>1. Init => A!Init
  <2> SUFFICES ASSUME Init PROVE A!Init
    OBVIOUS
  <2>1. \A r \in Refs : Phase(r) = "free" /\ Told(r) = {}
    BY DEF Init, Phase, Told
  <2> QED
    BY <2>1 DEF Init, A!Init
<1> QED
  BY <1>1, NextRefines, Inductive, PTL DEF Spec, Implements, A!Spec

\* What callers are told and what was done agree (lib/execution-intents.js).
THEOREM EffectsAndReplies == Spec => []EffectsMatchReplies
BY RepliesTruthful, EffectsAtMostOnce, PTL DEF EffectsMatchReplies

-----------------------------------------------------------------------------
(* RuntimeWatch: the relay of heartbeats and the desk of incidents         *)

\* The two halves of WatchTypeOK: the relay of heartbeats and the desk of incidents.
RelayTypeOK ==
  /\ runtime \in [session : 0..MaxBeats, seq : 0..MaxBeats, beat : Beats \cup {None},
                  state : {"ready", "draining"}, age : DOMAIN Later, checkpoint : Nat]
  /\ Enrolled => /\ runtime.beat \in Beats /\ runtime.state = runtime.beat.state
                 /\ runtime.session = runtime.beat.session /\ runtime.seq = runtime.beat.seq
  /\ file \in [Supervisors -> [session : 0..MaxBeats, pending : Beats \cup {None}]]
  /\ \A s \in Supervisors :
       cycle[s].at \in {"sent", "answered"} => file[s].pending # None
  /\ late \subseteq issued /\ issued \subseteq Beats

Incident == [ref : Nat \ {0}, status : {"open", "recovery-detected"},
             count : 1..RECOVERY_FAILURE_QUARANTINE_THRESHOLD,
             acked : BOOLEAN, quarantined : BOOLEAN, recent : BOOLEAN]

DeskTypeOK ==
  /\ incidents \in [Categories -> Seq(Incident)]
  /\ \A c \in Categories : \A m, n \in DOMAIN incidents[c] :
       incidents[c][m].ref = incidents[c][n].ref => m = n
  /\ {quarantine, torn} \subseteq SUBSET (Categories \X Nat)

\* What a supervisor may still send belongs to it alone: the session it settled
\* and the session of its pending heartbeat.
Sessions == {b.session : b \in issued}
Held(s) == ({file[s].session} \ {0}) \cup {b.session : b \in {file[s].pending} \ {None}}

\* The lease is the last heartbeat it accepted.
LeaseInv ==
  /\ runtime.checkpoint = Len(applied)
  /\ Enrolled <=> applied # <<>>
  /\ Enrolled => runtime.beat = applied[Len(applied)]

\* A session enters the history with its first heartbeat, which names the place
\* where it enters, and no heartbeat is numbered higher than its place.
LineInv ==
  /\ applied \in Seq(Beats) /\ ToSet(applied) \subseteq issued
  /\ \A i \in DOMAIN applied :
       /\ applied[i].seq <= i
       /\ \E j \in 1..i : /\ applied[j].session = applied[i].session
                          /\ applied[j].seq = 1 /\ applied[j].resume = j - 1

\* A heartbeat is numbered after one that was accepted, and before the first of
\* all is accepted none names a checkpoint.
BeatsInv ==
  /\ IsFiniteSet(issued) /\ Cardinality(issued) <= MaxBeats
  /\ Sessions = 1..Cardinality(Sessions)
  /\ \A b \in issued :
       /\ b.seq > 1 => \E i \in DOMAIN applied : /\ applied[i].session = b.session
                                                 /\ applied[i].seq = b.seq - 1
       /\ ~Enrolled => b.resume = 0

\* A pending heartbeat is the newest of its session.
FilesInv ==
  /\ \A s \in Supervisors : Held(s) \subseteq Sessions
  /\ \A s, t \in Supervisors : s # t => Held(s) \cap Held(t) = {}
  /\ \A s \in Supervisors : file[s].pending # None =>
       /\ file[s].pending \in issued
       /\ \A b \in issued : b.session = file[s].pending.session => b.seq <= file[s].pending.seq

\* A status is a place of the history, however old; a supervisor with nothing
\* pending that reads its own session reads the last heartbeat it ever sent in it.
StatusInv(s) ==
  LET remote == cycle[s].remote IN
  cycle[s].at = "asked" /\ remote.session # 0 =>
    /\ remote.checkpoint \in DOMAIN applied
    /\ applied[remote.checkpoint].session = remote.session
    /\ applied[remote.checkpoint].seq = remote.seq
    /\ file[s].pending = None /\ remote.session = file[s].session =>
         \A b \in issued : b.session = remote.session => b.seq <= remote.seq

CyclesInv ==
  /\ cycle = [s \in Supervisors |-> cycle[s]]
  /\ \A s \in Supervisors :
       /\ StatusInv(s)
       /\ cycle[s].at = "answered" => file[s].pending \in ToSet(applied)

RelayInv == /\ RelayTypeOK /\ LeaseInv /\ LineInv /\ BeatsInv /\ FilesInv /\ CyclesInv
            /\ HistoryIsOneLine /\ WriteAheadIsExact

-----------------------------------------------------------------------------
(* The history of the lease                                                *)

LEMMA AppendedTo ==
  ASSUME NEW S, NEW q \in Seq(S), NEW x \in S
  PROVE  /\ Append(q, x) \in Seq(S) /\ Len(Append(q, x)) = Len(q) + 1
         /\ DOMAIN q = 1..Len(q) /\ DOMAIN Append(q, x) = 1..(Len(q) + 1)
         /\ \A i \in 1..Len(q) : Append(q, x)[i] = q[i]
         /\ Append(q, x)[Len(q) + 1] = x
         /\ Len(q) \in Nat /\ Append(q, x) # <<>>
         /\ ToSet(Append(q, x)) = ToSet(q) \cup {x}
<1>1. /\ Append(q, x) \in Seq(S) /\ Len(Append(q, x)) = Len(q) + 1
      /\ DOMAIN q = 1..Len(q) /\ DOMAIN Append(q, x) = 1..(Len(q) + 1)
      /\ \A i \in 1..Len(q) : Append(q, x)[i] = q[i]
      /\ Append(q, x)[Len(q) + 1] = x
      /\ Len(q) \in Nat /\ Append(q, x) # <<>>
  OBVIOUS
<1>2. ToSet(Append(q, x)) = ToSet(q) \cup {x}
  BY <1>1 DEF ToSet
<1> QED
  BY <1>1, <1>2

\* The heartbeats of a session are numbered upwards in the history, so that the
\* last of the session in charge has the highest number.
LEMMA LastIsLatest ==
  ASSUME RelayTypeOK, LeaseInv, LineInv, HistoryIsOneLine, Enrolled
  PROVE  /\ Len(applied) \in DOMAIN applied
         /\ \A i \in DOMAIN applied :
              applied[i].session = runtime.session =>
                /\ applied[i].seq <= runtime.seq
                /\ \A k \in i..Len(applied) : applied[k].session = runtime.session
<1>1. applied \in Seq(Beats) /\ applied # <<>>
  BY DEF LeaseInv, LineInv
<1>2. Len(applied) \in DOMAIN applied /\ DOMAIN applied = 1..Len(applied) /\ Len(applied) \in Nat
  BY <1>1
<1>3. /\ applied[Len(applied)] = runtime.beat /\ runtime.beat \in Beats
      /\ runtime.session = runtime.beat.session /\ runtime.seq = runtime.beat.seq
  BY DEF LeaseInv, RelayTypeOK
<1>4. ASSUME NEW i \in DOMAIN applied, applied[i].session = runtime.session
      PROVE  /\ applied[i].seq <= runtime.seq
             /\ \A k \in i..Len(applied) : applied[k].session = runtime.session
  <2>1. applied[i] \in Beats /\ i \in 1..Len(applied)
    BY <1>1, <1>2, <1>4
  <2>2. CASE i = Len(applied)
    BY <1>2, <1>3, <2>1, <2>2 DEF Beats
  <2>3. CASE i < Len(applied)
    <3>1. /\ applied[i].seq < applied[Len(applied)].seq
          /\ \A k \in i..Len(applied) : applied[k].session = applied[i].session
      BY <1>2, <1>3, <1>4, <2>3 DEF HistoryIsOneLine
    <3> QED
      BY <1>3, <1>4, <2>1, <3>1 DEF Beats
  <2> QED
    BY <1>2, <2>1, <2>2, <2>3
<1> QED
  BY <1>2, <1>4

\* A renewal is the next of its session: what is numbered further was composed
\* after a renewal the lease would have to have accepted.
LEMMA RenewalIsNext ==
  ASSUME RelayTypeOK, LeaseInv, LineInv, BeatsInv, HistoryIsOneLine,
         NEW b \in issued, Renews(b)
  PROVE  b.seq = runtime.seq + 1
<1>1. b \in Beats /\ Enrolled /\ runtime.beat \in Beats /\ runtime.seq = runtime.beat.seq
  BY DEF RelayTypeOK, Renews
<1>2. b.seq > 1
  BY <1>1 DEF Renews, Beats
<1>3. PICK i \in DOMAIN applied : applied[i].session = b.session /\ applied[i].seq = b.seq - 1
  BY <1>2 DEF BeatsInv
<1>4. applied[i].seq <= runtime.seq
  BY <1>1, <1>3, LastIsLatest DEF Renews
<1> QED
  BY <1>1, <1>3, <1>4 DEF Renews, Beats

\* A session that enrols or takes over is new to the history: its first heartbeat
\* names the end of the history, and is not there already.
LEMMA NewcomerIsNew ==
  ASSUME RelayTypeOK, LeaseInv, LineInv, BeatsInv, WriteAheadIsExact,
         NEW b \in issued, Enrols(b) \/ Recovers(b)
  PROVE  /\ b.seq = 1 /\ b.resume = Len(applied)
         /\ \A i \in DOMAIN applied : applied[i].session # b.session
<1>1. applied \in Seq(Beats) /\ DOMAIN applied = 1..Len(applied) /\ Len(applied) \in Nat
  BY DEF LineInv
<1>2. CASE Enrols(b)
  <2>1. applied = <<>> /\ b.resume = 0 /\ b.seq = 1
    BY <1>2 DEF Enrols, LeaseInv, BeatsInv
  <2> QED
    BY <1>1, <2>1
<1>3. CASE Recovers(b)
  <2>1. b.seq = 1 /\ b.resume = Len(applied)
    BY <1>3 DEF Recovers, LeaseInv
  <2>2. ASSUME NEW i \in DOMAIN applied, applied[i].session = b.session
        PROVE  FALSE
    <3>1. PICK j \in 1..i : /\ applied[j].session = b.session
                            /\ applied[j].seq = 1 /\ applied[j].resume = j - 1
      BY <2>2 DEF LineInv
    <3>2. j \in DOMAIN applied /\ j <= Len(applied)
      BY <1>1, <2>2, <3>1
    <3>3. applied[j] \in issued
      BY <3>2 DEF LineInv, ToSet
    <3>4. applied[j] = b
      BY <2>1, <3>1, <3>3 DEF WriteAheadIsExact
    <3> QED
      BY <1>1, <2>1, <3>1, <3>2, <3>4
  <2> QED
    BY <2>1, <2>2
<1> QED
  BY <1>2, <1>3

\* A heartbeat the lease accepts extends the one line.
LEMMA AcceptExtends ==
  ASSUME RelayInv, NEW b \in issued, Accepted(b),
         runtime' = Renewed(b), applied' = Append(applied, b), issued' = issued
  PROVE  LeaseInv' /\ LineInv' /\ BeatsInv' /\ HistoryIsOneLine'
<1> DEFINE n == Len(applied)
<1>1. /\ RelayTypeOK /\ LeaseInv /\ LineInv /\ BeatsInv /\ HistoryIsOneLine /\ WriteAheadIsExact
      /\ b \in Beats /\ applied \in Seq(Beats)
  BY DEF RelayInv, RelayTypeOK, LineInv
<1>2. /\ applied' \in Seq(Beats) /\ Len(applied') = n + 1 /\ n \in Nat /\ applied' # <<>>
      /\ DOMAIN applied = 1..n /\ DOMAIN applied' = 1..(n + 1)
      /\ \A i \in 1..n : applied'[i] = applied[i]
      /\ applied'[n + 1] = b
      /\ ToSet(applied') = ToSet(applied) \cup {b}
  BY <1>1, AppendedTo
<1>3. /\ runtime'.session = b.session /\ runtime'.seq = b.seq /\ runtime'.beat = b
      /\ runtime'.checkpoint = n + 1
  BY <1>1 DEF Renewed, LeaseInv
<1>4. Enrolled'
  BY <1>1, <1>3 DEF Enrolled, Beats
<1>5. LeaseInv'
  BY <1>2, <1>3, <1>4 DEF LeaseInv
<1>6. BeatsInv'
  <2>1. IsFiniteSet(issued') /\ Cardinality(issued') <= MaxBeats /\ Sessions' = 1..Cardinality(Sessions')
    BY <1>1 DEF BeatsInv, Sessions
  <2>2. ASSUME NEW d \in issued', d.seq > 1
        PROVE  \E i \in DOMAIN applied' : applied'[i].session = d.session /\ applied'[i].seq = d.seq - 1
    <3>1. PICK i \in DOMAIN applied : applied[i].session = d.session /\ applied[i].seq = d.seq - 1
      BY <1>1, <2>2 DEF BeatsInv
    <3> QED
      BY <1>2, <3>1
  <2> QED
    BY <1>4, <2>1, <2>2 DEF BeatsInv
<1>7. Accepted(b) => Renews(b) \/ Enrols(b) \/ Recovers(b)
  BY DEF Accepted
<1>8. CASE Renews(b)
  <2>1. /\ b.seq = runtime.seq + 1 /\ n \in 1..n /\ runtime.session = b.session /\ Enrolled
        /\ \A i \in 1..n : applied[i].session = b.session =>
             applied[i].seq <= runtime.seq /\ \A k \in i..n : applied[k].session = b.session
    BY <1>1, <1>2, <1>8, RenewalIsNext, LastIsLatest DEF Renews
  <2>2. /\ applied[n].session = b.session /\ applied[n].seq = runtime.seq
    BY <1>1, <2>1 DEF LeaseInv, RelayTypeOK
  <2>3. LineInv'
    <3>1. PICK j \in 1..n : /\ applied[j].session = applied[n].session
                            /\ applied[j].seq = 1 /\ applied[j].resume = j - 1
      BY <1>1, <1>2, <2>1 DEF LineInv
    <3>2. applied[n].seq <= n
      BY <1>1, <1>2, <2>1 DEF LineInv
    <3>3. ASSUME NEW i \in 1..(n + 1)
          PROVE  /\ applied'[i].seq <= i
                 /\ \E k \in 1..i : /\ applied'[k].session = applied'[i].session
                                    /\ applied'[k].seq = 1 /\ applied'[k].resume = k - 1
      <4>1. CASE i = n + 1
        <5>1. runtime.seq <= n /\ runtime.seq \in Nat
          BY <1>1, <2>2, <3>2 DEF RelayTypeOK
        <5>2. b.seq <= n + 1
          BY <1>2, <2>1, <5>1
        <5>3. applied'[i].seq <= i
          BY <1>2, <4>1, <5>2
        <5>4. j \in 1..i /\ applied'[j] = applied[j]
          BY <1>2, <4>1
        <5> QED
          BY <1>2, <2>2, <3>1, <4>1, <5>3, <5>4
      <4>2. CASE i \in 1..n
        <5>1. PICK k \in 1..i : /\ applied[k].session = applied[i].session
                                /\ applied[k].seq = 1 /\ applied[k].resume = k - 1
          BY <1>1, <1>2, <4>2 DEF LineInv
        <5>2. k \in 1..n /\ applied[i].seq <= i
          BY <1>1, <1>2, <4>2 DEF LineInv
        <5> QED
          BY <1>2, <4>2, <5>1, <5>2
      <4> QED
        BY <1>2, <4>1, <4>2
    <3> QED
      BY <1>1, <1>2, <3>3 DEF LineInv
  <2>4. HistoryIsOneLine'
    <3>1. ASSUME NEW i \in 1..(n + 1), NEW j \in 1..(n + 1), i < j,
                 applied'[i].session = applied'[j].session
          PROVE  /\ applied'[i].seq < applied'[j].seq
                 /\ \A k \in i..j : applied'[k].session = applied'[i].session
      <4>1. CASE j = n + 1
        <5>1. i \in 1..n /\ applied[i].session = b.session
          BY <1>2, <3>1, <4>1
        <5>2. applied[i].seq <= runtime.seq /\ \A k \in i..n : applied[k].session = b.session
          BY <2>1, <5>1
        <5>3. applied[i] \in Beats /\ runtime.seq \in Nat
          BY <1>1, <5>1 DEF RelayTypeOK
        <5>4. \A k \in i..j : k = n + 1 \/ (k \in i..n /\ k \in 1..n)
          BY <1>2, <4>1, <5>1
        <5>5. applied'[j] = b /\ applied'[i] = applied[i]
          BY <1>2, <4>1, <5>1
        <5>6. applied[i].seq < b.seq
          BY <2>1, <5>2, <5>3 DEF Beats
        <5>7. ASSUME NEW k \in i..j PROVE applied'[k].session = b.session
          BY <1>2, <5>2, <5>4
        <5> QED
          BY <5>1, <5>5, <5>6, <5>7
      <4>2. CASE j \in 1..n
        <5>1. i \in 1..n /\ \A k \in i..j : k \in 1..n
          BY <1>2, <3>1, <4>2
        <5>2. /\ applied[i].seq < applied[j].seq
              /\ \A k \in i..j : applied[k].session = applied[i].session
          BY <1>1, <1>2, <3>1, <4>2, <5>1 DEF HistoryIsOneLine
        <5> QED
          BY <1>2, <4>2, <5>1, <5>2
      <4> QED
        BY <1>2, <4>1, <4>2
    <3>2. ASSUME NEW i \in 2..(n + 1), applied'[i].session # applied'[i - 1].session
          PROVE  applied'[i].seq = 1 /\ applied'[i].resume = i - 1
      <4>1. i \in 2..n
        BY <1>2, <2>1, <2>2, <3>2
      <4>2. i \in 1..n /\ i # 1 /\ i - 1 \in 1..n
        BY <1>2, <4>1
      <4> QED
        BY <1>1, <1>2, <3>2, <4>2 DEF HistoryIsOneLine
    <3>3. \A i \in DOMAIN applied' \ {1} : i \in 2..(n + 1)
      BY <1>2
    <3> QED
      BY <1>2, <1>3, <3>1, <3>2, <3>3 DEF HistoryIsOneLine
  <2> QED
    BY <1>5, <1>6, <2>3, <2>4
<1>9. CASE Enrols(b) \/ Recovers(b)
  <2>1. /\ b.seq = 1 /\ b.resume = n
        /\ \A i \in 1..n : applied[i].session # b.session
    BY <1>1, <1>2, <1>9, NewcomerIsNew
  <2>2. LineInv'
    <3>1. ASSUME NEW i \in 1..(n + 1)
          PROVE  /\ applied'[i].seq <= i
                 /\ \E k \in 1..i : /\ applied'[k].session = applied'[i].session
                                    /\ applied'[k].seq = 1 /\ applied'[k].resume = k - 1
      <4>1. CASE i = n + 1
        <5>1. i \in 1..i /\ i - 1 = n /\ 1 <= i
          BY <1>2, <4>1
        <5> QED
          BY <1>2, <2>1, <4>1, <5>1
      <4>2. CASE i \in 1..n
        <5>1. PICK k \in 1..i : /\ applied[k].session = applied[i].session
                                /\ applied[k].seq = 1 /\ applied[k].resume = k - 1
          BY <1>1, <1>2, <4>2 DEF LineInv
        <5>2. k \in 1..n /\ applied[i].seq <= i
          BY <1>1, <1>2, <4>2 DEF LineInv
        <5> QED
          BY <1>2, <4>2, <5>1, <5>2
      <4> QED
        BY <1>2, <4>1, <4>2
    <3> QED
      BY <1>1, <1>2, <3>1 DEF LineInv
  <2>3. HistoryIsOneLine'
    <3>1. ASSUME NEW i \in 1..(n + 1), NEW j \in 1..(n + 1), i < j,
                 applied'[i].session = applied'[j].session
          PROVE  /\ applied'[i].seq < applied'[j].seq
                 /\ \A k \in i..j : applied'[k].session = applied'[i].session
      <4>1. j \in 1..n /\ i \in 1..n
        BY <1>2, <2>1, <3>1
      <4>2. \A k \in i..j : k \in 1..n
        BY <1>2, <4>1
      <4>3. /\ applied[i].seq < applied[j].seq
            /\ \A k \in i..j : applied[k].session = applied[i].session
        BY <1>1, <1>2, <3>1, <4>1 DEF HistoryIsOneLine
      <4> QED
        BY <1>2, <4>1, <4>2, <4>3
    <3>2. ASSUME NEW i \in 2..(n + 1), applied'[i].session # applied'[i - 1].session
          PROVE  applied'[i].seq = 1 /\ applied'[i].resume = i - 1
      <4>1. CASE i = n + 1
        BY <1>2, <2>1, <4>1
      <4>2. CASE i \in 2..n
        <5>1. i \in 1..n /\ i # 1 /\ i - 1 \in 1..n
          BY <1>2, <4>2
        <5> QED
          BY <1>1, <1>2, <3>2, <5>1 DEF HistoryIsOneLine
      <4> QED
        BY <1>2, <4>1, <4>2
    <3>3. \A i \in DOMAIN applied' \ {1} : i \in 2..(n + 1)
      BY <1>2
    <3> QED
      BY <1>2, <1>3, <3>1, <3>2, <3>3 DEF HistoryIsOneLine
  <2> QED
    BY <1>5, <1>6, <2>2, <2>3
<1> QED
  BY <1>7, <1>8, <1>9

\* An accepted heartbeat does not overtake what its supervisor still has to settle.
LEMMA AcceptIsWrittenAhead ==
  ASSUME RelayInv, NEW b \in issued, Accepted(b),
         runtime' = Renewed(b), applied' = Append(applied, b), issued' = issued, file' = file
  PROVE  WriteAheadIsExact'
<1>1. /\ RelayTypeOK /\ LeaseInv /\ LineInv /\ BeatsInv /\ FilesInv /\ HistoryIsOneLine
      /\ WriteAheadIsExact /\ b \in Beats /\ applied \in Seq(Beats)
  BY DEF RelayInv, RelayTypeOK, LineInv
<1>2. ToSet(applied') = ToSet(applied) \cup {b} /\ DOMAIN applied = 1..Len(applied)
  BY <1>1, AppendedTo
<1>3. runtime'.session = b.session /\ runtime'.seq = b.seq /\ runtime'.beat = b
  BY DEF Renewed
<1>4. ASSUME NEW s \in Supervisors, file[s].pending # None, file[s].pending.session = b.session
      PROVE  file[s].pending = b
  <2> DEFINE p == file[s].pending
  <2>1. p \in issued /\ p \in Beats /\ b.seq <= p.seq
    BY <1>1, <1>4 DEF FilesInv, RelayTypeOK
  <2>2. CASE Renews(b)
    <3>1. runtime.session = p.session /\ Enrolled /\ b.seq = runtime.seq + 1
      BY <1>1, <1>4, <2>2, RenewalIsNext DEF Renews
    <3>2. runtime.beat = p \/ runtime.seq + 1 = p.seq
      BY <1>1, <1>4, <3>1 DEF WriteAheadIsExact
    <3>3. runtime.beat # p
      BY <1>1, <2>1, <3>1 DEF RelayTypeOK, Beats
    <3> QED
      BY <1>1, <1>4, <2>1, <3>1, <3>2, <3>3 DEF WriteAheadIsExact
  <2>3. CASE Enrols(b) \/ Recovers(b)
    <3>1. b.seq = 1 /\ \A i \in DOMAIN applied : applied[i].session # b.session
      BY <1>1, <2>3, NewcomerIsNew
    <3>2. ~(p.seq > 1)
      BY <1>1, <1>4, <2>1, <3>1 DEF BeatsInv
    <3>3. p.seq = 1
      BY <2>1, <3>2 DEF Beats
    <3> QED
      BY <1>1, <1>4, <2>1, <3>1, <3>3 DEF WriteAheadIsExact
  <2> QED
    BY <2>2, <2>3 DEF Accepted
<1> QED
  BY <1>1, <1>2, <1>3, <1>4 DEF WriteAheadIsExact

\* Supervisors that keep their file and their place, or leave it, keep CyclesInv.
LEMMA CyclesKept ==
  ASSUME CyclesInv, issued' = issued,
         DOMAIN applied \subseteq DOMAIN applied',
         \A i \in DOMAIN applied : applied'[i] = applied[i],
         cycle' = [s \in Supervisors |-> cycle'[s]],
         \A s \in Supervisors :
           \/ cycle'[s] = cycle[s] /\ file'[s] = file[s]
           \/ /\ cycle'[s].at # "asked"
              /\ cycle'[s].at = "answered" => file'[s].pending \in ToSet(applied')
  PROVE  CyclesInv'
<1>1. ToSet(applied) \subseteq ToSet(applied')
  BY DEF ToSet
<1>2. ASSUME NEW s \in Supervisors
      PROVE  /\ StatusInv(s)'
             /\ cycle'[s].at = "answered" => file'[s].pending \in ToSet(applied')
  <2>1. CASE cycle'[s] = cycle[s] /\ file'[s] = file[s]
    BY <1>1, <2>1 DEF CyclesInv, StatusInv
  <2>2. CASE /\ cycle'[s].at # "asked"
             /\ cycle'[s].at = "answered" => file'[s].pending \in ToSet(applied')
    BY <2>2 DEF StatusInv
  <2> QED
    BY <2>1, <2>2
<1> QED
  BY <1>2 DEF CyclesInv

\* A request that reaches the server, whoever still waits for it.
LEMMA AcceptKeepsRelay ==
  ASSUME RelayInv, NEW b \in issued, Accepted(b),
         runtime' = Renewed(b), applied' = Append(applied, b),
         issued' = issued, file' = file, late' \subseteq late,
         cycle' = [s \in Supervisors |-> cycle'[s]],
         \A s \in Supervisors :
           \/ cycle'[s] = cycle[s]
           \/ cycle'[s].at = "idle"
           \/ cycle'[s].at = "answered" /\ file[s].pending = b /\ b # None
  PROVE  RelayInv'
<1>1. /\ RelayTypeOK /\ LeaseInv /\ CyclesInv /\ FilesInv /\ b \in Beats /\ applied \in Seq(Beats)
  BY DEF RelayInv, RelayTypeOK, LineInv
<1>2. /\ DOMAIN applied = 1..Len(applied) /\ DOMAIN applied' = 1..(Len(applied) + 1)
      /\ \A i \in 1..Len(applied) : applied'[i] = applied[i]
      /\ ToSet(applied') = ToSet(applied) \cup {b} /\ Len(applied) \in Nat
  BY <1>1, AppendedTo
<1>3. LeaseInv' /\ LineInv' /\ BeatsInv' /\ HistoryIsOneLine' /\ WriteAheadIsExact'
  BY AcceptExtends, AcceptIsWrittenAhead
<1>4. RelayTypeOK'
  <2>1. runtime' \in [session : 0..MaxBeats, seq : 0..MaxBeats, beat : Beats \cup {None},
                      state : {"ready", "draining"}, age : DOMAIN Later, checkpoint : Nat]
    <3>1. "ready" \in DOMAIN Later /\ runtime.checkpoint + 1 \in Nat
      BY <1>1 DEF Later, RelayTypeOK
    <3>2. /\ b.session \in 0..MaxBeats /\ b.seq \in 0..MaxBeats /\ b.state \in {"ready", "draining"}
      BY <1>1, RuntimeConstants DEF Beats
    <3> QED
      BY <1>1, <3>1, <3>2 DEF Renewed
  <2>2. /\ runtime'.beat = b /\ runtime'.state = b.state
        /\ runtime'.session = b.session /\ runtime'.seq = b.seq
    BY DEF Renewed
  <2>3. \A s \in Supervisors : cycle'[s].at \in {"sent", "answered"} => file'[s].pending # None
    BY <1>1 DEF RelayTypeOK
  <2> QED
    BY <1>1, <2>1, <2>2, <2>3 DEF RelayTypeOK
<1>5. FilesInv'
  BY <1>1 DEF FilesInv, Held, Sessions
<1>6. CyclesInv'
  BY <1>1, <1>2, CyclesKept
<1> QED
  BY <1>3, <1>4, <1>5, <1>6 DEF RelayInv

-----------------------------------------------------------------------------
(* The supervisors                                                         *)

\* The history fits in what was issued, and there is a session for the next.
LEMMA HistoryFits ==
  ASSUME LineInv, BeatsInv, HistoryIsOneLine
  PROVE  Len(applied) \in Nat /\ Len(applied) <= Cardinality(issued) /\ Cardinality(issued) \in Nat
<1> DEFINE n == Len(applied)
<1>1. /\ applied \in Seq(Beats) /\ DOMAIN applied = 1..n /\ n \in Nat
      /\ \A i \in 1..n : applied[i] \in issued
  BY DEF LineInv, ToSet
<1>2. IsFiniteSet(issued) /\ Cardinality(issued) \in Nat
  BY FS_CardinalityType DEF BeatsInv
<1>3. IsFiniteSet(1..n) /\ Cardinality(1..n) = n
  BY <1>1, FS_Interval
<1>4. applied \in [1..n -> issued]
  BY <1>1
<1>5. ASSUME Cardinality(issued) < n
      PROVE  FALSE
  <2>1. Cardinality(issued) < Cardinality(1..n)
    BY <1>3, <1>5
  <2>2. PICK i \in 1..n, j \in 1..n : i # j /\ applied[i] = applied[j]
    BY <1>2, <1>3, <1>4, <2>1, FS_PigeonHole
  <2>3. i < j \/ j < i
    BY <1>1, <2>2
  <2>4. applied[i].seq < applied[j].seq \/ applied[j].seq < applied[i].seq
    BY <1>1, <2>2, <2>3 DEF HistoryIsOneLine
  <2>5. applied[i] \in Beats
    BY <1>1, <2>2
  <2>6. applied[i].seq \in Nat
    BY <2>5, RuntimeConstants DEF Beats
  <2> QED
    BY <2>2, <2>4, <2>6
<1> QED
  BY <1>1, <1>2, <1>5

LEMMA SessionsFit ==
  ASSUME BeatsInv
  PROVE  /\ Cardinality(Sessions) \in Nat /\ Cardinality(issued) \in Nat
         /\ Cardinality(Sessions) <= Cardinality(issued)
         /\ FreshSession = Cardinality(Sessions) + 1
         /\ FreshSession \notin Sessions /\ 0 \notin Sessions
<1> DEFINE of == [b \in issued |-> b.session]
<1>1. IsFiniteSet(issued) /\ Sessions = 1..Cardinality(Sessions)
  BY DEF BeatsInv
<1>2. of \in Surjection(issued, Sessions)
  BY DEF Surjection, Sessions
<1>3. IsFiniteSet(Sessions) /\ Cardinality(Sessions) <= Cardinality(issued)
  BY <1>1, <1>2, FS_Surjection
<1>4. Cardinality(Sessions) \in Nat /\ Cardinality(issued) \in Nat
  BY <1>1, <1>3, FS_CardinalityType
<1>5. FreshSession = Cardinality(Sessions) + 1
  BY DEF FreshSession, Sessions
<1>6. Cardinality(Sessions) + 1 \notin 1..Cardinality(Sessions) /\ 0 \notin 1..Cardinality(Sessions)
  BY <1>4
<1> QED
  BY <1>1, <1>3, <1>4, <1>5, <1>6

\* What a supervisor writes ahead is the newest of its session, continues the
\* lease if that is its own, and is in a session nobody else holds.
LEMMA NextIsNewest ==
  ASSUME RelayInv, NEW s \in Supervisors,
         cycle[s].at = "asked", file[s].pending = None, Cardinality(issued) < MaxBeats,
         NEW state \in {"ready", "draining"},
         NEW b \in HeartbeatFor(s, cycle[s].remote, state)
  PROVE  /\ b \in Beats
         /\ \A d \in issued : d.session = b.session => d.seq < b.seq
         /\ b.session \in Sessions \/ b.session = FreshSession
         /\ \A t \in Supervisors \ {s} : b.session \notin Held(t)
         /\ b.seq > 1 => \E i \in DOMAIN applied : /\ applied[i].session = b.session
                                                   /\ applied[i].seq = b.seq - 1
         /\ ~Enrolled => b.resume = 0
         /\ b.session = runtime.session => runtime.seq + 1 = b.seq
<1> DEFINE r == cycle[s].remote
<1>1. /\ RelayTypeOK /\ LeaseInv /\ LineInv /\ BeatsInv /\ FilesInv /\ HistoryIsOneLine
      /\ StatusInv(s) /\ applied \in Seq(Beats) /\ DOMAIN applied = 1..Len(applied)
  BY DEF RelayInv, CyclesInv, LineInv
<1>2. /\ Len(applied) \in Nat /\ Len(applied) < MaxBeats /\ MaxBeats \in Nat
      /\ FreshSession \in 1..MaxBeats /\ FreshSession \notin Sessions
  BY <1>1, HistoryFits, SessionsFit, RuntimeConstants
<1>3. \A d \in issued : d \in Beats /\ d.session \in Sessions
  BY <1>1 DEF RelayTypeOK, Sessions
<1>4. ASSUME r.session # 0
      PROVE  /\ r.checkpoint \in 1..Len(applied) /\ applied[r.checkpoint] \in Beats
             /\ applied[r.checkpoint] \in issued
             /\ applied[r.checkpoint].session = r.session
             /\ applied[r.checkpoint].seq = r.seq /\ r.seq <= r.checkpoint
             /\ r.session = file[s].session =>
                  \A d \in issued : d.session = r.session => d.seq <= r.seq
             /\ Enrolled
  <2>1. /\ r.checkpoint \in DOMAIN applied
        /\ applied[r.checkpoint].session = r.session
        /\ applied[r.checkpoint].seq = r.seq
        /\ r.session = file[s].session =>
             \A d \in issued : d.session = r.session => d.seq <= r.seq
    BY <1>1, <1>4 DEF StatusInv
  <2>2. applied[r.checkpoint] \in issued /\ r.seq <= r.checkpoint
    BY <1>1, <2>1 DEF LineInv, ToSet
  <2>3. applied # <<>>
    BY <1>1, <2>1
  <2> QED
    BY <1>1, <2>1, <2>2, <2>3 DEF LeaseInv
<1>5. ASSUME NEW resume \in 0..MaxBeats, ~Enrolled => resume = 0,
             b = [session |-> FreshSession, seq |-> 1, resume |-> resume, state |-> state]
      PROVE  /\ b \in Beats /\ b.seq = 1 /\ b.resume = resume /\ b.session = FreshSession
             /\ \A d \in issued : d.session # b.session
             /\ \A t \in Supervisors : b.session \notin Held(t)
             /\ runtime.session # b.session
  <2>1. /\ b.seq = 1 /\ b.resume = resume /\ b.session = FreshSession
        /\ b \in [session : 1..MaxBeats, seq : 1..MaxBeats, resume : 0..MaxBeats,
                  state : {"ready", "draining"}]
    BY <1>2, <1>5
  <2>2. \A t \in Supervisors : b.session \notin Held(t)
    BY <1>1, <1>2, <2>1 DEF FilesInv
  <2>3. runtime.session # b.session
    <3>1. CASE Enrolled
      <4>1. applied[Len(applied)] \in issued /\ runtime.session = applied[Len(applied)].session
        BY <1>1, <3>1, LastIsLatest DEF LineInv, LeaseInv, ToSet, RelayTypeOK
      <4> QED
        BY <1>2, <1>3, <2>1, <4>1
    <3>2. CASE ~Enrolled
      BY <1>2, <2>1, <3>2 DEF Enrolled
    <3> QED
      BY <3>1, <3>2
  <2> QED
    BY <1>2, <1>3, <2>1, <2>2, <2>3 DEF Beats
<1>6. CASE r.session = 0
  <2>1. b = [session |-> FreshSession, seq |-> 1, resume |-> 0, state |-> state]
    BY <1>6 DEF HeartbeatFor
  <2>2. 0 \in 0..MaxBeats
    BY <1>2
  <2> QED
    BY <1>5, <2>1, <2>2
<1>7. CASE r.session # 0 /\ r.session = file[s].session
  <2>1. b = [session |-> r.session, seq |-> r.seq + 1, resume |-> 0, state |-> state]
    BY <1>7 DEF HeartbeatFor
  <2>2. b.session = r.session /\ b.seq = r.seq + 1 /\ b.resume = 0
    BY <2>1
  <2> DEFINE k == r.checkpoint
  <2>3. k \in 1..Len(applied) /\ applied[k] \in Beats /\ r.seq <= k
        /\ applied[k].session = r.session /\ applied[k].seq = r.seq
    BY <1>4, <1>7
  <2>4. r.seq \in 1..MaxBeats /\ r.session \in 1..MaxBeats
    BY <2>3 DEF Beats
  <2>5. r.seq + 1 \in 1..MaxBeats
    BY <1>2, <2>3, <2>4
  <2>6. b \in Beats
    BY <1>2, <2>1, <2>4, <2>5 DEF Beats
  <2>7. b.session \in Held(s)
    BY <1>7, <2>2 DEF Held
  <2>8. \A t \in Supervisors \ {s} : b.session \notin Held(t)
    BY <1>1, <2>7 DEF FilesInv
  <2>9. \A d \in issued : d.session = b.session => d.seq < b.seq
    BY <1>3, <1>4, <1>7, <2>2, <2>4 DEF Beats
  <2>10. \E i \in DOMAIN applied : applied[i].session = b.session /\ applied[i].seq = b.seq - 1
    <3>1. b.seq - 1 = r.seq /\ k \in DOMAIN applied
      BY <1>1, <2>2, <2>3, <2>4
    <3> QED
      BY <2>2, <2>3, <3>1
  <2>11. ASSUME b.session = runtime.session
        PROVE  runtime.seq + 1 = b.seq
    <3>1. r.seq <= runtime.seq
      BY <1>1, <1>4, <1>7, <2>2, <2>11, LastIsLatest
    <3>2. runtime.beat \in issued /\ runtime.beat.session = r.session /\ runtime.beat.seq = runtime.seq
      BY <1>1, <1>4, <1>7, <2>2, <2>11, LastIsLatest DEF LineInv, LeaseInv, ToSet, RelayTypeOK
    <3>3. runtime.seq <= r.seq /\ runtime.seq \in Nat
      BY <1>4, <1>7, <3>2, <1>1 DEF RelayTypeOK
    <3> QED
      BY <2>2, <2>4, <3>1, <3>3
  <2> QED
    BY <1>1, <2>2, <2>6, <2>7, <2>8, <2>9, <2>10, <2>11 DEF FilesInv
<1>8. CASE r.session # 0 /\ r.session # file[s].session
  <2>1. b = [session |-> FreshSession, seq |-> 1, resume |-> r.checkpoint, state |-> state]
    BY <1>8 DEF HeartbeatFor
  <2>2. r.checkpoint \in 0..MaxBeats /\ Enrolled
    BY <1>2, <1>4, <1>8
  <2> QED
    BY <1>5, <2>1, <2>2
<1> QED
  BY <1>6, <1>7, <1>8

LEMMA ComposeKeepsRelay ==
  ASSUME RelayInv, NEW s \in Supervisors, Compose(s)
  PROVE  RelayInv'
<1>1. /\ RelayTypeOK /\ LeaseInv /\ LineInv /\ BeatsInv /\ FilesInv /\ CyclesInv
      /\ HistoryIsOneLine /\ WriteAheadIsExact
  BY DEF RelayInv
<1>2. /\ cycle[s].at = "asked" /\ file[s].pending = None /\ Cardinality(issued) < MaxBeats
      /\ cycle' = [cycle EXCEPT ![s] = [at |-> "sent", remote |-> None]]
      /\ UNCHANGED <<runtime, late, applied>>
  BY DEF Compose, At, server
<1>0. PICK state \in {"ready", "draining"} : \E b \in HeartbeatFor(s, cycle[s].remote, state) :
        file' = [file EXCEPT ![s].pending = b] /\ issued' = issued \cup {b}
  BY DEF Compose
<1>3. PICK b \in HeartbeatFor(s, cycle[s].remote, state) :
        file' = [file EXCEPT ![s].pending = b] /\ issued' = issued \cup {b}
  BY <1>0
<1>4. /\ b \in Beats /\ b # None
      /\ \A d \in issued : d.session = b.session => d.seq < b.seq
      /\ b.session \in Sessions \/ b.session = FreshSession
      /\ \A t \in Supervisors \ {s} : b.session \notin Held(t)
      /\ b.seq > 1 => \E i \in DOMAIN applied : /\ applied[i].session = b.session
                                                /\ applied[i].seq = b.seq - 1
      /\ ~Enrolled => b.resume = 0
      /\ b.session = runtime.session => runtime.seq + 1 = b.seq
  BY <1>2, NextIsNewest, NoneAssumption
<1>5. /\ file' = [file EXCEPT ![s] = [session |-> file[s].session, pending |-> b]]
      /\ file'[s].pending = b /\ file'[s].session = file[s].session
      /\ \A t \in Supervisors \ {s} : file'[t] = file[t]
      /\ cycle'[s].at = "sent" /\ \A t \in Supervisors \ {s} : cycle'[t] = cycle[t]
      /\ cycle' = [t \in Supervisors |-> cycle'[t]]
  <2>1. file[s] \in [session : 0..MaxBeats, pending : Beats \cup {None}] /\ DOMAIN file = Supervisors
    BY <1>1 DEF RelayTypeOK
  <2>2. [file[s] EXCEPT !.pending = b] = [session |-> file[s].session, pending |-> b]
    BY <2>1
  <2>3. file' = [file EXCEPT ![s] = [file[s] EXCEPT !.pending = b]]
    BY <1>3
  <2>4. file' = [file EXCEPT ![s] = [session |-> file[s].session, pending |-> b]]
    BY <2>2, <2>3
  <2>5. file'[s] = [session |-> file[s].session, pending |-> b]
    BY <2>1, <2>4
  <2>6. \A t \in Supervisors \ {s} : file'[t] = file[t]
    BY <2>1, <2>4
  <2>7. /\ cycle'[s].at = "sent" /\ \A t \in Supervisors \ {s} : cycle'[t] = cycle[t]
        /\ cycle' = [t \in Supervisors |-> cycle'[t]]
    BY <1>1, <1>2 DEF CyclesInv
  <2> QED
    BY <2>4, <2>5, <2>6, <2>7
<1>6. RelayTypeOK'
  <2>1. file' \in [Supervisors -> [session : 0..MaxBeats, pending : Beats \cup {None}]]
    BY <1>1, <1>4, <1>5 DEF RelayTypeOK
  <2>2. \A t \in Supervisors : cycle'[t].at \in {"sent", "answered"} => file'[t].pending # None
    BY <1>1, <1>4, <1>5 DEF RelayTypeOK
  <2> QED
    BY <1>1, <1>2, <1>3, <1>4, <2>1, <2>2 DEF RelayTypeOK, Enrolled
<1>7. LeaseInv' /\ LineInv' /\ HistoryIsOneLine'
  BY <1>1, <1>2, <1>3 DEF LeaseInv, LineInv, HistoryIsOneLine, Enrolled
<1>8. Sessions' = Sessions \cup {b.session}
  BY <1>3 DEF Sessions
<1>9. BeatsInv'
  <2>1. IsFiniteSet(issued') /\ Cardinality(issued') <= MaxBeats
    <3>1. IsFiniteSet(issued) /\ Cardinality(issued) \in Nat /\ MaxBeats \in Nat
      BY <1>1, SessionsFit, RuntimeConstants DEF BeatsInv
    <3>2. /\ IsFiniteSet(issued \cup {b})
          /\ Cardinality(issued \cup {b}) = IF b \in issued THEN Cardinality(issued) ELSE Cardinality(issued) + 1
      BY <3>1, FS_AddElement
    <3>3. Cardinality(issued \cup {b}) <= MaxBeats
      BY <1>2, <3>1, <3>2
    <3> QED
      BY <1>3, <3>2, <3>3
  <2>2. Sessions' = 1..Cardinality(Sessions')
    <3>1. CASE b.session \in Sessions
      <4>1. Sessions' = Sessions
        BY <1>8, <3>1
      <4> QED
        BY <1>1, <4>1 DEF BeatsInv
    <3>2. CASE b.session = FreshSession
      <4>1. PICK n \in Nat : Sessions = 1..n /\ b.session = n + 1
        BY <1>1, <3>2, SessionsFit DEF BeatsInv
      <4>2. Sessions' = 1..(n + 1)
        BY <1>8, <4>1
      <4>3. Cardinality(1..(n + 1)) = n + 1
        BY FS_Interval
      <4> QED
        BY <4>2, <4>3
    <3> QED
      BY <1>4, <3>1, <3>2
  <2> QED
    BY <1>1, <1>2, <1>3, <1>4, <2>1, <2>2 DEF BeatsInv, Enrolled
<1>10. Held(s)' = Held(s) \cup {b.session} /\ \A t \in Supervisors \ {s} : Held(t)' = Held(t)
  BY <1>2, <1>4, <1>5 DEF Held
<1>11. FilesInv'
  <2>1. \A t \in Supervisors : Held(t)' \subseteq Sessions'
    BY <1>1, <1>8, <1>10 DEF FilesInv
  <2>2. \A t, u \in Supervisors : t # u => Held(t)' \cap Held(u)' = {}
    BY <1>1, <1>4, <1>10 DEF FilesInv
  <2>3. ASSUME NEW t \in Supervisors, file'[t].pending # None
        PROVE  /\ file'[t].pending \in issued'
               /\ \A d \in issued' : d.session = file'[t].pending.session => d.seq <= file'[t].pending.seq
    <3>1. CASE t = s
      <4>1. \A d \in issued : d.seq \in Nat
        BY <1>1, RuntimeConstants DEF RelayTypeOK, Beats
      <4>2. b.seq \in Nat
        BY <1>4, RuntimeConstants DEF Beats
      <4> QED
        BY <1>3, <1>4, <1>5, <3>1, <4>1, <4>2
    <3>2. CASE t # s
      <4>1. file'[t] = file[t] /\ file[t].pending \in issued
        BY <1>1, <1>5, <2>3, <3>2 DEF FilesInv
      <4>2. file[t].pending.session \in Held(t)
        BY <2>3, <4>1 DEF Held
      <4>3. b.session # file[t].pending.session
        BY <1>4, <3>2, <4>2
      <4> QED
        <5>1. \A d \in issued : d.session = file[t].pending.session => d.seq <= file[t].pending.seq
          BY <1>1, <2>3, <4>1 DEF FilesInv
        <5>2. file'[t].pending = file[t].pending
          BY <4>1
        <5>3. \A d \in issued' : d.session = file[t].pending.session => d \in issued
          BY <1>3, <4>3
        <5>4. file[t].pending \in issued'
          BY <1>3, <4>1
        <5> QED
          BY <5>1, <5>2, <5>3, <5>4
    <3> QED
      BY <3>1, <3>2
  <2> QED
    BY <2>1, <2>2, <2>3 DEF FilesInv
<1>12. CyclesInv'
  <2>1. ASSUME NEW t \in Supervisors
        PROVE  /\ StatusInv(t)'
               /\ cycle'[t].at = "answered" => file'[t].pending \in ToSet(applied')
    <3>1. CASE t = s
      BY <1>5, <3>1 DEF StatusInv
    <3>2. CASE t # s
      <4>1. file'[t] = file[t] /\ cycle'[t] = cycle[t] /\ applied' = applied
        BY <1>2, <1>5, <3>2
      <4>2. file[t].session # 0 => b.session # file[t].session
        BY <1>4, <3>2 DEF Held
      <4> QED
        BY <1>1, <1>3, <4>1, <4>2 DEF CyclesInv, StatusInv
    <3> QED
      BY <3>1, <3>2
  <2> QED
    BY <1>5, <2>1 DEF CyclesInv
<1>13. WriteAheadIsExact'
  <2>1. ASSUME NEW d \in issued'
        PROVE  d \in ToSet(applied') \/ \E t \in Supervisors : file'[t].pending = d
    <3>1. CASE d = b
      BY <1>5, <3>1
    <3>2. CASE d \in issued
      <4>1. d # None
        BY <1>1, <3>2, NoneAssumption DEF RelayTypeOK
      <4> QED
        BY <1>1, <1>2, <1>5, <3>2, <4>1 DEF WriteAheadIsExact
    <3> QED
      BY <1>3, <3>1, <3>2
  <2>2. \A d, e \in issued' : d.session = e.session /\ d.seq = e.seq => d = e
    <3>1. \A d \in issued : d.seq \in Nat
      BY <1>1, RuntimeConstants DEF RelayTypeOK, Beats
    <3>2. \A d \in issued : ~(d.session = b.session /\ d.seq = b.seq)
      BY <1>4, <3>1
    <3> QED
      BY <1>1, <1>3, <3>2 DEF WriteAheadIsExact
  <2>3. ASSUME NEW t \in Supervisors, file'[t].pending # None, file'[t].pending.session = runtime.session
        PROVE  runtime.beat = file'[t].pending \/ runtime.seq + 1 = file'[t].pending.seq
    BY <1>1, <1>4, <1>5, <2>3 DEF WriteAheadIsExact
  <2> QED
    BY <1>2, <2>1, <2>2, <2>3 DEF WriteAheadIsExact
<1> QED
  BY <1>6, <1>7, <1>9, <1>11, <1>12, <1>13 DEF RelayInv

\* Settling the pending heartbeat loses nothing: it is in the history.
LEMMA SettleKeepsRelay ==
  ASSUME RelayInv, NEW s \in Supervisors,
         file[s].pending # None, file[s].pending \in ToSet(applied),
         file' = [file EXCEPT ![s] = Settled(file[s].pending)], CycleEnds(s),
         UNCHANGED <<runtime, late, applied, issued>>
  PROVE  RelayInv'
<1> DEFINE p == file[s].pending
<1>1. /\ RelayTypeOK /\ LeaseInv /\ LineInv /\ BeatsInv /\ FilesInv /\ CyclesInv
      /\ HistoryIsOneLine /\ WriteAheadIsExact
  BY DEF RelayInv
<1>2. p \in Beats /\ p.session \in 1..MaxBeats /\ p.session \in Held(s)
  BY <1>1 DEF RelayTypeOK, Held, Beats
<1>3. /\ file'[s] = [session |-> p.session, pending |-> None]
      /\ file'[s].session = p.session /\ file'[s].pending = None
      /\ \A t \in Supervisors \ {s} : file'[t] = file[t]
      /\ cycle'[s].at = "idle" /\ \A t \in Supervisors \ {s} : cycle'[t] = cycle[t]
      /\ cycle' = [t \in Supervisors |-> cycle'[t]]
  BY <1>1 DEF RelayTypeOK, CyclesInv, Settled, CycleEnds, At
<1>4. RelayTypeOK'
  <2>1. [session |-> p.session, pending |-> None] \in [session : 0..MaxBeats, pending : Beats \cup {None}]
    BY <1>2, RuntimeConstants
  <2>2. file' \in [Supervisors -> [session : 0..MaxBeats, pending : Beats \cup {None}]]
    BY <1>1, <1>3, <2>1 DEF RelayTypeOK
  <2>3. \A t \in Supervisors : cycle'[t].at \in {"sent", "answered"} => file'[t].pending # None
    BY <1>1, <1>3 DEF RelayTypeOK
  <2> QED
    BY <1>1, <2>2, <2>3 DEF RelayTypeOK, Enrolled
<1>5. LeaseInv' /\ LineInv' /\ HistoryIsOneLine' /\ BeatsInv'
  BY <1>1 DEF LeaseInv, LineInv, HistoryIsOneLine, Enrolled, BeatsInv, Sessions
<1>6. FilesInv'
  <2>1. Held(s)' \subseteq Held(s) /\ \A t \in Supervisors \ {s} : Held(t)' = Held(t)
    BY <1>2, <1>3 DEF Held
  <2>2. Sessions' = Sessions
    BY DEF Sessions
  <2>3. \A t \in Supervisors : Held(t)' \subseteq Sessions'
    BY <1>1, <2>1, <2>2 DEF FilesInv
  <2>4. \A t, u \in Supervisors : t # u => Held(t)' \cap Held(u)' = {}
    BY <1>1, <2>1 DEF FilesInv
  <2> QED
    BY <1>1, <1>3, <2>3, <2>4 DEF FilesInv
<1>7. CyclesInv'
  BY <1>1, <1>3, CyclesKept
<1>8. WriteAheadIsExact'
  <2>1. ASSUME NEW d \in issued, d \notin ToSet(applied)
        PROVE  \E t \in Supervisors : file'[t].pending = d
    BY <1>1, <1>3, <2>1 DEF WriteAheadIsExact
  <2> QED
    BY <1>1, <1>3, <2>1 DEF WriteAheadIsExact
<1> QED
  BY <1>4, <1>5, <1>6, <1>7, <1>8 DEF RelayInv

\* What the status shows accepted was accepted, though the answer was lost.
LEMMA ReconcileKeepsRelay ==
  ASSUME RelayInv, NEW s \in Supervisors, Reconcile(s)
  PROVE  RelayInv'
<1> DEFINE p == file[s].pending  r == cycle[s].remote
<1>1. /\ RelayTypeOK /\ LineInv /\ FilesInv /\ CyclesInv /\ WriteAheadIsExact
      /\ cycle[s].at = "asked" /\ p # None /\ r.session = p.session /\ r.seq = p.seq
  BY DEF RelayInv, Reconcile, RemoteAccepted
<1>2. p \in issued /\ p \in Beats /\ r.session # 0
  BY <1>1 DEF FilesInv, RelayTypeOK, Beats
<1>3. /\ r.checkpoint \in DOMAIN applied
      /\ applied[r.checkpoint].session = p.session /\ applied[r.checkpoint].seq = p.seq
  BY <1>1, <1>2 DEF CyclesInv, StatusInv
<1>4. applied[r.checkpoint] \in issued /\ applied[r.checkpoint] \in ToSet(applied)
  BY <1>1, <1>3 DEF LineInv, ToSet
<1>5. p \in ToSet(applied)
  BY <1>1, <1>2, <1>3, <1>4 DEF WriteAheadIsExact
<1> QED
  BY <1>1, <1>5, SettleKeepsRelay DEF Reconcile, server

LEMMA AcknowledgeKeepsRelay ==
  ASSUME RelayInv, NEW s \in Supervisors, Acknowledge(s)
  PROVE  RelayInv'
<1>1. file[s].pending # None /\ file[s].pending \in ToSet(applied)
  BY DEF RelayInv, RelayTypeOK, CyclesInv, Acknowledge
<1> QED
  BY <1>1, SettleKeepsRelay DEF Acknowledge, server

\* A supervisor with nothing pending has had all its heartbeats accepted, so the
\* status shows the last of them while its session is in charge.
LEMMA AskKeepsRelay ==
  ASSUME RelayInv, NEW s \in Supervisors, Ask(s)
  PROVE  RelayInv'
<1>1. /\ RelayTypeOK /\ LeaseInv /\ LineInv /\ BeatsInv /\ FilesInv /\ CyclesInv
      /\ HistoryIsOneLine /\ WriteAheadIsExact /\ applied \in Seq(Beats)
  BY DEF RelayInv, LineInv
<1>2. /\ cycle' = [cycle EXCEPT ![s] = [at |-> "asked", remote |-> Status]]
      /\ UNCHANGED <<runtime, file, late, applied, issued>>
  BY DEF Ask
<1>3. /\ cycle'[s].at = "asked" /\ cycle'[s].remote = Status
      /\ \A t \in Supervisors \ {s} : cycle'[t] = cycle[t]
      /\ cycle' = [t \in Supervisors |-> cycle'[t]]
  BY <1>1, <1>2 DEF CyclesInv
<1>4. /\ Status.session = runtime.session /\ Status.seq = runtime.seq
      /\ Status.checkpoint = runtime.checkpoint
  BY DEF Status
<1>5. ASSUME runtime.session # 0
      PROVE  /\ runtime.checkpoint \in DOMAIN applied
             /\ applied[runtime.checkpoint].session = runtime.session
             /\ applied[runtime.checkpoint].seq = runtime.seq
             /\ file[s].pending = None /\ runtime.session = file[s].session =>
                  \A b \in issued : b.session = runtime.session => b.seq <= runtime.seq
  <2>1. /\ Enrolled /\ runtime.checkpoint \in DOMAIN applied
        /\ applied[runtime.checkpoint].session = runtime.session
        /\ applied[runtime.checkpoint].seq = runtime.seq
    BY <1>1, <1>5, LastIsLatest DEF Enrolled, LeaseInv, RelayTypeOK
  <2>2. ASSUME file[s].pending = None, runtime.session = file[s].session,
               NEW b \in issued, b.session = runtime.session
        PROVE  b.seq <= runtime.seq
    <3>1. b # None
      BY <1>1, NoneAssumption DEF RelayTypeOK
    <3>2. ASSUME NEW t \in Supervisors, file[t].pending = b
          PROVE  FALSE
      <4>1. t # s /\ b.session \in Held(t) /\ b.session \in Held(s)
        BY <1>5, <2>2, <3>1, <3>2 DEF Held
      <4> QED
        BY <1>1, <4>1 DEF FilesInv
    <3>3. b \in ToSet(applied)
      BY <1>1, <3>2 DEF WriteAheadIsExact
    <3> QED
      BY <1>1, <2>1, <2>2, <3>3, LastIsLatest DEF ToSet
  <2> QED
    BY <2>1, <2>2
<1>6. StatusInv(s)'
  BY <1>2, <1>3, <1>4, <1>5 DEF StatusInv
<1>7. CyclesInv'
  BY <1>1, <1>2, <1>3, <1>6 DEF CyclesInv, StatusInv
<1>8. RelayTypeOK'
  BY <1>1, <1>2, <1>3 DEF RelayTypeOK, Enrolled
<1>9. LeaseInv' /\ LineInv' /\ HistoryIsOneLine' /\ BeatsInv'
  BY <1>1, <1>2 DEF LeaseInv, LineInv, HistoryIsOneLine, Enrolled, BeatsInv, Sessions
<1>10. FilesInv' /\ WriteAheadIsExact'
  BY <1>1, <1>2 DEF FilesInv, Held, Sessions, WriteAheadIsExact
<1> QED
  BY <1>7, <1>8, <1>9, <1>10 DEF RelayInv

\* A cycle that moves on without an answer: what it sent, or gave up, is issued.
LEMMA MoveKeepsRelay ==
  ASSUME RelayInv, late' \subseteq issued, UNCHANGED <<runtime, file, applied, issued>>,
         cycle' = [s \in Supervisors |-> cycle'[s]],
         \A s \in Supervisors :
           \/ cycle'[s] = cycle[s]
           \/ /\ cycle'[s].at # "asked"
              /\ cycle'[s].at \in {"sent", "answered"} => file[s].pending # None
              /\ cycle'[s].at = "answered" => file[s].pending \in ToSet(applied)
  PROVE  RelayInv'
<1>1. /\ RelayTypeOK /\ LeaseInv /\ LineInv /\ BeatsInv /\ FilesInv /\ CyclesInv
      /\ HistoryIsOneLine /\ WriteAheadIsExact
  BY DEF RelayInv
<1>2. RelayTypeOK'
  <2>1. \A s \in Supervisors : cycle'[s].at \in {"sent", "answered"} => file'[s].pending # None
    BY <1>1 DEF RelayTypeOK
  <2> QED
    BY <1>1, <2>1 DEF RelayTypeOK, Enrolled
<1>3. CyclesInv'
  BY <1>1, CyclesKept
<1>4. LeaseInv' /\ LineInv' /\ HistoryIsOneLine' /\ BeatsInv'
  BY <1>1 DEF LeaseInv, LineInv, HistoryIsOneLine, Enrolled, BeatsInv, Sessions
<1>5. FilesInv' /\ WriteAheadIsExact'
  BY <1>1 DEF FilesInv, Held, Sessions, WriteAheadIsExact
<1> QED
  BY <1>2, <1>3, <1>4, <1>5 DEF RelayInv

\* A request the lease does not accept: it replays its last heartbeat, or rejects.
LEMMA AnsweredKeepsRelay ==
  ASSUME RelayInv, NEW b \in issued,
         Accept(b) \/ AcceptDies(b) \/ Replay(b) \/ Reject(b),
         UNCHANGED <<file, issued>>, late' \subseteq late,
         cycle' = [s \in Supervisors |-> cycle'[s]],
         \A s \in Supervisors :
           \/ cycle'[s] = cycle[s]
           \/ cycle'[s].at = "idle"
           \/ /\ cycle'[s].at = "answered" /\ file[s].pending = b
              /\ Accept(b) \/ Replay(b)
  PROVE  RelayInv'
<1>1. RelayTypeOK /\ LeaseInv /\ LineInv /\ HistoryIsOneLine /\ b \in Beats /\ b # None
  BY NoneAssumption DEF RelayInv, RelayTypeOK
<1>2. CASE Accepted(b) /\ runtime' = Renewed(b) /\ applied' = Append(applied, b)
  BY <1>1, <1>2, AcceptKeepsRelay
<1>3. CASE UNCHANGED <<runtime, applied>> /\ ~Accept(b)
  <2>1. ASSUME NEW s \in Supervisors, Replay(b)
        PROVE  b \in ToSet(applied)
    BY <1>1, <2>1, LastIsLatest DEF Replay, Replays, LeaseInv, ToSet
  <2>2. late' \subseteq issued
    BY <1>1 DEF RelayTypeOK
  <2> QED
    BY <1>1, <1>3, <2>1, <2>2, MoveKeepsRelay
<1>4. Accept(b) => Accepted(b) /\ runtime' = Renewed(b) /\ applied' = Append(applied, b)
  BY DEF Accept
<1>5. AcceptDies(b) => Accepted(b) /\ runtime' = Renewed(b) /\ applied' = Append(applied, b)
  BY DEF AcceptDies
<1>6. Replay(b) => UNCHANGED <<runtime, applied>>
  BY DEF Replay
<1>7. Reject(b) => UNCHANGED <<runtime, applied>>
  BY DEF Reject
<1> QED
  BY <1>2, <1>3, <1>4, <1>5, <1>6, <1>7

LEMMA DeliverKeepsRelay ==
  ASSUME RelayInv, NEW s \in Supervisors, Deliver(s)
  PROVE  RelayInv'
<1> DEFINE b == file[s].pending
<1>1. b \in issued
  BY DEF RelayInv, RelayTypeOK, FilesInv, Deliver
<1>2. /\ UNCHANGED <<file, late, issued>>
      /\ \/ (Accept(b) \/ Replay(b)) /\ At(s, "answered")
         \/ (AcceptDies(b) \/ Reject(b)) /\ CycleEnds(s)
  BY DEF Deliver
<1>3. /\ cycle' = [t \in Supervisors |-> cycle'[t]]
      /\ \A t \in Supervisors \ {s} : cycle'[t] = cycle[t]
      /\ At(s, "answered") => cycle'[s].at = "answered"
      /\ CycleEnds(s) => cycle'[s].at = "idle"
  BY <1>2 DEF RelayInv, CyclesInv, CycleEnds, At
<1> QED
  BY <1>1, <1>2, <1>3, AnsweredKeepsRelay

LEMMA DeliverLateKeepsRelay ==
  ASSUME RelayInv, NEW b \in late, DeliverLate(b)
  PROVE  RelayInv'
<1>1. b \in issued /\ late' \subseteq late /\ UNCHANGED <<file, cycle, issued>>
  BY DEF RelayInv, RelayTypeOK, DeliverLate
<1>2. cycle' = [s \in Supervisors |-> cycle'[s]]
  BY <1>1 DEF RelayInv, CyclesInv
<1>3. Accept(b) \/ AcceptDies(b) \/ Replay(b) \/ Reject(b)
  BY DEF DeliverLate
<1> QED
  BY <1>1, <1>2, <1>3, AnsweredKeepsRelay

LEMMA AgeKeepsRelay ==
  ASSUME RelayInv, Age
  PROVE  RelayInv'
<1>1. /\ RelayTypeOK /\ LeaseInv /\ LineInv /\ BeatsInv /\ FilesInv /\ CyclesInv
      /\ HistoryIsOneLine /\ WriteAheadIsExact
  BY DEF RelayInv
<1>2. UNCHANGED <<file, cycle, late, applied, issued>> /\ runtime' = [runtime EXCEPT !.age = Later[runtime.age]]
  BY DEF Age
<1>3. Later[runtime.age] \in DOMAIN Later
  BY <1>1 DEF RelayTypeOK, Later
<1>4. /\ runtime' \in [session : 0..MaxBeats, seq : 0..MaxBeats, beat : Beats \cup {None},
                       state : {"ready", "draining"}, age : DOMAIN Later, checkpoint : Nat]
      /\ runtime'.session = runtime.session /\ runtime'.seq = runtime.seq
      /\ runtime'.beat = runtime.beat /\ runtime'.state = runtime.state
      /\ runtime'.checkpoint = runtime.checkpoint
  BY <1>1, <1>2, <1>3 DEF RelayTypeOK
<1>5. RelayTypeOK'
  BY <1>1, <1>2, <1>4 DEF RelayTypeOK, Enrolled
<1>6. LeaseInv' /\ LineInv' /\ HistoryIsOneLine' /\ BeatsInv'
  BY <1>1, <1>2, <1>4 DEF LeaseInv, LineInv, HistoryIsOneLine, Enrolled, BeatsInv, Sessions
<1>7. FilesInv' /\ CyclesInv' /\ WriteAheadIsExact'
  BY <1>1, <1>2, <1>4 DEF FilesInv, Held, Sessions, CyclesInv, StatusInv, WriteAheadIsExact
<1> QED
  BY <1>5, <1>6, <1>7 DEF RelayInv

LEMMA InitRelay == WatchInit => RelayInv
<1> SUFFICES ASSUME WatchInit PROVE RelayInv
  OBVIOUS
<1>1. /\ runtime = [session |-> 0, seq |-> 0, beat |-> None, state |-> "ready",
                    age |-> "ready", checkpoint |-> 0]
      /\ file = [s \in Supervisors |-> [session |-> 0, pending |-> None]]
      /\ cycle = [s \in Supervisors |-> [at |-> "idle", remote |-> None]]
      /\ late = {} /\ applied = <<>> /\ issued = {} /\ MaxBeats \in Nat
  BY RuntimeConstants DEF WatchInit
<1>2. RelayTypeOK
  BY <1>1 DEF RelayTypeOK, Enrolled, Later
<1>3. LeaseInv /\ HistoryIsOneLine
  BY <1>1 DEF LeaseInv, Enrolled, HistoryIsOneLine
<1>4. LineInv
  BY <1>1 DEF LineInv, ToSet
<1>5. BeatsInv
  <2>1. Sessions = {} /\ issued = {}
    BY <1>1 DEF Sessions
  <2>2. IsFiniteSet({}) /\ Cardinality({}) = 0
    BY FS_EmptySet
  <2>3. {} = 1..0
    OBVIOUS
  <2> QED
    BY <1>1, <2>1, <2>2, <2>3 DEF BeatsInv
<1>6. FilesInv
  BY <1>1 DEF FilesInv, Held
<1>7. CyclesInv
  BY <1>1 DEF CyclesInv, StatusInv
<1>8. WriteAheadIsExact
  BY <1>1 DEF WriteAheadIsExact
<1> QED
  BY <1>2, <1>3, <1>4, <1>5, <1>6, <1>7, <1>8 DEF RelayInv

LEMMA NextKeepsRelay == RelayInv /\ [WatchNext]_watchVars => RelayInv'
<1> SUFFICES ASSUME RelayInv, [WatchNext]_watchVars
             PROVE  RelayInv'
  OBVIOUS
<1>1. /\ late \subseteq issued /\ cycle = [s \in Supervisors |-> cycle[s]]
      /\ \A s \in Supervisors : file[s].pending # None => file[s].pending \in issued
  BY DEF RelayInv, RelayTypeOK, CyclesInv, FilesInv
<1>2. ASSUME NEW s \in Supervisors, Resend(s) \/ Refuse(s) \/ GiveUp(s)
      PROVE  RelayInv'
  <2>1. /\ UNCHANGED <<runtime, file, applied, issued>>
        /\ \/ cycle' = [cycle EXCEPT ![s] = [at |-> "idle", remote |-> None]]
           \/ /\ cycle' = [cycle EXCEPT ![s] = [at |-> "sent", remote |-> None]]
              /\ file[s].pending # None
    BY <1>2 DEF Resend, Refuse, GiveUp, CycleEnds, At, server
  <2>2. late' \subseteq issued
    <3>1. CASE Resend(s) \/ Refuse(s)
      BY <1>1, <3>1 DEF Resend, Refuse
    <3>2. CASE GiveUp(s)
      <4>1. cycle[s].at = "sent" => file[s].pending # None
        BY DEF RelayInv, RelayTypeOK
      <4> QED
        BY <1>1, <3>2, <4>1 DEF GiveUp
    <3> QED
      BY <1>2, <3>1, <3>2
  <2>3. /\ cycle' = [t \in Supervisors |-> cycle'[t]]
        /\ \A t \in Supervisors : \/ cycle'[t] = cycle[t]
                                  \/ cycle'[t].at = "idle"
                                  \/ cycle'[t].at = "sent" /\ file[t].pending # None
    BY <1>1, <2>1
  <2> QED
    BY <2>1, <2>2, <2>3, MoveKeepsRelay
<1>3. CASE UNCHANGED <<runtime, file, cycle, late, applied, issued>>
  BY <1>1, <1>3, MoveKeepsRelay
<1>4. \/ \E s \in Supervisors :
           Ask(s) \/ Reconcile(s) \/ Compose(s) \/ Deliver(s) \/ Acknowledge(s)
           \/ Resend(s) \/ Refuse(s) \/ GiveUp(s)
      \/ \E b \in late : DeliverLate(b)
      \/ Age
      \/ UNCHANGED <<runtime, file, cycle, late, applied, issued>>
  BY DEF WatchNext, watchVars, server, WindowPasses, Sweep, SweepDies, AcknowledgeIncident, ResolveIncident
<1> QED
  BY <1>2, <1>3, <1>4, AskKeepsRelay, ReconcileKeepsRelay, ComposeKeepsRelay, DeliverKeepsRelay,
     AcknowledgeKeepsRelay, DeliverLateKeepsRelay, AgeKeepsRelay

-----------------------------------------------------------------------------
(* The desk                                                                *)

\* The incidents q of category c agree with the holds refs, but for what is lost.
QueueHolds(c, q, refs, lost) ==
  /\ q \in Seq(Incident)
  /\ \A m, n \in DOMAIN q : q[m].ref = q[n].ref => m = n
  /\ \A n \in DOMAIN q : q[n].quarantined => <<c, q[n].ref>> \in refs \cup lost
  /\ \A ref \in Nat : <<c, ref>> \in refs \ lost =>
       \E n \in DOMAIN q : q[n].ref = ref /\ q[n].quarantined

DeskHolds(d, lost) ==
  /\ d \in [incidents : [Categories -> Seq(Incident)], refs : SUBSET (Categories \X Nat)]
  /\ IsFiniteSet(d.refs)
  /\ \A c \in Categories : QueueHolds(c, d.incidents[c], d.refs, lost)

\* Holds are finitely many, so that there is always a fresh reference.
DeskInv == /\ DeskHolds(Desk, torn)
           /\ torn \subseteq Categories \X Nat /\ IsFiniteSet(torn)

\* The desk d with the incidents q in category c.
With(d, c, q) == [d EXCEPT !.incidents[c] = q]

LEMMA QueueReplaced ==
  ASSUME NEW d, NEW lost, DeskHolds(d, lost), NEW c \in Categories, NEW q,
         QueueHolds(c, q, d.refs, lost)
  PROVE  /\ DeskHolds(With(d, c, q), lost)
         /\ With(d, c, q).refs = d.refs
         /\ With(d, c, q).incidents[c] = q
<1> DEFINE e == With(d, c, q)
<1>1. d \in [incidents : [Categories -> Seq(Incident)], refs : SUBSET (Categories \X Nat)]
  BY DEF DeskHolds
<1>2. e = [d EXCEPT !.incidents = [d.incidents EXCEPT ![c] = q]]
  BY <1>1 DEF With
<1>3. /\ e.refs = d.refs /\ e.incidents = [d.incidents EXCEPT ![c] = q]
      /\ e \in [incidents : [Categories -> Seq(Incident)], refs : SUBSET (Categories \X Nat)]
  <2>1. q \in Seq(Incident)
    BY DEF QueueHolds
  <2>2. [d.incidents EXCEPT ![c] = q] \in [Categories -> Seq(Incident)]
    BY <1>1, <2>1
  <2> QED
    BY <1>1, <1>2, <2>2
<1>4. e.incidents[c] = q /\ \A k \in Categories \ {c} : e.incidents[k] = d.incidents[k]
  BY <1>1, <1>3
<1>5. \A k \in Categories : QueueHolds(k, e.incidents[k], e.refs, lost)
  BY <1>3, <1>4 DEF DeskHolds
<1> QED
  BY <1>3, <1>4, <1>5 DEF DeskHolds

\* An incident keeps its reference and its hold whatever else of it changes.
LEMMA QueueUpdated ==
  ASSUME NEW c, NEW q, NEW refs, NEW lost, QueueHolds(c, q, refs, lost),
         NEW n \in DOMAIN q, NEW i \in Incident,
         i.ref = q[n].ref, i.quarantined = q[n].quarantined
  PROVE  /\ QueueHolds(c, [q EXCEPT ![n] = i], refs, lost)
         /\ DOMAIN [q EXCEPT ![n] = i] = DOMAIN q /\ [q EXCEPT ![n] = i][n] = i
<1> DEFINE p == [q EXCEPT ![n] = i]
<1>1. q \in Seq(Incident) /\ DOMAIN p = DOMAIN q /\ p[n] = i /\ p \in Seq(Incident)
  BY DEF QueueHolds
<1>2. \A m \in DOMAIN q : p[m].ref = q[m].ref /\ p[m].quarantined = q[m].quarantined
  BY <1>1
<1> QED
  BY <1>1, <1>2 DEF QueueHolds

LEMMA QueueAppended ==
  ASSUME NEW c, NEW q, NEW refs, NEW lost, QueueHolds(c, q, refs, lost),
         NEW i \in Incident, ~i.quarantined, \A n \in DOMAIN q : q[n].ref # i.ref
  PROVE  QueueHolds(c, Append(q, i), refs, lost)
<1>1. q \in Seq(Incident)
  BY DEF QueueHolds
<1>2. /\ Append(q, i) \in Seq(Incident) /\ DOMAIN q = 1..Len(q)
      /\ DOMAIN Append(q, i) = 1..(Len(q) + 1) /\ Len(q) \in Nat
      /\ \A n \in 1..Len(q) : Append(q, i)[n] = q[n]
      /\ Append(q, i)[Len(q) + 1] = i
  BY <1>1, AppendedTo
<1>3. \A n \in 1..(Len(q) + 1) : n = Len(q) + 1 \/ n \in 1..Len(q)
  BY <1>2
<1> QED
  BY <1>2, <1>3 DEF QueueHolds

LEMMA RemovedAt ==
  ASSUME NEW q \in Seq(Incident), NEW n \in DOMAIN q
  PROVE  /\ DOMAIN q = 1..Len(q) /\ Len(q) \in Nat
         /\ RemoveAt(q, n) \in Seq(Incident) /\ DOMAIN RemoveAt(q, n) = 1..(Len(q) - 1)
         /\ \A k \in 1..(Len(q) - 1) : \E m \in 1..Len(q) :
              RemoveAt(q, n)[k] = q[m] /\ m = IF k < n THEN k ELSE k + 1
         /\ \A m \in 1..Len(q) : m # n => \E k \in 1..(Len(q) - 1) : RemoveAt(q, n)[k] = q[m]
<1> DEFINE p == RemoveAt(q, n)
<1>1. q \in Seq(Incident) /\ DOMAIN q = 1..Len(q) /\ Len(q) \in Nat
  OBVIOUS
<1>2. /\ p \in Seq(Incident) /\ DOMAIN p = 1..(Len(q) - 1)
      /\ \A k \in 1..(n - 1) : p[k] = q[k]
      /\ \A k \in n..(Len(q) - 1) : p[k] = q[k + 1]
  <2> DEFINE a == SubSeq(q, 1, n - 1)  z == SubSeq(q, n + 1, Len(q))
  <2>1. p = a \o z
    BY DEF RemoveAt
  <2>2. n \in 1..Len(q)
    BY <1>1
  <2>3. a \in Seq(Incident) /\ Len(a) = n - 1 /\ \A k \in 1..(n - 1) : a[k] = q[k]
    BY <1>1, <2>2
  <2>4. z \in Seq(Incident) /\ Len(z) = Len(q) - n /\ \A k \in 1..(Len(q) - n) : z[k] = q[n + k]
    <3>1. /\ n + 1 \in Int /\ Len(q) \in Int /\ \A k \in (n + 1)..Len(q) : q[k] \in Incident
          /\ Len(q) - (n + 1) + 1 = Len(q) - n
          /\ \A k \in 1..(Len(q) - n) : (n + 1) + k - 1 = n + k
      BY <1>1, <2>2
    <3>2. /\ z \in Seq(Incident) /\ Len(z) = IF n + 1 <= Len(q) THEN Len(q) - (n + 1) + 1 ELSE 0
          /\ \A k \in 1..(Len(q) - (n + 1) + 1) : z[k] = q[(n + 1) + k - 1]
      BY <3>1, SubSeqProperties
    <3>3. Len(z) = Len(q) - n
      BY <1>1, <2>2, <3>2
    <3>4. \A k \in 1..(Len(q) - n) : z[k] = q[n + k]
      BY <3>1, <3>2
    <3> QED
      BY <3>2, <3>3, <3>4
  <2>5. /\ p \in Seq(Incident) /\ Len(p) = Len(a) + Len(z) /\ DOMAIN p = 1..Len(p)
        /\ \A k \in 1..(Len(a) + Len(z)) : p[k] = IF k <= Len(a) THEN a[k] ELSE z[k - Len(a)]
    <3>1. /\ a \o z \in Seq(Incident) /\ Len(a \o z) = Len(a) + Len(z)
          /\ \A k \in 1..(Len(a) + Len(z)) : (a \o z)[k] = IF k <= Len(a) THEN a[k] ELSE z[k - Len(a)]
      BY <2>3, <2>4, ConcatProperties
    <3> HIDE DEF a, z
    <3>2. p \in Seq(Incident) => DOMAIN p = 1..Len(p)
      OBVIOUS
    <3> QED
      BY <2>1, <3>1, <3>2
  <2>6. Len(p) = Len(q) - 1
    BY <1>1, <2>2, <2>3, <2>4, <2>5
  <2>7. \A k \in 1..(n - 1) : p[k] = q[k]
    BY <1>1, <2>2, <2>3, <2>4, <2>5
  <2>8. ASSUME NEW k \in n..(Len(q) - 1)
        PROVE  p[k] = q[k + 1]
    <3>1. /\ n \in Nat /\ k \in 1..(Len(q) - 1) /\ ~(k <= n - 1)
          /\ k - (n - 1) \in 1..(Len(q) - n) /\ n + (k - (n - 1)) = k + 1
      BY <1>1, <2>2, <2>8
    <3>2. Len(a) = n - 1 /\ Len(a) + Len(z) = Len(q) - 1
      BY <2>3, <2>5, <2>6
    <3>3. p[k] = z[k - (n - 1)]
      BY <2>5, <3>1, <3>2
    <3> QED
      BY <2>4, <3>1, <3>3
  <2> QED
    BY <2>5, <2>6, <2>7, <2>8
<1>3. \A k \in 1..(Len(q) - 1) : \E m \in 1..Len(q) : p[k] = q[m] /\ m = IF k < n THEN k ELSE k + 1
  BY <1>1, <1>2
<1>4. \A m \in 1..Len(q) : m # n => \E k \in 1..(Len(q) - 1) : p[k] = q[m]
  <2> SUFFICES ASSUME NEW m \in 1..Len(q), m # n
               PROVE  \E k \in 1..(Len(q) - 1) : p[k] = q[m]
    OBVIOUS
  <2>1. CASE m < n
    BY <1>1, <1>2, <2>1
  <2>2. CASE m > n
    <3>1. m - 1 \in n..(Len(q) - 1) /\ (m - 1) + 1 = m /\ m - 1 \in 1..(Len(q) - 1)
      BY <1>1, <2>2
    <3> QED
      BY <1>2, <3>1
  <2> QED
    BY <1>1, <2>1, <2>2
<1> QED
  BY <1>1, <1>2, <1>3, <1>4

\* An incident that holds nothing can go.
LEMMA QueueShortened ==
  ASSUME NEW c, NEW q, NEW refs, NEW lost, QueueHolds(c, q, refs, lost),
         NEW n \in DOMAIN q, q[n].quarantined => <<c, q[n].ref>> \notin refs
  PROVE  QueueHolds(c, RemoveAt(q, n), refs, lost)
<1> DEFINE p == RemoveAt(q, n)
<1>1. q \in Seq(Incident) /\ DOMAIN q = 1..Len(q) /\ Len(q) \in Nat
  BY DEF QueueHolds
<1>2. /\ p \in Seq(Incident) /\ DOMAIN p = 1..(Len(q) - 1)
      /\ \A k \in 1..(Len(q) - 1) : \E m \in 1..Len(q) :
           p[k] = q[m] /\ m = IF k < n THEN k ELSE k + 1
      /\ \A m \in 1..Len(q) : m # n => \E k \in 1..(Len(q) - 1) : p[k] = q[m]
  BY <1>1, RemovedAt
<1> HIDE DEF p
<1>5. \A k, m \in DOMAIN p : p[k].ref = p[m].ref => k = m
  <2> SUFFICES ASSUME NEW k \in 1..(Len(q) - 1), NEW m \in 1..(Len(q) - 1), p[k].ref = p[m].ref
               PROVE  k = m
    BY <1>2
  <2>1. PICK j \in 1..Len(q) : p[k] = q[j] /\ j = IF k < n THEN k ELSE k + 1
    BY <1>2
  <2>2. PICK l \in 1..Len(q) : p[m] = q[l] /\ l = IF m < n THEN m ELSE m + 1
    BY <1>2
  <2>3. j = l
    BY <1>1, <2>1, <2>2 DEF QueueHolds
  <2> QED
    BY <1>1, <2>1, <2>2, <2>3
<1>6. \A k \in DOMAIN p : p[k].quarantined => <<c, p[k].ref>> \in refs \cup lost
  BY <1>1, <1>2 DEF QueueHolds
<1>7. ASSUME NEW ref \in Nat, <<c, ref>> \in refs \ lost
      PROVE  \E k \in DOMAIN p : p[k].ref = ref /\ p[k].quarantined
  <2>1. PICK m \in DOMAIN q : q[m].ref = ref /\ q[m].quarantined
    BY <1>7 DEF QueueHolds
  <2>2. m # n
    BY <1>7, <2>1
  <2> QED
    BY <1>1, <1>2, <2>1, <2>2
<1> QED
  BY <1>2, <1>5, <1>6, <1>7 DEF QueueHolds, p

\* The owner resolves an incident: its hold goes, and it, or the crash says so.
LEMMA QueueReleased ==
  ASSUME NEW c, NEW q, NEW refs, NEW lost, QueueHolds(c, q, refs, lost), NEW n \in DOMAIN q
  PROVE  LET hold == <<c, q[n].ref>>
         IN  /\ QueueHolds(c, q, refs \ {hold}, lost \cup {hold})
             /\ QueueHolds(c, RemoveAt(q, n), refs \ {hold}, lost)
<1> DEFINE hold == <<c, q[n].ref>>  p == RemoveAt(q, n)
<1>1. q \in Seq(Incident)
  BY DEF QueueHolds
<1>2. QueueHolds(c, q, refs \ {hold}, lost \cup {hold})
  BY DEF QueueHolds
<1>3. QueueHolds(c, p, refs \ {hold}, lost \cup {hold})
  BY <1>2, QueueShortened
<1>4. \A k \in DOMAIN p : \E m \in DOMAIN q : m # n /\ p[k] = q[m]
  <2> SUFFICES ASSUME NEW k \in DOMAIN p
               PROVE  \E m \in DOMAIN q : m # n /\ p[k] = q[m]
    OBVIOUS
  <2>1. k \in 1..(Len(q) - 1) /\ DOMAIN q = 1..Len(q) /\ Len(q) \in Nat
    BY <1>1, RemovedAt
  <2>2. PICK m \in 1..Len(q) : p[k] = q[m] /\ m = IF k < n THEN k ELSE k + 1
    BY <1>1, <2>1, RemovedAt
  <2> QED
    BY <2>1, <2>2
<1>5. \A k \in DOMAIN p : <<c, p[k].ref>> # hold
  BY <1>4 DEF QueueHolds
<1>6. QueueHolds(c, p, refs \ {hold}, lost)
  <2>1. \A k \in DOMAIN p : p[k].quarantined => <<c, p[k].ref>> \in (refs \ {hold}) \cup lost
    BY <1>3, <1>5 DEF QueueHolds
  <2> QED
    BY <1>3, <2>1 DEF QueueHolds
<1> QED
  BY <1>2, <1>6

LEMMA TailIsRemoveAt ==
  ASSUME NEW q \in Seq(Incident), q # <<>>
  PROVE  Tail(q) = RemoveAt(q, 1)
<1>1. SubSeq(q, 1, 0) = <<>> /\ SubSeq(q, 2, Len(q)) = Tail(q)
  OBVIOUS
<1> QED
  BY <1>1 DEF RemoveAt

\* crypto.randomUUID() finds a reference that nothing holds or held.
LEMMA FreshIsFresh ==
  ASSUME NEW d, DeskHolds(d, torn), IsFiniteSet(torn), NEW c \in Categories
  PROVE  /\ FreshRef(c, d) \in Nat \ {0}
         /\ \A n \in DOMAIN d.incidents[c] : d.incidents[c][n].ref # FreshRef(c, d)
<1> DEFINE q == d.incidents[c]
           kept == {i.ref : i \in ToSet(q)}
           holds == {h \in d.refs \cup torn : h[1] = c}
           held == {hold[2] : hold \in holds}
           used == kept \cup held
           free == 1..(Cardinality(used) + 1)
<1>1. q \in Seq(Incident) /\ DOMAIN q = 1..Len(q) /\ Len(q) \in Nat
  BY DEF DeskHolds, QueueHolds
<1>2. IsFiniteSet(kept)
  <2>1. IsFiniteSet(1..Len(q))
    BY <1>1, FS_Interval
  <2>2. [n \in 1..Len(q) |-> q[n].ref] \in Surjection(1..Len(q), kept)
    BY <1>1 DEF Surjection, ToSet
  <2> QED
    BY <2>1, <2>2, FS_Surjection
<1>3. IsFiniteSet(held)
  <2>1. IsFiniteSet(d.refs \cup torn)
    BY FS_Union DEF DeskHolds
  <2>2. IsFiniteSet(holds)
    BY <2>1, FS_Subset
  <2>3. [h \in holds |-> h[2]] \in Surjection(holds, held)
    BY DEF Surjection
  <2> QED
    BY <2>2, <2>3, FS_Surjection
<1>4. IsFiniteSet(used) /\ Cardinality(used) \in Nat
  BY <1>2, <1>3, FS_Union, FS_CardinalityType
<1>5. \E n \in free : n \notin used
  <2> SUFFICES ASSUME free \subseteq used PROVE FALSE
    OBVIOUS
  <2>1. Cardinality(free) = Cardinality(used) + 1
    BY <1>4, FS_Interval
  <2>2. Cardinality(free) <= Cardinality(used)
    BY <1>4, FS_Subset
  <2> QED
    BY <1>4, <2>1, <2>2
<1>6. FreshRef(c, d) = CHOOSE n \in free : n \notin used
  BY DEF FreshRef
<1>7. FreshRef(c, d) \in free /\ FreshRef(c, d) \notin used
  BY <1>5, <1>6
<1>8. \A n \in DOMAIN q : q[n].ref \in used
  BY DEF ToSet
<1>9. FreshRef(c, d) \in Nat \ {0}
  BY <1>4, <1>7
<1> QED
  BY <1>7, <1>8, <1>9

LEMMA OpenedHolds ==
  ASSUME NEW d, DeskHolds(d, torn), IsFiniteSet(torn), NEW c \in Categories
  PROVE  /\ DeskHolds(Opened(c, d), torn) /\ Opened(c, d).refs = d.refs
         /\ Len(Opened(c, d).incidents[c]) = Len(d.incidents[c]) + 1
<1> DEFINE q == d.incidents[c]
           i == [ref |-> FreshRef(c, d), status |-> "open", count |-> 1,
                 acked |-> FALSE, quarantined |-> FALSE, recent |-> TRUE]
<1>1. QueueHolds(c, q, d.refs, torn) /\ q \in Seq(Incident)
  BY DEF DeskHolds, QueueHolds
<1>2. 1 \in 1..RECOVERY_FAILURE_QUARANTINE_THRESHOLD
  BY RuntimeConstants
<1>3. i \in Incident /\ ~i.quarantined /\ i.ref = FreshRef(c, d)
  BY <1>2, FreshIsFresh DEF Incident
<1>4. QueueHolds(c, Append(q, i), d.refs, torn)
  BY <1>1, <1>3, FreshIsFresh, QueueAppended
<1>5. Opened(c, d) = With(d, c, Append(q, i))
  BY DEF Opened, With
<1>6. Len(Append(q, i)) = Len(q) + 1
  BY <1>1, <1>3, AppendedTo
<1>7. PICK p : p = Append(q, i)
  OBVIOUS
<1>8. QueueHolds(c, p, d.refs, torn) /\ Opened(c, d) = With(d, c, p) /\ Len(p) = Len(q) + 1
  BY <1>4, <1>5, <1>6, <1>7
<1> QED
  BY <1>8, QueueReplaced

\* An incident with another of its fields changed.
LEMMA ChangedHolds ==
  ASSUME NEW d, DeskHolds(d, torn), NEW c \in Categories, NEW n \in DOMAIN d.incidents[c],
         NEW i \in Incident, i.ref = d.incidents[c][n].ref,
         i.quarantined = d.incidents[c][n].quarantined
  PROVE  LET e == With(d, c, [d.incidents[c] EXCEPT ![n] = i])
         IN  /\ DeskHolds(e, torn) /\ e.refs = d.refs
             /\ DOMAIN e.incidents[c] = DOMAIN d.incidents[c]
<1> DEFINE q == d.incidents[c]
<1>1. QueueHolds(c, q, d.refs, torn)
  BY DEF DeskHolds
<1>2. QueueHolds(c, [q EXCEPT ![n] = i], d.refs, torn) /\ DOMAIN [q EXCEPT ![n] = i] = DOMAIN q
  BY <1>1, QueueUpdated
<1> QED
  BY <1>2, QueueReplaced

LEMMA MarkedHolds ==
  ASSUME NEW d, DeskHolds(d, torn), NEW c \in Categories, d.incidents[c] # <<>>,
         NEW mark \in {"open", "recovery-detected"}
  PROVE  /\ DeskHolds(Marked(c, mark, d), torn) /\ Marked(c, mark, d).refs = d.refs
         /\ DOMAIN Marked(c, mark, d).incidents[c] = DOMAIN d.incidents[c]
<1> DEFINE q == d.incidents[c]
<1>1. q \in Seq(Incident) /\ 1 \in DOMAIN q
  BY DEF DeskHolds, QueueHolds
<1>2. PICK i : i = [q[1] EXCEPT !.status = mark]
  OBVIOUS
<1>3. i \in Incident /\ i.ref = q[1].ref /\ i.quarantined = q[1].quarantined
  <2>1. q[1] \in Incident
    BY <1>1
  <2> QED
    BY <1>2, <2>1 DEF Incident
<1>4. Marked(c, mark, d) = With(d, c, [q EXCEPT ![1] = i])
  BY <1>2 DEF Marked, With
<1> QED
  BY <1>1, <1>3, <1>4, ChangedHolds

LEMMA CountedHolds ==
  ASSUME NEW d, DeskHolds(d, torn), NEW c \in Categories, NEW n \in DOMAIN d.incidents[c],
         NEW count \in 1..RECOVERY_FAILURE_QUARANTINE_THRESHOLD
  PROVE  /\ DeskHolds([d EXCEPT !.incidents[c][n].count = count], torn)
         /\ [d EXCEPT !.incidents[c][n].count = count].refs = d.refs
         /\ DOMAIN [d EXCEPT !.incidents[c][n].count = count].incidents[c] = DOMAIN d.incidents[c]
<1> DEFINE q == d.incidents[c]
<1>1. q \in Seq(Incident)
  BY DEF DeskHolds, QueueHolds
<1>2. PICK i : i = [q[n] EXCEPT !.count = count]
  OBVIOUS
<1>3. i \in Incident /\ i.ref = q[n].ref /\ i.quarantined = q[n].quarantined
  <2>1. q[n] \in Incident
    BY <1>1
  <2> QED
    BY <1>2, <2>1 DEF Incident
<1>4. [d EXCEPT !.incidents[c][n].count = count] = With(d, c, [q EXCEPT ![n] = i])
  BY <1>2 DEF With
<1> QED
  BY <1>3, <1>4, ChangedHolds

\* quarantine() adds the hold of its incident and no other, and both files know it.
LEMMA QuarantinedHolds ==
  ASSUME NEW d, DeskHolds(d, torn), NEW c \in Categories, NEW n \in DOMAIN d.incidents[c]
  PROVE  /\ DeskHolds(Quarantined(c, n, d), torn)
         /\ d.refs \subseteq Quarantined(c, n, d).refs
         /\ Quarantined(c, n, d).refs # {} \/ torn # {}
<1> DEFINE q == d.incidents[c]  hold == <<c, q[n].ref>>
           p == [q EXCEPT ![n].quarantined = TRUE]
           e == [incidents |-> [d.incidents EXCEPT ![c] = p], refs |-> d.refs \cup {hold}]
<1>1. /\ QueueHolds(c, q, d.refs, torn) /\ q \in Seq(Incident) /\ q[n] \in Incident
      /\ d \in [incidents : [Categories -> Seq(Incident)], refs : SUBSET (Categories \X Nat)]
      /\ IsFiniteSet(d.refs)
  BY DEF DeskHolds, QueueHolds
<1>2. CASE q[n].quarantined
  <2>1. Quarantined(c, n, d) = d
    BY <1>2 DEF Quarantined
  <2>2. hold \in d.refs \cup torn
    BY <1>1, <1>2 DEF QueueHolds
  <2> QED
    BY <2>1, <2>2
<1>3. CASE ~q[n].quarantined
  <2>1. Quarantined(c, n, d) = e
    BY <1>3 DEF Quarantined
  <2>2. hold \in Categories \X Nat
    BY <1>1 DEF Incident
  <2>3. /\ p \in Seq(Incident) /\ DOMAIN p = DOMAIN q
        /\ \A m \in DOMAIN q : p[m].ref = q[m].ref
        /\ p[n].quarantined /\ \A m \in DOMAIN q \ {n} : p[m] = q[m]
    <3> DEFINE i == [q[n] EXCEPT !.quarantined = TRUE]
    <3>1. i \in Incident /\ i.quarantined /\ i.ref = q[n].ref
      BY <1>1 DEF Incident
    <3>2. p = [q EXCEPT ![n] = i]
      OBVIOUS
    <3> QED
      BY <1>1, <3>1, <3>2
  <2>4. QueueHolds(c, p, e.refs, torn)
    <3>1. \A m, k \in DOMAIN p : p[m].ref = p[k].ref => m = k
      BY <1>1, <2>3 DEF QueueHolds
    <3>2. \A m \in DOMAIN p : p[m].quarantined => <<c, p[m].ref>> \in e.refs \cup torn
      BY <1>1, <2>3 DEF QueueHolds
    <3>3. ASSUME NEW ref \in Nat, <<c, ref>> \in e.refs \ torn
          PROVE  \E m \in DOMAIN p : p[m].ref = ref /\ p[m].quarantined
      <4>1. CASE ref = q[n].ref
        BY <2>3, <4>1
      <4>2. CASE ref # q[n].ref
        <5>1. PICK m \in DOMAIN q : q[m].ref = ref /\ q[m].quarantined
          BY <1>1, <3>3, <4>2 DEF QueueHolds
        <5> QED
          BY <2>3, <4>2, <5>1
      <4> QED
        BY <4>1, <4>2
    <3> QED
      BY <2>3, <3>1, <3>2, <3>3 DEF QueueHolds
  <2>5. /\ e.incidents[c] = p /\ e.refs = d.refs \cup {hold}
        /\ \A k \in Categories \ {c} : e.incidents[k] = d.incidents[k]
        /\ e \in [incidents : [Categories -> Seq(Incident)], refs : SUBSET (Categories \X Nat)]
    BY <1>1, <2>2, <2>3
  <2>6. ASSUME NEW k \in Categories \ {c}
        PROVE  QueueHolds(k, e.incidents[k], e.refs, torn)
    <3>1. QueueHolds(k, d.incidents[k], d.refs, torn)
      BY DEF DeskHolds
    <3> QED
      BY <2>5, <3>1 DEF QueueHolds
  <2>7. IsFiniteSet(e.refs)
    BY <1>1, <2>5, FS_AddElement
  <2>8. DeskHolds(e, torn)
    BY <2>4, <2>5, <2>6, <2>7 DEF DeskHolds
  <2> QED
    BY <2>1, <2>5, <2>8
<1> QED
  BY <1>2, <1>3

\* reconcileRuntimeIncidents() opens an incident for an outage and quarantines it.
LEMMA OfflineHolds ==
  ASSUME NEW d, DeskHolds(d, torn), IsFiniteSet(torn), NEW health
  PROVE  /\ DeskHolds(OfflineSeen(health, d), torn)
         /\ d.refs \subseteq OfflineSeen(health, d).refs
         /\ health = "offline" => OfflineSeen(health, d).refs # {} \/ torn # {}
<1> DEFINE c == "runtime-offline"
           active == d.incidents[c] # <<>>
           open == IF active THEN Marked(c, "open", d) ELSE Opened(c, d)
<1>1. c \in Categories /\ d.incidents[c] \in Seq(Incident)
  BY DEF Categories, DeskHolds, QueueHolds
<1>2. DeskHolds(open, torn) /\ open.refs = d.refs /\ 1 \in DOMAIN open.incidents[c]
  <2>1. CASE active
    <3>1. 1 \in DOMAIN d.incidents[c]
      BY <1>1, <2>1
    <3> QED
      BY <1>1, <2>1, <3>1, MarkedHolds
  <2>2. CASE ~active
    <3>1. DeskHolds(Opened(c, d), torn) /\ Opened(c, d).refs = d.refs
          /\ Len(Opened(c, d).incidents[c]) = Len(d.incidents[c]) + 1
      BY <1>1, OpenedHolds
    <3>2. Opened(c, d).incidents[c] \in Seq(Incident)
      BY <1>1, <3>1 DEF DeskHolds, QueueHolds
    <3>3. 1 \in DOMAIN Opened(c, d).incidents[c]
      BY <1>1, <3>1, <3>2
    <3> QED
      BY <2>2, <3>1, <3>3
  <2> QED
    BY <2>1, <2>2
<1>3. CASE health = "offline"
  <2>1. OfflineSeen(health, d) = Quarantined(c, 1, open)
    BY <1>3 DEF OfflineSeen
  <2> QED
    BY <1>1, <1>2, <2>1, QuarantinedHolds
<1>4. CASE health = "ready" /\ active
  <2>1. OfflineSeen(health, d) = Marked(c, "recovery-detected", d)
    BY <1>4 DEF OfflineSeen
  <2> QED
    BY <1>1, <1>4, <2>1, MarkedHolds
<1>5. CASE health # "offline" /\ ~(health = "ready" /\ active)
  <2>1. OfflineSeen(health, d) = d
    BY <1>5 DEF OfflineSeen
  <2> QED
    BY <1>5, <2>1
<1> QED
  BY <1>3, <1>4, <1>5

\* ... and closes only failures that hold nothing.
LEMMA FailureSeenHolds ==
  ASSUME NEW d, DeskHolds(d, torn), NEW health
  PROVE  /\ DeskHolds(RecoveryFailureSeen(health, d), torn)
         /\ RecoveryFailureSeen(health, d).refs = d.refs
<1> DEFINE c == "runtime-recovery-failure"
           q == d.incidents[c]
           i == q[1]
           reviewable == health = "ready" /\ i.status = "open" /\ (i.quarantined \/ i.acked)
<1>1. c \in Categories /\ q \in Seq(Incident) /\ QueueHolds(c, q, d.refs, torn)
  BY DEF Categories, DeskHolds, QueueHolds
<1>2. CASE q # <<>> /\ reviewable
  <2>1. RecoveryFailureSeen(health, d) = Marked(c, "recovery-detected", d)
    BY <1>2 DEF RecoveryFailureSeen
  <2> QED
    BY <1>1, <1>2, <2>1, MarkedHolds
<1>3. CASE q # <<>> /\ ~reviewable /\ Expired(i)
  <2>1. RecoveryFailureSeen(health, d) = With(d, c, Tail(q))
    BY <1>3 DEF RecoveryFailureSeen, Closed, With
  <2>2. 1 \in DOMAIN q /\ ~q[1].quarantined /\ Tail(q) = RemoveAt(q, 1)
    <3> HIDE DEF q
    <3>0. q \in Seq(Incident) /\ q # <<>>
      BY <1>1, <1>3
    <3>1. 1 \in DOMAIN q /\ Tail(q) = RemoveAt(q, 1)
      BY <3>0, TailIsRemoveAt
    <3>2. ~q[1].quarantined
      BY <1>3 DEF Expired
    <3> QED
      BY <3>1, <3>2
  <2>3. QueueHolds(c, Tail(q), d.refs, torn)
    BY <1>1, <2>2, QueueShortened
  <2> QED
    BY <1>1, <2>1, <2>3, QueueReplaced
<1>4. CASE q = <<>> \/ (~reviewable /\ ~Expired(i))
  <2>1. RecoveryFailureSeen(health, d) = d
    BY <1>4 DEF RecoveryFailureSeen
  <2> QED
    BY <2>1
<1> QED
  BY <1>2, <1>3, <1>4

LEMMA ReconciledHolds ==
  ASSUME NEW d, DeskHolds(d, torn), IsFiniteSet(torn), NEW health
  PROVE  /\ DeskHolds(Reconciled(health, d), torn)
         /\ d.refs \subseteq Reconciled(health, d).refs
         /\ health = "offline" => Reconciled(health, d).refs # {} \/ torn # {}
<1>1. PICK e : e = OfflineSeen(health, d)
  OBVIOUS
<1>2. /\ DeskHolds(e, torn) /\ d.refs \subseteq e.refs
      /\ health = "offline" => e.refs # {} \/ torn # {}
  BY <1>1, OfflineHolds
<1>3. Reconciled(health, d) = RecoveryFailureSeen(health, e)
  BY <1>1 DEF Reconciled
<1>4. DeskHolds(RecoveryFailureSeen(health, e), torn) /\ RecoveryFailureSeen(health, e).refs = e.refs
  BY <1>2, FailureSeenHolds
<1> QED
  BY <1>2, <1>3, <1>4

LEMMA SweptHolds ==
  ASSUME DeskInv
  PROVE  /\ DeskHolds(Swept, torn) /\ quarantine \subseteq Swept.refs
         /\ Enrolled /\ Health(runtime) = "offline" => Swept.refs # {} \/ torn # {}
<1>1. PICK d : d = Desk
  OBVIOUS
<1>2. DeskHolds(d, torn) /\ d.refs = quarantine /\ IsFiniteSet(torn)
  BY <1>1 DEF DeskInv, Desk
<1>3. Swept = IF Enrolled THEN Reconciled(Health(runtime), d) ELSE d
  BY <1>1 DEF Swept
<1> QED
  BY <1>2, <1>3, ReconciledHolds

\* recordRuntimeFailure() counts to the threshold and quarantines there.
LEMMA FailureHolds ==
  ASSUME NEW d, DeskHolds(d, torn), IsFiniteSet(torn)
  PROVE  DeskHolds(FailureRecorded(d), torn) /\ d.refs \subseteq FailureRecorded(d).refs
<1> DEFINE c == "runtime-recovery-failure"
           q == d.incidents[c]
           T == RECOVERY_FAILURE_QUARANTINE_THRESHOLD
           new == q = <<>> \/ ~q[1].recent
           n == IF new THEN Len(q) + 1 ELSE 1
           seen == IF new THEN Opened(c, d) ELSE Marked(c, "open", d)
           count == IF new THEN 1 ELSE Min({q[1].count + 1, T})
           counted == [seen EXCEPT !.incidents[c][n].count = count]
<1>1. c \in Categories /\ q \in Seq(Incident) /\ T \in Nat \ {0}
  BY RuntimeConstants DEF Categories, DeskHolds, QueueHolds
<1>2. DeskHolds(seen, torn) /\ seen.refs = d.refs /\ n \in DOMAIN seen.incidents[c]
  <2>1. CASE new
    <3>1. /\ DeskHolds(Opened(c, d), torn) /\ Opened(c, d).refs = d.refs
          /\ Len(Opened(c, d).incidents[c]) = Len(q) + 1
      BY <1>1, OpenedHolds
    <3>2. Opened(c, d).incidents[c] \in Seq(Incident)
      BY <1>1, <3>1 DEF DeskHolds, QueueHolds
    <3>3. Len(q) + 1 \in DOMAIN Opened(c, d).incidents[c]
      BY <1>1, <3>1, <3>2
    <3> QED
      BY <2>1, <3>1, <3>3
  <2>2. CASE ~new
    <3>1. q # <<>> /\ 1 \in DOMAIN q
      BY <1>1, <2>2
    <3> QED
      BY <1>1, <2>2, <3>1, MarkedHolds
  <2> QED
    BY <2>1, <2>2
<1>3. count \in 1..T
  <2>1. CASE new
    BY <1>1, <2>1
  <2>2. CASE ~new
    <3>1. q[1] \in Incident
      BY <1>1, <2>2
    <3>2. q[1].count \in 1..T
      BY <3>1 DEF Incident
    <3>3. PICK a : a = q[1].count + 1
      OBVIOUS
    <3>4. a \in Nat /\ a >= 1 /\ count = Min({a, T})
      BY <1>1, <2>2, <3>2, <3>3
    <3>5. Min({a, T}) \in {a, T} /\ Min({a, T}) <= T
      <4>1. \E x \in {a, T} : \A y \in {a, T} : x <= y
        BY <1>1, <3>4
      <4>2. Min({a, T}) = CHOOSE x \in {a, T} : \A y \in {a, T} : x <= y
        BY DEF Min
      <4> QED
        BY <4>1, <4>2
    <3> QED
      BY <1>1, <3>4, <3>5
  <2> QED
    BY <2>1, <2>2
<1>4. PICK e, m, k : e = seen /\ m = n /\ k = count
  OBVIOUS
<1>5. DeskHolds(e, torn) /\ e.refs = d.refs /\ m \in DOMAIN e.incidents[c] /\ k \in 1..T
  BY <1>2, <1>3, <1>4
<1>6. PICK f : f = [e EXCEPT !.incidents[c][m].count = k]
  OBVIOUS
<1>7. DeskHolds(f, torn) /\ f.refs = d.refs /\ m \in DOMAIN f.incidents[c]
  BY <1>1, <1>5, <1>6, CountedHolds
<1>8. FailureRecorded(d) = IF k = T THEN Quarantined(c, m, f) ELSE f
  BY <1>4, <1>6 DEF FailureRecorded
<1>9. DeskHolds(Quarantined(c, m, f), torn) /\ f.refs \subseteq Quarantined(c, m, f).refs
  BY <1>1, <1>7, QuarantinedHolds
<1> QED
  BY <1>7, <1>8, <1>9

LEMMA DeskSaved ==
  ASSUME DeskInv, NEW d, DeskHolds(d, torn), SaveDesk(d), torn' = torn
  PROVE  DeskInv'
<1>1. d = [incidents |-> d.incidents, refs |-> d.refs]
  BY DEF DeskHolds
<1>2. Desk' = d
  BY <1>1 DEF Desk, SaveDesk
<1>3. DeskHolds(Desk', torn')
  BY <1>2
<1> QED
  BY <1>3 DEF DeskInv

\* The server dies between the two saves: what it lost is torn.
LEMMA DeskTorn ==
  ASSUME DeskInv, NEW d, DeskHolds(d, torn),
         NEW refs \in SUBSET (Categories \X Nat), IsFiniteSet(refs), d.refs \subseteq refs,
         incidents' = d.incidents, quarantine' = refs, torn' = torn \cup (refs \ d.refs)
  PROVE  DeskInv'
<1>1. d \in [incidents : [Categories -> Seq(Incident)], refs : SUBSET (Categories \X Nat)]
  BY DEF DeskHolds
<1>2. Desk' = [incidents |-> d.incidents, refs |-> refs]
  BY DEF Desk
<1>3. Desk' \in [incidents : [Categories -> Seq(Incident)], refs : SUBSET (Categories \X Nat)]
  BY <1>1, <1>2
<1>4. Desk'.incidents = d.incidents /\ Desk'.refs = refs
  BY <1>2
<1>5. ASSUME NEW c \in Categories
      PROVE  QueueHolds(c, d.incidents[c], refs, torn \cup (refs \ d.refs))
  BY DEF DeskHolds, QueueHolds
<1>6. DeskHolds(Desk', torn')
  BY <1>3, <1>4, <1>5 DEF DeskHolds
<1>7. IsFiniteSet(refs \ d.refs)
  BY FS_Subset
<1>8. torn' \subseteq Categories \X Nat /\ IsFiniteSet(torn')
  BY <1>7, FS_Union DEF DeskInv
<1> QED
  BY <1>6, <1>8 DEF DeskInv

\* Time and the owner change what an incident says, never what it holds.
LEMMA IncidentKeepsHold ==
  ASSUME DeskInv, NEW c \in Categories, NEW n \in DOMAIN incidents[c],
         NEW i \in Incident, i.ref = incidents[c][n].ref, i.quarantined = incidents[c][n].quarantined,
         incidents' = [incidents EXCEPT ![c] = [incidents[c] EXCEPT ![n] = i]],
         UNCHANGED <<quarantine, torn>>
  PROVE  DeskInv'
<1>1. PICK d : d = Desk
  OBVIOUS
<1>2. DeskHolds(d, torn) /\ d.incidents = incidents /\ d.refs = quarantine
  BY <1>1 DEF DeskInv, Desk
<1>3. PICK e : e = With(d, c, [d.incidents[c] EXCEPT ![n] = i])
  OBVIOUS
<1>4. DeskHolds(e, torn) /\ e.refs = d.refs
  BY <1>2, <1>3, ChangedHolds
<1>5. e.incidents = incidents'
  BY <1>1, <1>2, <1>3 DEF With, Desk
<1> QED
  BY <1>2, <1>4, <1>5, DeskSaved DEF SaveDesk

LEMMA ServerKeepsDesk ==
  ASSUME DeskInv, NEW b, Accept(b) \/ AcceptDies(b) \/ Replay(b) \/ Reject(b)
  PROVE  DeskInv'
<1>1. DeskHolds(Swept, torn) /\ IsFiniteSet(torn)
  BY SweptHolds DEF DeskInv
<1>2. PICK d : d = Swept
  OBVIOUS
<1>3. DeskHolds(d, torn)
  BY <1>1, <1>2
<1>4. CASE Accept(b)
  <2>1. PICK health : health = Health(Renewed(b))
    OBVIOUS
  <2>2. SaveDesk(Reconciled(health, d)) /\ torn' = torn
    BY <1>2, <1>4, <2>1 DEF Accept
  <2> QED
    BY <1>1, <1>3, <2>2, ReconciledHolds, DeskSaved
<1>5. CASE AcceptDies(b)
  <2>1. SaveDesk(d) /\ torn' = torn
    BY <1>2, <1>5 DEF AcceptDies, Tear
  <2> QED
    BY <1>3, <2>1, DeskSaved
<1>6. CASE Replay(b)
  <2>1. PICK health : health = Health(runtime)
    OBVIOUS
  <2>2. SaveDesk(Reconciled(health, d)) /\ torn' = torn
    BY <1>2, <1>6, <2>1 DEF Replay
  <2> QED
    BY <1>1, <1>3, <2>2, ReconciledHolds, DeskSaved
<1>7. CASE Reject(b)
  <2>1. PICK f : f = IF Enrolled THEN FailureRecorded(d) ELSE d
    OBVIOUS
  <2>2. DeskHolds(f, torn) /\ d.refs \subseteq f.refs
    BY <1>1, <1>3, <2>1, FailureHolds
  <2>3. \/ SaveDesk(f) /\ torn' = torn
        \/ quarantine' = f.refs /\ incidents' = d.incidents /\ torn' = torn \cup (f.refs \ d.refs)
    BY <1>2, <1>7, <2>1 DEF Reject, Tear
  <2>4. f.refs \in SUBSET (Categories \X Nat) /\ IsFiniteSet(f.refs)
    BY <2>2 DEF DeskHolds
  <2>5. CASE SaveDesk(f) /\ torn' = torn
    BY <2>2, <2>5, DeskSaved
  <2>6. CASE quarantine' = f.refs /\ incidents' = d.incidents /\ torn' = torn \cup (f.refs \ d.refs)
    BY <1>3, <2>2, <2>4, <2>6, DeskTorn
  <2> QED
    BY <2>3, <2>5, <2>6
<1> QED
  BY <1>4, <1>5, <1>6, <1>7

LEMMA SweepKeepsDesk ==
  ASSUME DeskInv, (SaveDesk(Swept) /\ torn' = torn) \/ SweepDies
  PROVE  DeskInv'
<1>1. PICK d, e : d = Desk /\ e = Swept
  OBVIOUS
<1>2. /\ DeskHolds(d, torn) /\ d.refs = quarantine /\ d.incidents = incidents
      /\ DeskHolds(e, torn) /\ quarantine \subseteq e.refs
  BY <1>1, SweptHolds DEF DeskInv, Desk
<1>3. CASE SaveDesk(Swept) /\ torn' = torn
  BY <1>1, <1>2, <1>3, DeskSaved
<1>4. CASE SweepDies
  <2>1. incidents' = d.incidents /\ quarantine' = e.refs /\ torn' = torn \cup (e.refs \ d.refs)
    BY <1>1, <1>2, <1>4 DEF SweepDies, Tear
  <2>2. e.refs \in SUBSET (Categories \X Nat) /\ IsFiniteSet(e.refs)
    BY <1>2 DEF DeskHolds
  <2> QED
    BY <1>2, <2>1, <2>2, DeskTorn
<1> QED
  BY <1>3, <1>4

LEMMA WindowKeepsDesk ==
  ASSUME DeskInv, WindowPasses
  PROVE  DeskInv'
<1> DEFINE c == "runtime-recovery-failure"
<1>1. PICK n \in DOMAIN incidents[c] : incidents' = [incidents EXCEPT ![c][n].recent = FALSE]
  BY DEF WindowPasses
<1>2. c \in Categories /\ incidents[c] \in Seq(Incident)
  BY DEF Categories, DeskInv, DeskHolds, Desk
<1>3. incidents[c][n] \in Incident
  BY <1>2
<1>4. PICK i : i = [incidents[c][n] EXCEPT !.recent = FALSE]
  OBVIOUS
<1>5. i \in Incident /\ i.ref = incidents[c][n].ref /\ i.quarantined = incidents[c][n].quarantined
  BY <1>3, <1>4 DEF Incident
<1>6. incidents' = [incidents EXCEPT ![c] = [incidents[c] EXCEPT ![n] = i]]
  BY <1>1, <1>4
<1> QED
  BY <1>2, <1>5, <1>6, IncidentKeepsHold DEF WindowPasses

LEMMA AcknowledgementKeepsDesk ==
  ASSUME DeskInv, NEW c \in Categories, NEW n \in DOMAIN incidents[c], AcknowledgeIncident(c, n)
  PROVE  DeskInv'
<1>1. incidents' = [incidents EXCEPT ![c][n].acked = TRUE]
  BY DEF AcknowledgeIncident
<1>2. incidents[c] \in Seq(Incident)
  BY DEF DeskInv, DeskHolds, Desk
<1>3. incidents[c][n] \in Incident
  BY <1>2
<1>4. PICK i : i = [incidents[c][n] EXCEPT !.acked = TRUE]
  OBVIOUS
<1>5. i \in Incident /\ i.ref = incidents[c][n].ref /\ i.quarantined = incidents[c][n].quarantined
  BY <1>3, <1>4 DEF Incident
<1>6. incidents' = [incidents EXCEPT ![c] = [incidents[c] EXCEPT ![n] = i]]
  BY <1>1, <1>4
<1>7. UNCHANGED <<quarantine, torn>>
  BY DEF AcknowledgeIncident
<1> QED
  BY <1>5, <1>6, <1>7, IncidentKeepsHold

\* resolveIncident() lets go of the hold of its own incident and of no other.
LEMMA ResolutionKeepsDesk ==
  ASSUME DeskInv, NEW c \in Categories, NEW n \in DOMAIN incidents[c], ResolveIncident(c, n)
  PROVE  DeskInv'
<1> DEFINE q == incidents[c]  hold == <<c, q[n].ref>>
           held == q[n].quarantined /\ quarantine # {}
           refs == IF held THEN quarantine \ {hold} ELSE quarantine
<1>1. /\ incidents \in [Categories -> Seq(Incident)] /\ q \in Seq(Incident) /\ q[n] \in Incident
      /\ quarantine \subseteq Categories \X Nat /\ IsFiniteSet(quarantine)
      /\ torn \subseteq Categories \X Nat /\ IsFiniteSet(torn)
      /\ \A k \in Categories : QueueHolds(k, incidents[k], quarantine, torn)
  BY DEF DeskInv, DeskHolds, Desk
<1>2. quarantine' = refs
  BY DEF ResolveIncident
<1>3. hold \in Categories \X Nat
  BY <1>1 DEF Incident
<1>4. refs \subseteq Categories \X Nat /\ IsFiniteSet(refs)
  BY <1>1, FS_Subset
<1>5. ASSUME NEW k \in Categories \ {c}, NEW lost
      PROVE  QueueHolds(k, incidents[k], refs, torn) /\ QueueHolds(k, incidents[k], refs, torn \cup {hold})
  <2>1. QueueHolds(k, incidents[k], quarantine, torn)
    BY <1>1
  <2> QED
    BY <2>1 DEF QueueHolds
<1>6. CASE incidents' = [incidents EXCEPT ![c] = RemoveAt(@, n)] /\ torn' = torn
  <2>1. QueueHolds(c, RemoveAt(q, n), refs, torn)
    <3>1. QueueHolds(c, q, quarantine, torn)
      BY <1>1
    <3>2. CASE held
      BY <3>1, <3>2, QueueReleased
    <3>3. CASE ~held
      BY <3>1, <3>3, QueueShortened
    <3> QED
      BY <3>2, <3>3
  <2>2. /\ incidents' \in [Categories -> Seq(Incident)] /\ incidents'[c] = RemoveAt(q, n)
        /\ \A k \in Categories \ {c} : incidents'[k] = incidents[k]
    BY <1>1, <1>6, RemovedAt
  <2>3. \A k \in Categories : QueueHolds(k, incidents'[k], quarantine', torn')
    BY <1>2, <1>5, <1>6, <2>1, <2>2
  <2> QED
    BY <1>1, <1>2, <1>4, <1>6, <2>2, <2>3 DEF DeskInv, DeskHolds, Desk
<1>7. CASE held /\ torn' = torn \cup {hold} /\ incidents' = incidents
  <2>1. QueueHolds(c, q, refs, torn \cup {hold})
    BY <1>1, <1>7, QueueReleased
  <2>2. \A k \in Categories : QueueHolds(k, incidents'[k], quarantine', torn')
    BY <1>2, <1>5, <1>7, <2>1
  <2>3. torn' \subseteq Categories \X Nat /\ IsFiniteSet(torn')
    BY <1>1, <1>3, <1>7, FS_AddElement
  <2> QED
    BY <1>1, <1>2, <1>4, <1>7, <2>2, <2>3 DEF DeskInv, DeskHolds, Desk
<1> QED
  BY <1>6, <1>7 DEF ResolveIncident, Tear

LEMMA InitDesk == WatchInit => DeskInv
<1> SUFFICES ASSUME WatchInit PROVE DeskInv
  OBVIOUS
<1>1. quarantine = {} /\ torn = {} /\ incidents = [c \in Categories |-> <<>>]
  BY DEF WatchInit
<1>2. IsFiniteSet({})
  BY FS_EmptySet
<1>3. \A c \in Categories : QueueHolds(c, <<>>, {}, {})
  BY DEF QueueHolds
<1> QED
  BY <1>1, <1>2, <1>3 DEF DeskInv, DeskHolds, Desk

LEMMA NextKeepsDesk == DeskInv /\ [WatchNext]_watchVars => DeskInv'
<1> SUFFICES ASSUME DeskInv, [WatchNext]_watchVars
             PROVE  DeskInv'
  OBVIOUS
<1>1. CASE UNCHANGED <<incidents, quarantine, torn>>
  BY <1>1 DEF DeskInv, DeskHolds, Desk
<1>2. ASSUME NEW s \in Supervisors
      PROVE  /\ Ask(s) => SaveDesk(Swept) /\ torn' = torn
             /\ Deliver(s) => LET b == file[s].pending
                              IN Accept(b) \/ AcceptDies(b) \/ Replay(b) \/ Reject(b)
             /\ Reconcile(s) \/ Resend(s) \/ Compose(s) \/ Refuse(s) \/ Acknowledge(s) \/ GiveUp(s)
                  => UNCHANGED <<incidents, quarantine, torn>>
  BY DEF Ask, Deliver, Reconcile, Resend, Compose, Refuse, Acknowledge, GiveUp, server
<1>3. ASSUME NEW b, DeliverLate(b)
      PROVE  Accept(b) \/ AcceptDies(b) \/ Replay(b) \/ Reject(b)
  BY <1>3 DEF DeliverLate
<1>4. \/ \E s \in Supervisors :
           Ask(s) \/ Reconcile(s) \/ Resend(s) \/ Compose(s) \/ Refuse(s)
           \/ Deliver(s) \/ Acknowledge(s) \/ GiveUp(s)
      \/ \E b \in late : DeliverLate(b)
      \/ WindowPasses \/ (SaveDesk(Swept) /\ torn' = torn) \/ SweepDies
      \/ \E c \in Categories : \E n \in DOMAIN incidents[c] :
           AcknowledgeIncident(c, n) \/ ResolveIncident(c, n)
      \/ UNCHANGED <<incidents, quarantine, torn>>
  BY DEF WatchNext, watchVars, server, Age, Sweep
<1> QED
  BY <1>1, <1>2, <1>3, <1>4, ServerKeepsDesk, SweepKeepsDesk, WindowKeepsDesk,
     AcknowledgementKeepsDesk, ResolutionKeepsDesk

-----------------------------------------------------------------------------
(* The theorems                                                            *)

WatchInv == RelayInv /\ DeskInv

LEMMA WatchHolds == WatchSpec => []WatchInv
<1>1. WatchInit => WatchInv
  BY InitRelay, InitDesk DEF WatchInv
<1>2. WatchInv /\ [WatchNext]_watchVars => WatchInv'
  BY NextKeepsRelay, NextKeepsDesk DEF WatchInv
<1> QED
  BY <1>1, <1>2, PTL DEF WatchSpec

\* Every lease, file, message under way, incident and hold has the shape its
\* module gives it: sessions, numbers and checkpoints stay within what was issued,
\* and no two active incidents of a category share a reference.
THEOREM WatchTyped == WatchSpec => []WatchTypeOK
<1>1. WatchInv => WatchTypeOK
  <2> SUFFICES ASSUME WatchInv PROVE WatchTypeOK
    OBVIOUS
  <2>1. RelayTypeOK
    BY DEF WatchInv, RelayInv
  <2>2. /\ incidents \in [Categories -> Seq(Incident)]
        /\ quarantine \subseteq Categories \X Nat /\ torn \subseteq Categories \X Nat
        /\ \A c \in Categories : QueueHolds(c, incidents[c], quarantine, torn)
    BY DEF WatchInv, DeskInv, DeskHolds, Desk
  <2>3. \A c \in Categories : \A m, n \in DOMAIN incidents[c] :
          incidents[c][m].ref = incidents[c][n].ref => m = n
    BY <2>2 DEF QueueHolds
  <2> QED
    BY <2>1, <2>2, <2>3 DEF WatchTypeOK, RelayTypeOK, Incident
<1> QED
  BY <1>1, WatchHolds, PTL

\* Whatever is lost, late or resent, and whichever supervisors restart: every
\* heartbeat written ahead is accepted once or still pending, and the accepted
\* ones are one line of sessions, each taking over at the exact checkpoint the
\* one before it left.
THEOREM BeatsAcceptedOnce == WatchSpec => []EveryBeatOnce
<1>1. WatchInv => EveryBeatOnce
  BY DEF WatchInv, RelayInv, EveryBeatOnce
<1> QED
  BY <1>1, WatchHolds, PTL

\* The lease's holds are those of the active incidents, but for the ones a crash
\* between the two saves has separated.
THEOREM HoldsAccounted == WatchSpec => []QuarantineAccounted
<1>1. WatchInv => QuarantineAccounted
  <2> SUFFICES ASSUME WatchInv PROVE QuarantineAccounted
    OBVIOUS
  <2>1. /\ incidents \in [Categories -> Seq(Incident)] /\ quarantine \subseteq Categories \X Nat
        /\ \A c \in Categories : QueueHolds(c, incidents[c], quarantine, torn)
    BY DEF WatchInv, DeskInv, DeskHolds, Desk
  <2>2. ASSUME NEW c \in Categories, NEW i \in ToSet(incidents[c]), i.quarantined
        PROVE  <<c, i.ref>> \in quarantine \cup torn
    BY <2>1, <2>2 DEF QueueHolds, ToSet
  <2>3. ASSUME NEW hold \in quarantine \ torn
        PROVE  \E i \in ToSet(incidents[hold[1]]) : i.ref = hold[2] /\ i.quarantined
    <3>1. PICK c \in Categories, ref \in Nat : hold = <<c, ref>>
      BY <2>1
    <3>2. PICK n \in DOMAIN incidents[c] : incidents[c][n].ref = ref /\ incidents[c][n].quarantined
      BY <2>1, <2>3, <3>1 DEF QueueHolds
    <3> QED
      BY <3>1, <3>2 DEF ToSet
  <2> QED
    BY <2>2, <2>3 DEF QuarantineAccounted
<1> QED
  BY <1>1, WatchHolds, PTL

\* A lease that leaves "offline" leaves it by a heartbeat, whose handler has
\* reconciled first: the outage is an incident and holds the runtime.
THEOREM OutagesSeen == WatchSpec => NoOutageUnseen
<1>1. WatchInv /\ [WatchNext]_watchVars =>
        [Enrolled /\ Health(runtime) = "offline" /\ Health(runtime') # "offline"
           => quarantine' # {} \/ torn # {}]_watchVars
  <2> SUFFICES ASSUME WatchInv, [WatchNext]_watchVars, Enrolled,
                      Health(runtime) = "offline", Health(runtime') # "offline"
               PROVE  quarantine' # {} \/ torn # {}
    OBVIOUS
  <2>1. Swept.refs # {} \/ torn # {}
    BY SweptHolds DEF WatchInv
  <2>2. DeskHolds(Swept, torn) /\ IsFiniteSet(torn)
    BY SweptHolds DEF WatchInv, DeskInv
  <2>3. runtime' # runtime
    OBVIOUS
  <2>4. ~Age
    <3>1. runtime.age = "offline"
      BY DEF Health
    <3> QED
      BY <3>1 DEF Age
  <2>5. PICK b : Accept(b) \/ AcceptDies(b)
    <3>1. \A b : Replay(b) \/ Reject(b) => runtime' = runtime
      BY DEF Replay, Reject
    <3>2. \A s \in Supervisors : Deliver(s) => \E b : Accept(b) \/ AcceptDies(b) \/ Replay(b) \/ Reject(b)
      BY DEF Deliver
    <3>3. \A b : DeliverLate(b) => Accept(b) \/ AcceptDies(b) \/ Replay(b) \/ Reject(b)
      BY DEF DeliverLate
    <3>4. (\E s \in Supervisors : Deliver(s)) \/ (\E b \in late : DeliverLate(b))
      BY <2>3, <2>4 DEF WatchNext, watchVars, server, Ask, Reconcile, Resend, Compose, Refuse,
         Acknowledge, GiveUp, WindowPasses, Sweep, SweepDies, AcknowledgeIncident, ResolveIncident
    <3> QED
      BY <2>3, <3>1, <3>2, <3>3, <3>4
  <2>6. PICK d, health : d = Swept /\ health = Health(Renewed(b))
    OBVIOUS
  <2>7. DeskHolds(d, torn) /\ (d.refs # {} \/ torn # {})
    BY <2>1, <2>2, <2>6
  <2>8. CASE Accept(b)
    <3>1. quarantine' = Reconciled(health, d).refs
      BY <2>6, <2>8 DEF Accept, SaveDesk
    <3>2. d.refs \subseteq Reconciled(health, d).refs
      BY <2>2, <2>7, ReconciledHolds
    <3> QED
      BY <2>7, <3>1, <3>2
  <2>9. CASE AcceptDies(b)
    BY <2>6, <2>7, <2>9 DEF AcceptDies, SaveDesk
  <2> QED
    BY <2>5, <2>8, <2>9
<1> QED
  BY <1>1, WatchHolds, PTL DEF WatchSpec, NoOutageUnseen
=============================================================================
