--------------------------- MODULE PointClaimsProofs ---------------------------
(***************************************************************************)
(* SettledOnce and Solvent for any number of users, claims, transactions   *)
(* and restarts.  Types follows an amount from a claim through the         *)
(* script's plan and a transaction to a conversion.  What the converter    *)
(* owes is a set of points, one per point a user may still convert, so     *)
(* that a sum over users is a cardinality.                                 *)
(***************************************************************************)
EXTENDS PointClaims, FiniteSetTheorems, TLAPS

Rows == UNION {[S -> Int] : S \in SUBSET Claims}
Txs == [rows : Rows, state : {"pending", "mined", "reverted"}]
Conversions == [user : Users, amount : Int]
Runs == [at : {"off", "sending", "sent", "waiting"}, left : SUBSET Claims, amount : [Claims -> Int], tx : Int]

ServerTypes ==
  /\ claim \in [Claims -> Statuses]
  /\ settledBy \in [Claims -> Nat]
ChainTypes ==
  /\ approved \in [Users -> Int] /\ paid \in [Users -> Int]
  /\ conversions \in Seq(Conversions)
  /\ txs \in Seq(Txs)
ScriptTypes ==
  /\ snapshot \subseteq Claims
  /\ run \in Runs
Types == ServerTypes /\ ChainTypes /\ ScriptTypes

IInv == Types /\ SettledOnce

-----------------------------------------------------------------------------
(* The types                                                               *)

LEMMA MinedApprovals ==
  ASSUME Types, NEW n \in DOMAIN txs, Mine(n)
  PROVE  ChainTypes'
  <1>1. txs[n] \in Txs /\ n \in 1..Len(txs)
    BY DEF Types, ChainTypes
  <1>2. PICK S \in SUBSET Claims : txs[n].rows \in [S -> Int]
    BY <1>1 DEF Txs, Rows
  <1>3. txs' \in Seq(Txs)
    <2>1. PICK state \in {"mined", "reverted"} : txs' = [txs EXCEPT ![n].state = state]
      BY DEF Mine
    <2>2. [txs[n] EXCEPT !.state = state] \in Txs
      BY <1>1 DEF Txs
    <2>3. txs' = [txs EXCEPT ![n] = [txs[n] EXCEPT !.state = state]]
      BY <2>1
    <2>4. txs \in Seq(Txs)
      BY DEF Types, ChainTypes
    <2> QED
      BY <1>1, <2>2, <2>3, <2>4
  <1>4. approved' \in [Users -> Int]
    <2>1. CASE UNCHANGED approved
      BY <2>1 DEF Types, ChainTypes
    <2>2. CASE approved' = ApprovedBy(txs[n].rows)
      <3>1. \A u \in Users : (\E c \in DOMAIN txs[n].rows : Owner[c] = u) =>
              txs[n].rows[CHOOSE c \in DOMAIN txs[n].rows : Owner[c] = u] \in Int
        BY <1>2
      <3> QED
        BY <2>2, <3>1 DEF ApprovedBy, Types, ChainTypes
    <2> QED
      BY <2>1, <2>2 DEF Mine
  <1>5. paid' = paid /\ conversions' = conversions
    BY DEF Mine
  <1> QED
    BY <1>3, <1>4, <1>5 DEF Types, ChainTypes

\* What a run's record may be changed to.
LEMMA RunsKept ==
  ASSUME NEW r \in Runs, NEW at \in {"off", "sending", "sent", "waiting"}, NEW tx \in Int,
         NEW left \in SUBSET Claims
  PROVE  /\ [r EXCEPT !.at = at] \in Runs
         /\ [r EXCEPT !.at = at, !.tx = tx] \in Runs
         /\ [r EXCEPT !.at = at, !.left = left, !.tx = tx] \in Runs
  BY DEF Runs

LEMMA Submitted ==
  ASSUME Types, NEW chunk \in SUBSET Claims, SubmitChunk(chunk)
  PROVE  ChainTypes' /\ ScriptTypes'
  <1> DEFINE rows == [c \in chunk |-> run.amount[c]]
  <1>1. run \in Runs /\ txs \in Seq(Txs)
    BY DEF Types, ChainTypes, ScriptTypes
  <1>2. rows \in [chunk -> Int]
    BY <1>1 DEF Runs
  <1>3. [rows |-> rows, state |-> "pending"] \in Txs
    BY <1>2 DEF Txs, Rows
  <1>4. txs' = Append(txs, [rows |-> rows, state |-> "pending"])
    BY DEF SubmitChunk
  <1>5. txs' \in Seq(Txs)
    BY <1>1, <1>3, <1>4
  <1>6. run' \in Runs
    <2>1. Len(txs) + 1 \in Int
      BY <1>1
    <2>2. run' = [run EXCEPT !.at = "sent", !.tx = Len(txs) + 1]
      BY DEF SubmitChunk
    <2> QED
      BY <1>1, <2>1, <2>2, RunsKept, {} \in SUBSET Claims
  <1> QED
    BY <1>5, <1>6 DEF SubmitChunk, Types, ChainTypes, ScriptTypes, converter

LEMMA Planned ==
  ASSUME Types, Plan
  PROVE  ScriptTypes'
  <1>1. ASSUME NEW c \in Claims PROVE Expected(c) \in Int
    <2>1. Owner[c] \in Users /\ Points[c] \in Int
      BY OwnerAssumption, PointsAssumption
    <2>2. paid[Owner[c]] \in Int
      BY <2>1 DEF Types, ChainTypes
    <2> QED
      BY <2>1, <2>2 DEF Expected
  <1>2. NoRun \in Runs
    BY DEF NoRun, Runs
  <1>3. [c \in Claims |-> IF c \in snapshot THEN Expected(c) ELSE 0] \in [Claims -> Int]
    BY <1>1
  <1>4. snapshot \ Confirmed \subseteq Claims
    BY DEF Types, ScriptTypes
  <1>5. run' \in Runs
    BY <1>2, <1>3, <1>4 DEF Plan, Runs
  <1> QED
    BY <1>5 DEF Plan, Types, ScriptTypes

LEMMA Converted ==
  ASSUME Types, NEW u \in Users, Convert(u)
  PROVE  /\ ChainTypes'
         /\ \A k \in DOMAIN conversions : k \in DOMAIN conversions' /\ conversions'[k] = conversions[k]
  <1> DEFINE amount == approved[u] - paid[u]
  <1>1. amount \in Int /\ conversions \in Seq(Conversions)
    BY DEF Types, ChainTypes
  <1>2. [user |-> u, amount |-> amount] \in Conversions
    BY <1>1 DEF Conversions
  <1>3. conversions' = Append(conversions, [user |-> u, amount |-> amount])
    BY DEF Convert
  <1>4. paid' \in [Users -> Int]
    BY <1>1 DEF Convert, Types, ChainTypes
  <1>5. conversions' \in Seq(Conversions)
    BY <1>1, <1>2, <1>3
  <1>6. \A k \in DOMAIN conversions : k \in DOMAIN conversions' /\ conversions'[k] = conversions[k]
    BY <1>1, <1>2, <1>3
  <1> QED
    BY <1>4, <1>5, <1>6 DEF Convert, Types, ChainTypes

LEMMA TypesKept == Types /\ [Next]_vars => Types'
  <1> SUFFICES ASSUME Types, [Next]_vars PROVE Types'
    OBVIOUS
  <1>0. run \in Runs /\ NoRun \in Runs
    BY DEF Types, ScriptTypes, NoRun, Runs
  <1>1. ASSUME NEW u \in Users, Credit(u) PROVE Types'
    BY <1>1 DEF Credit, converter, operator, Types, ServerTypes, ChainTypes, ScriptTypes
  <1>2. ASSUME NEW c \in Claims, Handler(c) PROVE Types'
    <2>1. UNCHANGED <<converter, txs, operator>>
      BY <1>2 DEF Handler, ReserveClaim, ProveApproval, MarkApproved, ReleaseClaim, ConfirmClaimed, ConfirmFails
    <2>2. CASE UNCHANGED <<claim, settledBy>>
      BY <2>1, <2>2 DEF converter, operator, Types, ServerTypes, ChainTypes, ScriptTypes
    <2>3. CASE ReserveClaim(c) \/ MarkApproved(c) \/ ReleaseClaim(c)
      <3>1. ServerTypes'
        BY <2>3 DEF ReserveClaim, MarkApproved, ReleaseClaim, Types, ServerTypes, Statuses
      <3> QED
        BY <2>1, <3>1 DEF converter, operator, Types, ChainTypes, ScriptTypes
    <2>4. ASSUME NEW k \in DOMAIN conversions, ConfirmClaimed(c, k) PROVE Types'
      <3>1. k \in Nat
        BY DEF Types, ChainTypes
      <3>2. ServerTypes'
        BY <2>4, <3>1 DEF ConfirmClaimed, Types, ServerTypes, Statuses
      <3> QED
        BY <2>1, <3>2 DEF converter, operator, Types, ChainTypes, ScriptTypes
    <2> QED
      BY <1>2, <2>2, <2>3, <2>4 DEF Handler, ProveApproval, ConfirmFails
  <1>3. CASE Restart
    BY <1>3 DEF Restart, converter, operator, Types, ServerTypes, ChainTypes, ScriptTypes
  <1>4. CASE Chain
    <2>1. UNCHANGED <<server, operator>>
      BY <1>4 DEF Chain, Mine, Convert, FundReserve, WithdrawReserve, CloseApprovals
    <2>2. ChainTypes'
      <3>1. ASSUME NEW n \in DOMAIN txs, Mine(n) PROVE ChainTypes'
        BY <3>1, MinedApprovals
      <3>2. ASSUME NEW u \in Users, Convert(u) PROVE ChainTypes'
        BY <3>2, Converted
      <3>3. CASE UNCHANGED <<approved, paid, conversions, txs>>
        BY <3>3 DEF Types, ChainTypes
      <3> QED
        BY <1>4, <3>1, <3>2, <3>3 DEF Chain, FundReserve, WithdrawReserve, CloseApprovals
    <2> QED
      BY <2>1, <2>2 DEF server, operator, Types, ServerTypes, ScriptTypes
  <1>5. CASE Script
    <2>1. UNCHANGED <<server, converter>>
      BY <1>5 DEF Script, Plan, WriteManifest, ChunkConfirmed, ChunkReverted, Complete, ScriptStops, SubmitChunk, NewSnapshot
    <2>2. ChainTypes' /\ ScriptTypes'
      <3>1. CASE Plan
        BY <3>1, <2>1, Planned DEF Plan, converter, Types, ChainTypes
      <3>2. ASSUME NEW S \in SUBSET Claims, SubmitChunk(S) PROVE ChainTypes' /\ ScriptTypes'
        BY <3>2, Submitted
      <3>3. ASSUME NEW S \in SUBSET Claims, NewSnapshot(S) PROVE ChainTypes' /\ ScriptTypes'
        BY <3>3, <2>1 DEF NewSnapshot, converter, Types, ChainTypes, ScriptTypes
      <3>4. CASE WriteManifest \/ ChunkConfirmed
        <4>1. run' \in Runs
          <5>0. 0 \in Int
            OBVIOUS
          <5>1. run.left \ DOMAIN txs[run.tx].rows \in SUBSET Claims
            BY <1>0 DEF Runs
          <5>2. CASE WriteManifest
            <6>1. run' = [run EXCEPT !.at = "waiting"]
              BY <5>2 DEF WriteManifest
            <6> QED
              BY <1>0, <5>1, <6>1, <5>0, RunsKept, Zenon
          <5>3. CASE ChunkConfirmed
            <6>1. run' = [run EXCEPT !.at = "sending", !.left = run.left \ DOMAIN txs[run.tx].rows, !.tx = 0]
              BY <5>3 DEF ChunkConfirmed
            <6> QED
              BY <1>0, <5>1, <6>1, <5>0, RunsKept, Zenon
          <5> QED
            BY <3>4, <5>2, <5>3
        <4> QED
          BY <2>1, <3>4, <4>1 DEF WriteManifest, ChunkConfirmed, converter, Types, ChainTypes, ScriptTypes
      <3>5. CASE ChunkReverted \/ Complete \/ ScriptStops
        BY <1>0, <2>1, <3>5 DEF ChunkReverted, Complete, ScriptStops, converter, Types, ChainTypes, ScriptTypes
      <3> QED
        BY <1>5, <3>1, <3>2, <3>3, <3>4, <3>5 DEF Script
    <2> QED
      BY <2>1, <2>2 DEF server, Types, ServerTypes
  <1>6. CASE UNCHANGED vars
    BY <1>6 DEF vars, server, converter, operator, Types, ServerTypes, ChainTypes, ScriptTypes
  <1> QED
    BY <1>1, <1>2, <1>3, <1>4, <1>5, <1>6 DEF Next

-----------------------------------------------------------------------------
(* Settlements                                                             *)

\* A step that settles nothing: claims keep or leave a status that is not claimed,
\* the conversions so far stay, and what is no longer debited is forgotten.
LEMMA Unsettled ==
  ASSUME SettledOnce,
         \A c \in Claims : claim'[c] = "claimed" => claim[c] = "claimed",
         settledBy' = settledBy,
         \A k \in DOMAIN conversions : k \in DOMAIN conversions' /\ conversions'[k] = conversions[k],
         forgotten \subseteq forgotten',
         \A c \in Claims : claim[c] = "claimed" /\ c \in debits => c \in debits' \/ Owner[c] \in forgotten'
  PROVE  SettledOnce'
  BY DEF SettledOnce

LEMMA SettledKept == IInv /\ [Next]_vars => SettledOnce'
  <1> SUFFICES ASSUME IInv, [Next]_vars PROVE SettledOnce'
    OBVIOUS
  <1> USE DEF IInv
  <1>1. ASSUME NEW u \in Users, Credit(u) PROVE SettledOnce'
    BY <1>1 DEF Credit, converter, SettledOnce
  <1>2. ASSUME NEW c \in Claims, Handler(c) PROVE SettledOnce'
    <2>1. CASE ReserveClaim(c) \/ MarkApproved(c) \/ ReleaseClaim(c) \/ ProveApproval(c)
      <3>1. \A d \in Claims : claim'[d] = "claimed" => claim[d] = "claimed"
        BY <2>1 DEF ReserveClaim, MarkApproved, ReleaseClaim, ProveApproval, Types, ServerTypes
      <3>2. UNCHANGED <<settledBy, debits, forgotten, conversions>>
        BY <2>1 DEF ReserveClaim, MarkApproved, ReleaseClaim, ProveApproval, converter
      <3> QED
        BY <3>1, <3>2, Unsettled
    <2>2. ASSUME NEW k \in DOMAIN conversions, ConfirmFails(c, k) PROVE SettledOnce'
      BY <2>2, Unsettled DEF ConfirmFails, converter
    <2>3. ASSUME NEW k \in DOMAIN conversions, ConfirmClaimed(c, k) PROVE SettledOnce'
      <3>1. claim[c] = "approved" /\ conversions[k] = [user |-> Owner[c], amount |-> Points[c]]
            /\ \A d \in Claims : settledBy[d] # k
        BY <2>3 DEF ConfirmClaimed, Settles
      <3>2. /\ claim' = [claim EXCEPT ![c] = "claimed"] /\ settledBy' = [settledBy EXCEPT ![c] = k]
            /\ debits' = debits \cup {c} /\ UNCHANGED <<forgotten, conversions>>
        BY <2>3 DEF ConfirmClaimed, converter
      <3>3. claim \in [Claims -> Statuses] /\ settledBy \in [Claims -> Nat]
        BY DEF Types, ServerTypes
      <3>4. /\ settledBy'[c] = k /\ claim'[c] = "claimed"
            /\ \A d \in Claims \ {c} : settledBy'[d] = settledBy[d] /\ claim'[d] = claim[d]
        BY <3>2, <3>3
      <3> QED
        BY <3>1, <3>2, <3>4 DEF SettledOnce
    <2> QED
      BY <1>2, <2>1, <2>2, <2>3 DEF Handler
  <1>3. CASE Restart
    <2>1. \A c \in Claims : claim[c] = "claimed" /\ c \in debits => c \in debits' \/ Owner[c] \in forgotten'
      BY <1>3 DEF Restart
    <2> QED
      BY <1>3, <2>1, Unsettled DEF Restart, converter
  <1>4. CASE Chain
    <2>1. UNCHANGED server
      BY <1>4 DEF Chain, Mine, Convert, FundReserve, WithdrawReserve, CloseApprovals
    <2>2. \A k \in DOMAIN conversions : k \in DOMAIN conversions' /\ conversions'[k] = conversions[k]
      <3>1. ASSUME NEW u \in Users, Convert(u)
            PROVE  \A k \in DOMAIN conversions : k \in DOMAIN conversions' /\ conversions'[k] = conversions[k]
        BY <3>1, Converted
      <3>2. CASE UNCHANGED conversions
        BY <3>2
      <3> QED
        BY <1>4, <3>1, <3>2 DEF Chain, Mine, FundReserve, WithdrawReserve, CloseApprovals
    <2> QED
      BY <2>1, <2>2, Unsettled DEF server
  <1>5. CASE Script
    <2>1. UNCHANGED <<server, converter>>
      BY <1>5 DEF Script, Plan, WriteManifest, ChunkConfirmed, ChunkReverted, Complete, ScriptStops, SubmitChunk, NewSnapshot
    <2> QED
      BY <2>1 DEF server, converter, SettledOnce
  <1>6. CASE UNCHANGED vars
    BY <1>6 DEF vars, server, converter, SettledOnce
  <1> QED
    BY <1>1, <1>2, <1>3, <1>4, <1>5, <1>6 DEF Next

LEMMA InitSettled == Init => IInv
  <1> SUFFICES ASSUME Init PROVE IInv
    OBVIOUS
  <1>1. ServerTypes /\ ScriptTypes
    BY DEF Init, ServerTypes, ScriptTypes, Statuses, NoRun, Runs
  <1>2. ChainTypes
    BY DEF Init, ChainTypes
  <1>3. SettledOnce
    BY DEF Init, SettledOnce
  <1> QED
    BY <1>1, <1>2, <1>3 DEF IInv, Types

\* Every settled claim has a conversion of its own owner, of its own amount and of
\* its own, and its debit, whatever the number of claims, users, resumed snapshots
\* and restarts (confirmClaimedOnchain, debitForConversion).
THEOREM ClaimsSettledOnce == Spec => []SettledOnce
  <1>1. IInv /\ [Next]_vars => IInv'
    BY TypesKept, SettledKept DEF IInv
  <1> QED
    BY <1>1, InitSettled, PTL DEF Spec, IInv

-----------------------------------------------------------------------------
(* The converter                                                           *)

Amounts == [Users -> Int]

LEMMA PointsOfOne ==
  ASSUME NEW a \in Amounts, NEW p \in Amounts, NEW u \in Users
  PROVE  /\ IsFiniteSet({u} \X ((p[u] + 1)..a[u]))
         /\ p[u] <= a[u] => Cardinality({u} \X ((p[u] + 1)..a[u])) = a[u] - p[u]
  <1> DEFINE slots == (p[u] + 1)..a[u]
  <1>1. p[u] \in Int /\ a[u] \in Int /\ p[u] + 1 \in Int
    BY DEF Amounts
  <1>2. IsFiniteSet(slots) /\ Cardinality(slots) = IF p[u] + 1 > a[u] THEN 0 ELSE a[u] - (p[u] + 1) + 1
    BY <1>1, FS_Interval
  <1>3. IsFiniteSet({u}) /\ Cardinality({u}) = 1
    BY FS_Singleton
  <1>4. IsFiniteSet({u} \X slots) /\ Cardinality({u} \X slots) = 1 * Cardinality(slots)
    BY <1>2, <1>3, FS_Product
  <1>5. Cardinality(slots) \in Nat
    BY <1>2, FS_CardinalityType
  <1> QED
    BY <1>1, <1>2, <1>4, <1>5

LEMMA ConvertibleFinite ==
  ASSUME NEW a \in Amounts, NEW p \in Amounts, NEW S \in SUBSET Users
  PROVE  IsFiniteSet(Convertible(S, a, p)) /\ Owing(S, a, p) \in Nat
  <1> DEFINE Of1(u) == {u} \X ((p[u] + 1)..a[u])
             U == {Of1(u) : u \in S}
             f == [u \in S |-> Of1(u)]
  <1>1. IsFiniteSet(S)
    BY UsersAssumption, FS_Subset
  <1>2. f \in Surjection(S, U)
    BY DEF Surjection
  <1>3. IsFiniteSet(U)
    BY <1>1, <1>2, FS_Surjection, Zenon
  <1>4. \A T \in U : IsFiniteSet(T)
    BY PointsOfOne
  <1>5. Convertible(S, a, p) = UNION U
    BY DEF Convertible
  <1>6. IsFiniteSet(UNION U)
    <2> HIDE DEF U
    <2> QED
      BY <1>3, <1>4, FS_UNION
  <1> QED
    BY <1>5, <1>6, FS_CardinalityType DEF Owing

\* What some users are owed and what the others are is what all are.
LEMMA OwingSplits ==
  ASSUME NEW a \in Amounts, NEW p \in Amounts, NEW S \in SUBSET Users
  PROVE  Owing(Users, a, p) = Owing(S, a, p) + Owing(Users \ S, a, p)
  <1> DEFINE A == Convertible(S, a, p)
             B == Convertible(Users \ S, a, p)
  <1>1. Convertible(Users, a, p) = A \cup B
    BY DEF Convertible
  <1>2. A \cap B = {}
    BY DEF Convertible
  <1>3. IsFiniteSet(A) /\ IsFiniteSet(B) /\ Cardinality(A) \in Nat /\ Cardinality(B) \in Nat
    BY ConvertibleFinite DEF Owing
  <1>4. Cardinality(A \cap B) = 0
    BY <1>2, FS_EmptySet
  <1>5. Cardinality(A \cup B) = Cardinality(A) + Cardinality(B) - Cardinality(A \cap B)
    BY <1>3, FS_Union, Zenon
  <1> HIDE DEF A, B
  <1>6. Cardinality(Convertible(Users, a, p)) = Cardinality(A) + Cardinality(B)
    BY <1>1, <1>3, <1>4, <1>5
  <1> QED
    BY <1>6 DEF A, B, Owing

\* Only the amounts of the users asked for matter.
LEMMA OwingLocal ==
  ASSUME NEW a, NEW b, NEW p, NEW q, NEW S,
         \A u \in S : a[u] = b[u] /\ p[u] = q[u]
  PROVE  Owing(S, a, p) = Owing(S, b, q)
  <1>1. Convertible(S, a, p) = Convertible(S, b, q)
    BY DEF Convertible
  <1> QED
    BY <1>1 DEF Owing

LEMMA OwingOne ==
  ASSUME NEW a \in Amounts, NEW p \in Amounts, NEW u \in Users, p[u] <= a[u]
  PROVE  Owing({u}, a, p) = a[u] - p[u]
  <1>1. Convertible({u}, a, p) = {u} \X ((p[u] + 1)..a[u])
    BY DEF Convertible
  <1> QED
    BY <1>1, PointsOfOne DEF Owing

SInv == Types /\ reserve \in Int /\ outstanding \in Int /\ Solvent

\* A transaction that is mined moves what the converter owes by as much as it moves
\* what its users may convert.
LEMMA SolventMined ==
  ASSUME SInv, NEW n \in DOMAIN txs, Mine(n)
  PROVE  reserve' \in Int /\ outstanding' \in Int /\ Solvent'
  <1> DEFINE rows == txs[n].rows
             S == {Owner[c] : c \in DOMAIN rows}
             b == ApprovedBy(rows)
  <1>1. /\ approved \in Amounts /\ paid \in Amounts /\ reserve \in Int /\ outstanding \in Int
        /\ outstanding = Owing(Users, approved, paid) /\ outstanding <= reserve
        /\ \A u \in Users : paid[u] <= approved[u]
    BY DEF SInv, Solvent, Types, ChainTypes, Amounts
  <1>2. paid' = paid /\ reserve' = reserve
    BY DEF Mine
  <1>3. CASE UNCHANGED <<outstanding, approved>>
    BY <1>1, <1>2, <1>3 DEF Solvent
  <1>4. CASE Approvable(rows) /\ outstanding' = OutstandingAfter(rows) /\ approved' = b
    <2>1. b \in Amounts
      BY <1>4, MinedApprovals DEF SInv, ChainTypes, Amounts
    <2>2. DOMAIN rows \subseteq Claims
      <3>1. txs[n] \in Txs
        BY DEF SInv, Types, ChainTypes
      <3>2. PICK T \in SUBSET Claims : txs[n].rows \in [T -> Int]
        BY <3>1 DEF Txs, Rows
      <3> QED
        BY <3>2
    <2>3. S \subseteq Users
      BY <2>2, OwnerAssumption
    <2>4. \A u \in Users \ S : b[u] = approved[u]
      BY DEF ApprovedBy
    <2>5. \A u \in Users : paid[u] <= b[u]
      <3> SUFFICES ASSUME NEW u \in Users PROVE paid[u] <= b[u]
        OBVIOUS
      <3>1. CASE u \notin S
        BY <1>1, <2>4, <3>1
      <3>2. CASE u \in S
        <4> DEFINE c == CHOOSE c \in DOMAIN rows : Owner[c] = u
        <4>1. c \in DOMAIN rows /\ Owner[c] = u
          BY <3>2
        <4>2. b[u] = rows[c]
          BY <3>2 DEF ApprovedBy
        <4> HIDE DEF c, b
        <4>3. rows[c] >= paid[Owner[c]]
          BY <1>4, <4>1 DEF Approvable
        <4>4. b[u] >= paid[u]
          BY <4>1, <4>2, <4>3
        <4> QED
          BY <1>1, <2>1, <4>4 DEF Amounts
      <3> QED
        BY <3>1, <3>2
    <2> HIDE DEF b
    <2>6. Owing(Users \ S, b, paid) = Owing(Users \ S, approved, paid)
      <3>1. \A u \in Users \ S : b[u] = approved[u] /\ paid[u] = paid[u]
        BY <2>4
      <3> HIDE DEF S
      <3> QED
        BY <3>1, OwingLocal
    <2>7. outstanding' = outstanding - Owing(S, approved, paid) + Owing(S, b, paid)
      BY <1>4 DEF OutstandingAfter, b
    <2>8. outstanding' <= reserve
      BY <1>4 DEF Approvable
    <2>9. outstanding' = Owing(Users, b, paid) /\ outstanding' \in Int
      <3> HIDE DEF S
      <3>1. /\ Owing(Users, approved, paid) = Owing(S, approved, paid) + Owing(Users \ S, approved, paid)
            /\ Owing(Users, b, paid) = Owing(S, b, paid) + Owing(Users \ S, b, paid)
        BY <1>1, <2>1, <2>3, OwingSplits
      <3>2. /\ Owing(S, approved, paid) \in Nat /\ Owing(S, b, paid) \in Nat
            /\ Owing(Users \ S, approved, paid) \in Nat
        BY <1>1, <2>1, <2>3, ConvertibleFinite
      <3> QED
        BY <1>1, <2>6, <2>7, <3>1, <3>2
    <2> QED
      BY <1>1, <1>2, <1>4, <2>5, <2>8, <2>9 DEF Solvent
  <1> QED
    BY <1>3, <1>4 DEF Mine

\* A conversion pays what its user is owed, and nobody else's.
LEMMA SolventConverted ==
  ASSUME SInv, NEW u \in Users, Convert(u)
  PROVE  reserve' \in Int /\ outstanding' \in Int /\ Solvent'
  <1>1. /\ approved \in Amounts /\ paid \in Amounts /\ reserve \in Int /\ outstanding \in Int
        /\ outstanding = Owing(Users, approved, paid) /\ outstanding <= reserve
        /\ \A v \in Users : paid[v] <= approved[v]
    BY DEF SInv, Solvent, Types, ChainTypes, Amounts
  <1>2. /\ paid' = [paid EXCEPT ![u] = paid[u] + (approved[u] - paid[u])] /\ approved' = approved
        /\ reserve' = reserve - (approved[u] - paid[u])
        /\ outstanding' = outstanding - (approved[u] - paid[u])
    BY DEF Convert
  <1>3. approved[u] \in Int /\ paid[u] \in Int
    BY <1>1 DEF Amounts
  <1>4. /\ paid' \in Amounts /\ paid'[u] = approved[u]
        /\ \A v \in Users \ {u} : paid'[v] = paid[v]
    BY <1>1, <1>2, <1>3 DEF Amounts
  <1>5. Owing(Users \ {u}, approved, paid') = Owing(Users \ {u}, approved, paid)
    BY <1>4, OwingLocal
  <1>6. Owing({u}, approved, paid) = approved[u] - paid[u] /\ Owing({u}, approved, paid') = 0
    BY <1>1, <1>3, <1>4, OwingOne
  <1>7. /\ Owing(Users, approved, paid) = Owing({u}, approved, paid) + Owing(Users \ {u}, approved, paid)
        /\ Owing(Users, approved, paid') = Owing({u}, approved, paid') + Owing(Users \ {u}, approved, paid')
    BY <1>1, <1>4, OwingSplits
  <1>8. Owing(Users \ {u}, approved, paid) \in Nat
    BY <1>1, ConvertibleFinite
  <1>9. outstanding' = Owing(Users, approved', paid') /\ outstanding' \in Int /\ reserve' \in Int
        /\ outstanding' <= reserve'
    BY <1>1, <1>2, <1>3, <1>5, <1>6, <1>7, <1>8
  <1>10. \A v \in Users : paid'[v] <= approved'[v]
    BY <1>1, <1>2, <1>3, <1>4
  <1> QED
    BY <1>9, <1>10 DEF Solvent

LEMMA SolventKept == SInv /\ [Next]_vars => SInv'
  <1> SUFFICES ASSUME SInv, [Next]_vars PROVE SInv'
    OBVIOUS
  <1>1. Types'
    BY TypesKept DEF SInv
  <1>2. CASE UNCHANGED converter
    BY <1>1, <1>2 DEF converter, SInv, Solvent
  <1>3. ASSUME NEW n \in DOMAIN txs, Mine(n) PROVE SInv'
    BY <1>1, <1>3, SolventMined DEF SInv
  <1>4. ASSUME NEW u \in Users, Convert(u) PROVE SInv'
    BY <1>1, <1>4, SolventConverted DEF SInv
  <1>5. ASSUME NEW amount \in 1..MaxReserve, FundReserve(amount) \/ WithdrawReserve(amount) PROVE SInv'
    <2>1. amount \in Nat
      BY BoundAssumption
    <2>2. UNCHANGED <<approved, paid, outstanding>> /\ reserve' \in {reserve + amount, reserve - amount}
      BY <1>5 DEF FundReserve, WithdrawReserve
    <2>3. outstanding <= reserve'
      BY <1>5, <2>1 DEF FundReserve, WithdrawReserve, SInv, Solvent
    <2> QED
      BY <1>1, <2>1, <2>2, <2>3 DEF SInv, Solvent
  <1>6. CASE CloseApprovals
    BY <1>1, <1>6 DEF CloseApprovals, SInv, Solvent
  <1>7. ASSUME NEW c \in Claims, Handler(c) PROVE UNCHANGED converter
    BY <1>7 DEF Handler, ReserveClaim, ProveApproval, MarkApproved, ReleaseClaim, ConfirmClaimed, ConfirmFails
  <1>8. ASSUME NEW u \in Users, Credit(u) PROVE UNCHANGED converter
    BY <1>8 DEF Credit
  <1>9. Restart \/ Script \/ UNCHANGED vars => UNCHANGED converter
    BY DEF Restart, Script, Plan, WriteManifest, ChunkConfirmed, ChunkReverted, Complete, ScriptStops,
           SubmitChunk, NewSnapshot, vars
  <1> QED
    BY <1>2, <1>3, <1>4, <1>5, <1>6, <1>7, <1>8, <1>9 DEF Next, Chain

LEMMA InitSolvent == Init => SInv
  <1> SUFFICES ASSUME Init PROVE SInv
    OBVIOUS
  <1>1. Types
    BY InitSettled DEF IInv
  <1>2. Convertible(Users, approved, paid) = {}
    <2>1. \A u \in Users : (paid[u] + 1)..approved[u] = {}
      BY DEF Init
    <2> QED
      BY <2>1 DEF Convertible
  <1>3. Owing(Users, approved, paid) = 0
    BY <1>2, FS_EmptySet DEF Owing
  <1> QED
    BY <1>1, <1>3 DEF Init, SInv, Solvent

\* The reserve covers what is owed, and what is owed is what users may still
\* convert, for any users and amounts and in any order of approvals, conversions
\* and withdrawals (approveClaims, convert, withdrawReserve).
THEOREM ConverterSolvent == Spec => []Solvent
  <1>1. SInv => Solvent
    BY DEF SInv
  <1> QED
    BY <1>1, InitSolvent, SolventKept, PTL DEF Spec

-----------------------------------------------------------------------------
(* What a transaction, once sent, is                                       *)

\* Claims some transaction has a row for.
Sub == {c \in Claims : \E n \in DOMAIN txs : c \in DOMAIN txs[n].rows}

LEMMA TxsAreRows ==
  ASSUME Types
  PROVE  /\ txs \in Seq(Txs) /\ DOMAIN txs = 1..Len(txs) /\ Len(txs) \in Nat
         /\ \A n \in DOMAIN txs : DOMAIN txs[n].rows \subseteq Claims /\ DOMAIN txs[n].rows \subseteq Sub
  <1>1. txs \in Seq(Txs)
    BY DEF Types, ChainTypes
  <1>2. ASSUME NEW n \in DOMAIN txs PROVE DOMAIN txs[n].rows \subseteq Claims
    <2>1. txs[n] \in Txs
      BY <1>1
    <2>2. PICK T \in SUBSET Claims : txs[n].rows \in [T -> Int]
      BY <2>1 DEF Txs, Rows
    <2> QED
      BY <2>2
  <1>3. \A n \in DOMAIN txs : DOMAIN txs[n].rows \subseteq Sub
    BY <1>2 DEF Sub
  <1>4. DOMAIN txs = 1..Len(txs) /\ Len(txs) \in Nat
    BY <1>1
  <1> QED
    BY <1>1, <1>2, <1>3, <1>4

\* Mining changes a transaction's state, and only that.
LEMMA MineKeepsRows ==
  ASSUME Types, NEW n \in DOMAIN txs, Mine(n)
  PROVE  /\ DOMAIN txs' = DOMAIN txs /\ Len(txs') = Len(txs) /\ Sub' = Sub
         /\ \A m \in DOMAIN txs : /\ txs'[m].rows = txs[m].rows
                                 /\ txs'[m].state \in {txs[m].state, "mined", "reverted"}
  <1>1. PICK state \in {"mined", "reverted"} : txs' = [txs EXCEPT ![n].state = state]
    BY DEF Mine
  <1>2. txs \in Seq(Txs) /\ \A m \in DOMAIN txs : txs[m] \in Txs
    BY TxsAreRows
  <1>3. DOMAIN txs' = DOMAIN txs /\ Len(txs') = Len(txs)
    BY <1>1, <1>2
  <1>4. \A m \in DOMAIN txs : /\ txs'[m].rows = txs[m].rows
                             /\ txs'[m].state \in {txs[m].state, "mined", "reverted"}
    BY <1>1, <1>2 DEF Txs
  <1>5. Sub' = Sub
    BY <1>3, <1>4 DEF Sub
  <1> QED
    BY <1>3, <1>4, <1>5

\* A transaction more.
LEMMA SubmitAddsRows ==
  ASSUME Types, NEW chunk \in SUBSET Claims, SubmitChunk(chunk)
  PROVE  /\ Len(txs') = Len(txs) + 1 /\ DOMAIN txs' = DOMAIN txs \cup {Len(txs) + 1}
         /\ Len(txs) + 1 \notin DOMAIN txs
         /\ \A m \in DOMAIN txs : txs'[m] = txs[m]
         /\ txs'[Len(txs) + 1] = [rows |-> [c \in chunk |-> run.amount[c]], state |-> "pending"]
         /\ Sub' = Sub \cup chunk
  <1> DEFINE tx == [rows |-> [c \in chunk |-> run.amount[c]], state |-> "pending"]
  <1>1. txs' = Append(txs, tx) /\ txs \in Seq(Txs)
    BY TxsAreRows DEF SubmitChunk
  <1>2. DOMAIN tx.rows = chunk
    OBVIOUS
  <1> HIDE DEF tx
  <1>3. /\ Len(txs') = Len(txs) + 1 /\ DOMAIN txs' = DOMAIN txs \cup {Len(txs) + 1}
        /\ Len(txs) + 1 \notin DOMAIN txs
        /\ \A m \in DOMAIN txs : txs'[m] = txs[m]
        /\ txs'[Len(txs) + 1] = tx
    BY <1>1
  <1>4. Sub' = Sub \cup chunk
    <2>1. \A c \in Claims : c \in Sub' <=> (\E m \in DOMAIN txs : c \in DOMAIN txs[m].rows) \/ c \in DOMAIN tx.rows
      BY <1>3 DEF Sub
    <2> QED
      BY <1>2, <2>1 DEF Sub
  <1> QED
    BY <1>3, <1>4 DEF tx

-----------------------------------------------------------------------------
(* TypeOK                                                                  *)

RunsOK == [at : {"off", "sending", "sent", "waiting"}, left : SUBSET Claims, amount : [Claims -> Nat],
           tx : 0..Len(txs)]
ServerOK ==
  /\ claim \in [Claims -> Statuses] /\ settledBy \in [Claims -> Nat]
  /\ earned \in [Users -> Nat] /\ \A u \in Users : earned[u] <= MaxEarned[u]
  /\ debits \subseteq Claims /\ saved \subseteq debits
  /\ proved \subseteq Claims /\ forgotten \subseteq Users
ConverterOK ==
  /\ approved \in [Users -> Nat] /\ paid \in [Users -> Nat]
  /\ reserve \in Nat /\ outstanding \in Int /\ closed \in BOOLEAN
  /\ conversions \in Seq(Conversion)
TxsOK == \A n \in DOMAIN txs : Tx(txs[n])
OperatorOK ==
  /\ snapshot \subseteq listed /\ listed \subseteq Claims
  /\ entry \in [Claims -> 0..Len(txs)]
  /\ run \in RunsOK
  /\ run.at \in {"sent", "waiting"} => run.tx # 0
  /\ unlogged \subseteq listed
  /\ Sub \subseteq listed /\ run.left \subseteq listed
TInv == ServerOK /\ ConverterOK /\ TxsOK /\ OperatorOK /\ crashes \in 0..MaxCrashes

LEMMA TInvIsTypeOK == TInv => TypeOK
  BY DEF TInv, ServerOK, ConverterOK, TxsOK, OperatorOK, RunsOK, TypeOK

LEMMA ServerKept ==
  ASSUME IInv, TInv, NEW c \in Claims, Handler(c)
  PROVE  TInv'
  <1>1. UNCHANGED <<earned, forgotten, converter, txs, operator, crashes>>
    BY DEF Handler, ReserveClaim, ProveApproval, MarkApproved, ReleaseClaim, ConfirmClaimed, ConfirmFails
  <1>2. ConverterOK' /\ TxsOK' /\ OperatorOK' /\ crashes' \in 0..MaxCrashes
    BY <1>1 DEF converter, operator, TInv, ConverterOK, TxsOK, OperatorOK, RunsOK, Sub
  <1>3. ServerTypes'
    <2>1. Types'
      BY TypesKept DEF Next, IInv
    <2> QED
      BY <2>1 DEF Types
  <1>4. debits' \subseteq Claims /\ saved' \subseteq debits' /\ proved' \subseteq Claims
    BY DEF Handler, ReserveClaim, ProveApproval, MarkApproved, ReleaseClaim, ConfirmClaimed, ConfirmFails,
           TInv, ServerOK
  <1> QED
    BY <1>1, <1>2, <1>3, <1>4 DEF TInv, ServerOK, ServerTypes

LEMMA ChainKept ==
  ASSUME IInv, SInv, TInv, Chain
  PROVE  TInv'
  <1>1. UNCHANGED <<server, operator, crashes>>
    BY DEF Chain, Mine, Convert, FundReserve, WithdrawReserve, CloseApprovals
  <1>2. ServerOK' /\ crashes' \in 0..MaxCrashes
    BY <1>1 DEF server, TInv, ServerOK
  <1>3. ASSUME UNCHANGED txs PROVE TxsOK' /\ OperatorOK'
    BY <1>1, <1>3 DEF operator, TInv, TxsOK, OperatorOK, RunsOK, Sub
  <1>4. ASSUME NEW n \in DOMAIN txs, Mine(n) PROVE TInv'
    <2>1. /\ DOMAIN txs' = DOMAIN txs /\ Len(txs') = Len(txs) /\ Sub' = Sub
          /\ \A m \in DOMAIN txs : /\ txs'[m].rows = txs[m].rows
                                  /\ txs'[m].state \in {txs[m].state, "mined", "reverted"}
      BY <1>4, MineKeepsRows DEF IInv
    <2>2. TxsOK'
      BY <2>1 DEF TInv, TxsOK, Tx
    <2>3. OperatorOK'
      BY <1>1, <2>1 DEF operator, TInv, OperatorOK, RunsOK
    <2>4. approved' \in [Users -> Nat]
      <3>1. CASE UNCHANGED approved
        BY <3>1 DEF TInv, ConverterOK
      <3>2. CASE approved' = ApprovedBy(txs[n].rows)
        <4>1. \A u \in Users : (\E c \in DOMAIN txs[n].rows : Owner[c] = u) =>
                txs[n].rows[CHOOSE c \in DOMAIN txs[n].rows : Owner[c] = u] \in Nat
          BY DEF TInv, TxsOK, Tx
        <4> QED
          BY <3>2, <4>1 DEF ApprovedBy, TInv, ConverterOK
      <3> QED
        BY <1>4, <3>1, <3>2 DEF Mine
    <2>5. UNCHANGED <<paid, reserve, closed, conversions>> /\ outstanding' \in Int
      BY <1>4, SolventMined DEF Mine
    <2>6. ConverterOK'
      BY <2>4, <2>5 DEF TInv, ConverterOK
    <2> QED
      BY <1>2, <2>2, <2>3, <2>6 DEF TInv
  <1>5. ASSUME NEW u \in Users, Convert(u) PROVE TInv'
    <2> DEFINE amount == approved[u] - paid[u]
    <2>1. /\ amount > 0 /\ amount <= reserve /\ paid' = [paid EXCEPT ![u] = paid[u] + amount]
          /\ reserve' = reserve - amount /\ outstanding' = outstanding - amount
          /\ conversions' = Append(conversions, [user |-> u, amount |-> amount])
          /\ UNCHANGED <<approved, closed, txs>>
      BY <1>5 DEF Convert
    <2>2. approved[u] \in Nat /\ paid[u] \in Nat /\ reserve \in Nat /\ outstanding \in Int
      BY DEF TInv, ConverterOK
    <2>3. amount \in Nat /\ reserve - amount \in Nat /\ outstanding - amount \in Int /\ paid[u] + amount \in Nat
      BY <2>1, <2>2
    <2> HIDE DEF amount
    <2>4. paid' \in [Users -> Nat]
      BY <2>1, <2>3 DEF TInv, ConverterOK
    <2>5. conversions' \in Seq(Conversion)
      <3>1. [user |-> u, amount |-> amount] \in Conversion
        BY <2>3 DEF Conversion
      <3> QED
        BY <2>1, <3>1 DEF TInv, ConverterOK
    <2>6. ConverterOK'
      BY <2>1, <2>3, <2>4, <2>5 DEF TInv, ConverterOK
    <2> QED
      BY <1>2, <1>3, <2>1, <2>6 DEF TInv
  <1>6. ASSUME NEW amount \in 1..MaxReserve, FundReserve(amount) \/ WithdrawReserve(amount) PROVE TInv'
    <2>1. amount \in Nat /\ UNCHANGED <<approved, paid, outstanding, closed, conversions, txs>>
      BY <1>6, BoundAssumption DEF FundReserve, WithdrawReserve
    <2>2. reserve' \in Nat
      <3>1. outstanding \in Nat /\ reserve \in Nat
        <4>1. Owing(Users, approved, paid) \in Nat
          BY ConvertibleFinite DEF TInv, ConverterOK, Amounts
        <4> QED
          BY <4>1 DEF SInv, Solvent, TInv, ConverterOK
      <3>2. CASE FundReserve(amount)
        BY <2>1, <3>1, <3>2 DEF FundReserve
      <3>3. CASE WithdrawReserve(amount)
        BY <2>1, <3>1, <3>3 DEF WithdrawReserve
      <3> QED
        BY <1>6, <3>2, <3>3
    <2>3. ConverterOK'
      BY <2>1, <2>2 DEF TInv, ConverterOK
    <2> QED
      BY <1>2, <1>3, <2>1, <2>3 DEF TInv
  <1>7. ASSUME CloseApprovals PROVE TInv'
    <2>1. closed' = TRUE /\ UNCHANGED <<approved, paid, reserve, outstanding, conversions, txs>>
      BY <1>7 DEF CloseApprovals
    <2> QED
      BY <1>2, <1>3, <2>1 DEF TInv, ConverterOK
  <1> QED
    BY <1>4, <1>5, <1>6, <1>7 DEF Chain
\* What the script does to its own state.
LEMMA RunsOKKept ==
  ASSUME NEW r \in RunsOK, NEW at \in {"off", "sending", "sent", "waiting"},
         NEW tx \in 0..Len(txs), NEW left \in SUBSET Claims
  PROVE  /\ [r EXCEPT !.at = at] \in RunsOK
         /\ [r EXCEPT !.at = at, !.left = left, !.tx = tx] \in RunsOK
  BY DEF RunsOK

LEMMA ScriptKept ==
  ASSUME IInv, TInv, Script
  PROVE  TInv'
  <1>1. UNCHANGED <<server, converter>>
    BY DEF Script, Plan, WriteManifest, ChunkConfirmed, ChunkReverted, Complete, ScriptStops, SubmitChunk, NewSnapshot
  <1>2. ServerOK' /\ ConverterOK'
    BY <1>1 DEF server, converter, TInv, ServerOK, ConverterOK
  <1>3. ASSUME UNCHANGED txs PROVE TxsOK' /\ Sub' = Sub
    BY <1>3 DEF TInv, TxsOK, Sub
  <1>4. /\ run \in RunsOK /\ snapshot \subseteq listed /\ listed \subseteq Claims /\ Sub \subseteq listed
        /\ entry \in [Claims -> 0..Len(txs)] /\ unlogged \subseteq listed /\ run.left \subseteq listed
        /\ crashes \in 0..MaxCrashes /\ MaxCrashes \in Nat
        /\ run.at \in {"sent", "waiting"} => run.tx # 0
    BY BoundAssumption DEF TInv, OperatorOK
  <1>5. DOMAIN txs = 1..Len(txs) /\ Len(txs) \in Nat
        /\ \A n \in DOMAIN txs : DOMAIN txs[n].rows \subseteq Sub
    BY TxsAreRows DEF IInv
  <1>6. NoRun \in RunsOK /\ NoRun.at = "off" /\ NoRun.left = {}
    BY <1>5 DEF NoRun, RunsOK
  <1>7. CASE Plan
    <2>1. ASSUME NEW c \in Claims PROVE Expected(c) \in Nat
      <3>1. Owner[c] \in Users /\ Points[c] \in Nat
        BY OwnerAssumption, PointsAssumption
      <3>2. paid[Owner[c]] \in Nat
        BY <3>1 DEF TInv, ConverterOK
      <3> QED
        BY <3>1, <3>2 DEF Expected
    <2> DEFINE amount == [c \in Claims |-> IF c \in snapshot THEN Expected(c) ELSE 0]
               left == snapshot \ Confirmed
    <2>2. amount \in [Claims -> Nat] /\ left \subseteq listed /\ left \in SUBSET Claims
      BY <1>4, <2>1
    <2>3. run' = [NoRun EXCEPT !.at = "sending", !.left = left, !.amount = amount]
          /\ UNCHANGED <<txs, snapshot, listed, entry, unlogged, crashes>>
      BY <1>7 DEF Plan
    <2> HIDE DEF amount, left
    <2>4. run' \in RunsOK /\ run'.at = "sending" /\ run'.left = left
      BY <1>6, <2>2, <2>3 DEF RunsOK
    <2>5. OperatorOK'
      BY <1>3, <1>4, <2>2, <2>3, <2>4 DEF OperatorOK, RunsOK
    <2> QED
      BY <1>2, <1>3, <1>4, <2>3, <2>5 DEF TInv
  <1>8. ASSUME NEW chunk \in SUBSET Claims, SubmitChunk(chunk) PROVE TInv'
    <2>1. /\ Len(txs') = Len(txs) + 1 /\ DOMAIN txs' = DOMAIN txs \cup {Len(txs) + 1}
          /\ \A m \in DOMAIN txs : txs'[m] = txs[m]
          /\ txs'[Len(txs) + 1] = [rows |-> [c \in chunk |-> run.amount[c]], state |-> "pending"]
          /\ Sub' = Sub \cup chunk
      BY <1>8, SubmitAddsRows DEF IInv
    <2>2. /\ chunk \subseteq run.left /\ run' = [run EXCEPT !.at = "sent", !.tx = Len(txs) + 1]
          /\ UNCHANGED <<snapshot, listed, entry, unlogged, crashes>>
      BY <1>8 DEF SubmitChunk
    <2>3. Tx([rows |-> [c \in chunk |-> run.amount[c]], state |-> "pending"])
      BY <1>4 DEF Tx, RunsOK
    <2>4. TxsOK'
      BY <2>1, <2>3 DEF TInv, TxsOK
    <2>5. run' \in RunsOK' /\ run'.tx = Len(txs) + 1 /\ run'.left = run.left
      <3>1. Len(txs) + 1 \in 0..Len(txs')
        BY <1>5, <2>1
      <3> QED
        BY <1>4, <2>2, <3>1 DEF RunsOK
    <2>6. entry' \in [Claims -> 0..Len(txs')]
      <3>1. \A c \in Claims : entry[c] \in 0..Len(txs')
        BY <1>4, <1>5, <2>1
      <3> QED
        BY <1>4, <2>2, <3>1
    <2>7. OperatorOK'
      BY <1>4, <1>5, <2>1, <2>2, <2>5, <2>6 DEF OperatorOK
    <2> QED
      BY <1>2, <1>4, <2>2, <2>4, <2>7 DEF TInv
  <1>9. CASE WriteManifest
    <2>1. /\ run.at = "sent" /\ run' = [run EXCEPT !.at = "waiting"]
          /\ entry' = [c \in Claims |-> IF c \in DOMAIN txs[run.tx].rows THEN run.tx ELSE entry[c]]
          /\ UNCHANGED <<txs, snapshot, listed, unlogged, crashes>>
      BY <1>9 DEF WriteManifest
    <2>2. run' \in RunsOK /\ run'.tx = run.tx /\ run'.left = run.left /\ run.tx \in 0..Len(txs)
      BY <1>4, <2>1, RunsOKKept DEF RunsOK
    <2>3. entry' \in [Claims -> 0..Len(txs)]
      BY <1>4, <2>1, <2>2
    <2>4. OperatorOK'
      BY <1>3, <1>4, <2>1, <2>2, <2>3 DEF OperatorOK, RunsOK
    <2> QED
      BY <1>2, <1>3, <1>4, <2>1, <2>4 DEF TInv
  <1>10. CASE ChunkConfirmed
    <2> DEFINE left == run.left \ DOMAIN txs[run.tx].rows
    <2>1. /\ run' = [run EXCEPT !.at = "sending", !.left = left, !.tx = 0]
          /\ UNCHANGED <<txs, snapshot, listed, entry, unlogged, crashes>>
      BY <1>10 DEF ChunkConfirmed
    <2>2. left \in SUBSET Claims /\ left \subseteq listed /\ 0 \in 0..Len(txs)
      BY <1>4, <1>5
    <2> HIDE DEF left
    <2>3. run' \in RunsOK /\ run'.at = "sending" /\ run'.left = left
      BY <1>4, <2>1, <2>2 DEF RunsOK
    <2>4. OperatorOK'
      BY <1>3, <1>4, <2>1, <2>2, <2>3 DEF OperatorOK, RunsOK
    <2> QED
      BY <1>2, <1>3, <1>4, <2>1, <2>4 DEF TInv
  <1>11. CASE ChunkReverted \/ Complete \/ ScriptStops
    <2>1. /\ run' = NoRun /\ snapshot' \in {snapshot, {}} /\ crashes' \in {crashes, crashes + 1}
          /\ UNCHANGED <<txs, listed, entry>>
      BY <1>11 DEF ChunkReverted, Complete, ScriptStops
    <2>2. crashes' \in 0..MaxCrashes
      BY <1>4, <1>11 DEF ChunkReverted, Complete, ScriptStops
    <2>3. unlogged' \subseteq listed
      <3>1. CASE run.at = "sent"
        <4>1. run.tx \in DOMAIN txs
          BY <1>4, <1>5, <3>1 DEF RunsOK
        <4>2. DOMAIN txs[run.tx].rows \subseteq listed
          BY <1>4, <1>5, <4>1
        <4> QED
          BY <1>4, <1>11, <3>1, <4>2 DEF ChunkReverted, Complete, ScriptStops
      <3>2. CASE run.at # "sent"
        BY <1>4, <1>11, <3>2 DEF ChunkReverted, Complete, ScriptStops
      <3> QED
        BY <3>1, <3>2
    <2>4. OperatorOK'
      BY <1>3, <1>4, <1>6, <2>1, <2>3 DEF OperatorOK, RunsOK
    <2> QED
      BY <1>2, <1>3, <2>1, <2>2, <2>4 DEF TInv
  <1>12. ASSUME NEW S \in SUBSET Claims, NewSnapshot(S) PROVE TInv'
    <2>1. /\ snapshot' = S /\ listed' = listed \cup S /\ UNCHANGED <<txs, entry, run, unlogged, crashes>>
      BY <1>12 DEF NewSnapshot
    <2>2. OperatorOK'
      BY <1>3, <1>4, <2>1 DEF OperatorOK, RunsOK
    <2> QED
      BY <1>2, <1>3, <1>4, <2>1, <2>2 DEF TInv
  <1> QED
    BY <1>7, <1>8, <1>9, <1>10, <1>11, <1>12 DEF Script

LEMMA TInvKept == IInv /\ SInv /\ TInv /\ [Next]_vars => TInv'
  <1> SUFFICES ASSUME IInv, SInv, TInv, [Next]_vars PROVE TInv'
    OBVIOUS
  <1>1. ASSUME NEW u \in Users, Credit(u) PROVE TInv'
    <2>1. /\ earned[u] < MaxEarned[u] /\ earned' = [earned EXCEPT ![u] = earned[u] + 1] /\ saved' = debits
          /\ UNCHANGED <<claim, settledBy, debits, proved, forgotten, converter, txs, operator, crashes>>
      BY <1>1 DEF Credit
    <2>2. earned \in [Users -> Nat] /\ MaxEarned \in [Users -> Nat] /\ \A v \in Users : earned[v] <= MaxEarned[v]
      BY BoundAssumption DEF TInv, ServerOK
    <2>3. earned' \in [Users -> Nat] /\ \A v \in Users : earned'[v] <= MaxEarned[v]
      BY <2>1, <2>2
    <2>4. ServerOK'
      BY <2>1, <2>3 DEF TInv, ServerOK
    <2>5. ConverterOK' /\ TxsOK' /\ OperatorOK' /\ crashes' \in 0..MaxCrashes
      BY <2>1 DEF converter, operator, TInv, ConverterOK, TxsOK, OperatorOK, RunsOK, Sub
    <2> QED
      BY <2>4, <2>5 DEF TInv
  <1>2. ASSUME NEW c \in Claims, Handler(c) PROVE TInv'
    BY <1>2, ServerKept
  <1>3. CASE Restart
    <2>1. /\ crashes < MaxCrashes /\ crashes' = crashes + 1 /\ debits' = saved /\ saved' = saved /\ proved' = {}
          /\ forgotten' = forgotten \cup {Owner[c] : c \in {d \in debits \ saved : claim[d] = "claimed"}}
          /\ UNCHANGED <<claim, settledBy, earned, converter, txs, operator>>
      BY <1>3 DEF Restart
    <2>2. forgotten' \subseteq Users
      BY <2>1, OwnerAssumption DEF TInv, ServerOK
    <2>3. ServerOK' /\ crashes' \in 0..MaxCrashes
      BY <2>1, <2>2, BoundAssumption DEF TInv, ServerOK
    <2>4. ConverterOK' /\ TxsOK' /\ OperatorOK'
      BY <2>1 DEF converter, operator, TInv, ConverterOK, TxsOK, OperatorOK, RunsOK, Sub
    <2> QED
      BY <2>3, <2>4 DEF TInv
  <1>4. CASE Chain
    BY <1>4, ChainKept
  <1>5. CASE Script
    BY <1>5, ScriptKept
  <1>6. CASE UNCHANGED vars
    BY <1>6 DEF vars, server, converter, operator, TInv, ServerOK, ConverterOK, TxsOK, OperatorOK, RunsOK, Sub
  <1> QED
    BY <1>1, <1>2, <1>3, <1>4, <1>5, <1>6 DEF Next

LEMMA InitTInv == Init => TInv
  <1> SUFFICES ASSUME Init PROVE TInv
    OBVIOUS
  <1>1. txs = <<>> /\ Len(txs) = 0 /\ DOMAIN txs = {} /\ run = NoRun
    BY DEF Init
  <1>2. Sub = {}
    BY <1>1 DEF Sub
  <1>3. run \in RunsOK /\ run.at = "off" /\ run.left = {}
    BY <1>1 DEF NoRun, RunsOK
  <1>4. OperatorOK
    BY <1>1, <1>2, <1>3 DEF Init, OperatorOK
  <1>5. ServerOK
    BY BoundAssumption DEF Init, ServerOK, Statuses
  <1>6. ConverterOK
    <2>1. conversions \in Seq(Conversion) /\ reserve \in Nat /\ outstanding \in Int
      BY DEF Init
    <2>2. approved \in [Users -> Nat] /\ paid \in [Users -> Nat]
      BY DEF Init
    <2>3. closed \in BOOLEAN
      BY DEF Init
    <2> QED
      BY <2>1, <2>2, <2>3 DEF ConverterOK
  <1>7. TxsOK /\ crashes \in 0..MaxCrashes
    BY <1>1, BoundAssumption DEF Init, TxsOK
  <1> QED
    BY <1>4, <1>5, <1>6, <1>7 DEF TInv

\* Amounts, files and the manifest keep their shape, and a transaction is only
\* ever about listed claims: for any claims, users, transactions and stops.
THEOREM ClaimsTyped == Spec => []TypeOK
  <1> DEFINE Inv == IInv /\ SInv /\ TInv
  <1>1. Init => Inv
    BY InitSettled, InitSolvent, InitTInv
  <1>2. Inv /\ [Next]_vars => Inv'
    BY TypesKept, SettledKept, SolventKept, TInvKept DEF IInv
  <1>3. Inv => TypeOK
    BY TInvIsTypeOK
  <1> QED
    BY <1>1, <1>2, <1>3, PTL DEF Spec

-----------------------------------------------------------------------------
(* Sums of points                                                          *)

LEMMA WorthOfOne ==
  ASSUME NEW c \in Claims
  PROVE  IsFiniteSet({c} \X (1..Points[c])) /\ Cardinality({c} \X (1..Points[c])) = Points[c]
  <1> DEFINE n == Points[c]
  <1>1. n \in Nat
    BY PointsAssumption
  <1>2. IsFiniteSet(1..n) /\ Cardinality(1..n) = IF 1 > n THEN 0 ELSE n - 1 + 1
    BY <1>1, FS_Interval
  <1>3. IsFiniteSet({c}) /\ Cardinality({c}) = 1
    BY FS_Singleton
  <1>4. IsFiniteSet({c} \X (1..n)) /\ Cardinality({c} \X (1..n)) = 1 * Cardinality(1..n)
    BY <1>2, <1>3, FS_Product
  <1>5. Cardinality(1..n) = n
    <2> HIDE DEF n
    <2> QED
      BY <1>1, <1>2
  <1> QED
    BY <1>1, <1>4, <1>5

LEMMA TotalIsNatural ==
  ASSUME NEW S \in SUBSET Claims
  PROVE  IsFiniteSet(Worth(S)) /\ Total(S) \in Nat
  <1> DEFINE U == {{c} \X (1..Points[c]) : c \in S}
             g == [c \in S |-> {c} \X (1..Points[c])]
  <1>1. IsFiniteSet(S)
    BY ClaimsAssumption, FS_Subset
  <1>2. g \in Surjection(S, U)
    BY DEF Surjection
  <1>3. IsFiniteSet(U)
    BY <1>1, <1>2, FS_Surjection, Zenon
  <1>4. \A T \in U : IsFiniteSet(T)
    BY WorthOfOne
  <1>5. IsFiniteSet(UNION U)
    <2> HIDE DEF U
    <2> QED
      BY <1>3, <1>4, FS_UNION
  <1> QED
    BY <1>5, FS_CardinalityType DEF Worth, Total

LEMMA TotalGrows ==
  ASSUME NEW S \in SUBSET Claims, NEW T \in SUBSET S
  PROVE  Total(T) <= Total(S)
  <1>1. Worth(T) \subseteq Worth(S)
    BY DEF Worth
  <1>2. IsFiniteSet(Worth(S))
    BY TotalIsNatural
  <1> QED
    BY <1>1, <1>2, FS_Subset DEF Total

LEMMA TotalOfBoth ==
  ASSUME NEW S \in SUBSET Claims, NEW T \in SUBSET Claims
  PROVE  /\ Total(S \cup T) <= Total(S) + Total(T)
         /\ S \cap T = {} => Total(S \cup T) = Total(S) + Total(T)
  <1> DEFINE A == Worth(S)
             B == Worth(T)
  <1>1. Worth(S \cup T) = A \cup B
    BY DEF Worth
  <1>2. IsFiniteSet(A) /\ IsFiniteSet(B) /\ Cardinality(A) \in Nat /\ Cardinality(B) \in Nat
    BY TotalIsNatural DEF Total
  <1>3. Cardinality(A \cup B) = Cardinality(A) + Cardinality(B) - Cardinality(A \cap B)
    BY <1>2, FS_Union, Zenon
  <1>4. Cardinality(A \cap B) \in Nat
    <2>1. IsFiniteSet(A \cap B)
      <3>1. A \cap B \subseteq A
        OBVIOUS
      <3> HIDE DEF A, B
      <3> QED
        BY <1>2, <3>1, FS_Subset
    <2> QED
      BY <2>1, FS_CardinalityType
  <1>5. S \cap T = {} => Cardinality(A \cap B) = 0
    <2>1. S \cap T = {} => A \cap B = {}
      BY DEF Worth
    <2> QED
      BY <2>1, FS_EmptySet
  <1> HIDE DEF A, B
  <1>6. /\ Cardinality(A \cup B) <= Cardinality(A) + Cardinality(B)
        /\ S \cap T = {} => Cardinality(A \cup B) = Cardinality(A) + Cardinality(B)
    BY <1>2, <1>3, <1>4, <1>5
  <1> QED
    BY <1>1, <1>6 DEF A, B, Total

LEMMA TotalOfOne ==
  ASSUME NEW c \in Claims
  PROVE  Total({c}) = Points[c]
  <1>1. Worth({c}) = {c} \X (1..Points[c])
    BY DEF Worth
  <1> QED
    BY <1>1, WorthOfOne DEF Total

-----------------------------------------------------------------------------
(* Points that are promised                                                *)

\* None of a user's claims was sent by a script that stopped before it said so.
Clean(u, bad) == Of(u) \cap bad = {}
\* An amount a row may have: the user's claims that were sent, and the row's own.
Fits(amount, c, sent, bad) ==
  Clean(Owner[c], bad) => amount <= Total(Of(Owner[c]) \cap (sent \cup {c}))

InFlight(c) == run.at \in {"sent", "waiting"} /\ c \in DOMAIN txs[run.tx].rows

\* What a user holds or has converted was earned, each claim counted once.
HeldInv == \A u \in Users : Total((debits \cup Active) \cap Of(u)) <= earned[u]
ListedInv == \A c \in listed : claim[c] # "none"
RowsInv == \A n \in DOMAIN txs : \A c \in DOMAIN txs[n].rows : Fits(txs[n].rows[c], c, Sub, unlogged)
ApprovedInv == \A u \in Users : Clean(u, unlogged) => approved[u] <= Total(Of(u) \cap Sub)
\* What was sent is in the manifest, or is about to be, or never will.
LoggedInv == \A c \in Sub : entry[c] # 0 \/ c \in unlogged \/ (run.at = "sent" /\ InFlight(c))
\* What a run is still going to send was not sent, as far as the manifest goes.
RunInv ==
  run.at # "off" =>
    \A c \in run.left : InFlight(c) \/ (Fits(run.amount[c], c, Sub, unlogged) /\ (c \in Sub => c \in unlogged))

SentInv == RowsInv /\ ApprovedInv /\ LoggedInv /\ RunInv
PInv == HeldInv /\ ListedInv /\ SentInv

LEMMA ClaimsOf ==
  ASSUME NEW c \in Claims, NEW S \in SUBSET Claims
  PROVE  /\ Owner[c] \in Users /\ Points[c] \in Nat /\ c \in Of(Owner[c])
         /\ \A u \in Users : Of(u) \cap S \in SUBSET Claims
         /\ \A u \in Users \ {Owner[c]} : c \notin Of(u)
  BY OwnerAssumption, PointsAssumption DEF Of

\* More is sent and more is missing: what fitted still does.
LEMMA FitsStill ==
  ASSUME NEW amount \in Int, NEW c \in Claims, NEW sent \in SUBSET Claims, NEW bad,
         NEW sent2 \in SUBSET Claims, NEW bad2, sent \subseteq sent2, bad \subseteq bad2,
         Fits(amount, c, sent, bad)
  PROVE  Fits(amount, c, sent2, bad2)
  <1> SUFFICES ASSUME Clean(Owner[c], bad2)
               PROVE  amount <= Total(Of(Owner[c]) \cap (sent2 \cup {c}))
    BY DEF Fits
  <1> DEFINE S == Of(Owner[c]) \cap (sent \cup {c})
             T == Of(Owner[c]) \cap (sent2 \cup {c})
  <1>1. Clean(Owner[c], bad)
    BY DEF Clean
  <1>2. amount <= Total(S)
    BY <1>1 DEF Fits
  <1>3. T \in SUBSET Claims /\ S \in SUBSET T /\ S \in SUBSET Claims
    BY DEF Of
  <1> HIDE DEF S, T
  <1>4. Total(S) <= Total(T)
    BY <1>3, TotalGrows
  <1>5. Total(S) \in Nat /\ Total(T) \in Nat
    BY <1>3, TotalIsNatural
  <1>6. amount <= Total(T)
    BY <1>2, <1>4, <1>5
  <1> QED
    BY <1>6 DEF T

LEMMA ApprovedStill ==
  ASSUME ApprovedInv, approved \in Amounts, approved' = approved,
         Sub \in SUBSET Claims, Sub' \in SUBSET Claims, Sub \subseteq Sub', unlogged \subseteq unlogged'
  PROVE  ApprovedInv'
  <1> SUFFICES ASSUME NEW u \in Users, Clean(u, unlogged') PROVE approved[u] <= Total(Of(u) \cap Sub')
    BY DEF ApprovedInv
  <1> DEFINE S == Of(u) \cap Sub
             T == Of(u) \cap Sub'
  <1>1. Clean(u, unlogged)
    BY DEF Clean
  <1>2. approved[u] <= Total(S) /\ approved[u] \in Int
    BY <1>1 DEF ApprovedInv, Amounts
  <1>3. T \in SUBSET Claims /\ S \in SUBSET T /\ S \in SUBSET Claims
    BY DEF Of
  <1> HIDE DEF S, T
  <1>4. Total(S) <= Total(T)
    BY <1>3, TotalGrows
  <1>5. Total(S) \in Nat /\ Total(T) \in Nat
    BY <1>3, TotalIsNatural
  <1>6. approved[u] <= Total(T)
    BY <1>2, <1>4, <1>5
  <1> QED
    BY <1>6 DEF T

-----------------------------------------------------------------------------
(* The points held                                                         *)

\* Nothing more is held, and no less was earned.
LEMMA HeldStill ==
  ASSUME ServerOK, HeldInv,
         debits' \cup Active' \subseteq debits \cup Active,
         \A u \in Users : earned'[u] \in Nat /\ earned[u] <= earned'[u]
  PROVE  HeldInv'
  <1> SUFFICES ASSUME NEW u \in Users PROVE Total((debits' \cup Active') \cap Of(u)) <= earned'[u]
    BY DEF HeldInv
  <1> DEFINE S == (debits \cup Active) \cap Of(u)
             T == (debits' \cup Active') \cap Of(u)
  <1>1. Total(S) <= earned[u]
    BY DEF HeldInv
  <1>2. earned[u] \in Nat /\ earned'[u] \in Nat /\ earned[u] <= earned'[u]
    BY DEF ServerOK
  <1>3. S \in SUBSET Claims /\ T \in SUBSET S /\ T \in SUBSET Claims
    BY DEF Of
  <1> HIDE DEF S, T
  <1>4. Total(T) <= Total(S)
    BY <1>3, TotalGrows
  <1>5. Total(S) \in Nat /\ Total(T) \in Nat
    BY <1>3, TotalIsNatural
  <1>6. Total(T) <= earned'[u]
    BY <1>1, <1>2, <1>4, <1>5
  <1> QED
    BY <1>6 DEF T

\* A claim is reserved against points that nothing else holds.
LEMMA HeldReserved ==
  ASSUME ServerOK, HeldInv, NEW c \in Claims, ReserveClaim(c)
  PROVE  HeldInv'
  <1>1. /\ claim' = [claim EXCEPT ![c] = "reserved"] /\ UNCHANGED <<earned, debits>>
        /\ AvailablePoints(Owner[c]) >= Points[c]
    BY DEF ReserveClaim
  <1>2. claim \in [Claims -> Statuses] /\ earned \in [Users -> Nat] /\ debits \in SUBSET Claims
    BY DEF ServerOK
  <1>3. Active' = Active \cup {c} /\ Active \in SUBSET Claims
    BY <1>1, <1>2 DEF Active
  <1> SUFFICES ASSUME NEW u \in Users PROVE Total((debits' \cup Active') \cap Of(u)) <= earned'[u]
    BY DEF HeldInv
  <1>4. CASE u # Owner[c]
    <2>1. (debits' \cup Active') \cap Of(u) = (debits \cup Active) \cap Of(u)
      BY <1>1, <1>3, <1>4 DEF Of
    <2> QED
      BY <1>1, <2>1 DEF HeldInv
  <1>5. CASE u = Owner[c]
    <2> DEFINE D == debits \cap Of(u)
               A == Active \cap Of(u)
               T == (debits' \cup Active') \cap Of(u)
    <2>1. T = (D \cup A) \cup {c}
      BY <1>1, <1>3, <1>5 DEF Of
    <2>2. earned[u] - Total(D) - Total(A) >= Points[c]
      BY <1>1, <1>5 DEF AvailablePoints
    <2>3. D \in SUBSET Claims /\ A \in SUBSET Claims /\ D \cup A \in SUBSET Claims /\ {c} \in SUBSET Claims
          /\ T \in SUBSET Claims
      BY <1>2, <1>3, <2>1
    <2> HIDE DEF D, A, T
    <2>4. Total(D \cup A) <= Total(D) + Total(A)
      BY <2>3, TotalOfBoth
    <2>5. Total((D \cup A) \cup {c}) <= Total(D \cup A) + Total({c})
      <3> DEFINE B == D \cup A
      <3>1. B \in SUBSET Claims
        BY <2>3
      <3> HIDE DEF B
      <3>2. Total(B \cup {c}) <= Total(B) + Total({c})
        BY <3>1, <2>3, TotalOfBoth
      <3> QED
        BY <3>2 DEF B
    <2>6. Total({c}) = Points[c] /\ Points[c] \in Nat
      BY TotalOfOne, PointsAssumption
    <2>7. Total(D) \in Nat /\ Total(A) \in Nat
      BY <2>3, TotalIsNatural
    <2>8. Total(D \cup A) \in Nat
      BY <2>3, TotalIsNatural
    <2>9. Total(T) \in Nat /\ earned[u] \in Nat
      BY <1>2, <2>3, TotalIsNatural
    <2>10. Total(T) <= earned[u]
      BY <2>1, <2>2, <2>4, <2>5, <2>6, <2>7, <2>8, <2>9
    <2> QED
      BY <1>1, <2>10 DEF T
  <1> QED
    BY <1>4, <1>5

LEMMA HeldKept ==
  ASSUME TInv, HeldInv, [Next]_vars
  PROVE  HeldInv'
  <1>0. ServerOK /\ claim \in [Claims -> Statuses] /\ \A u \in Users : earned[u] \in Nat /\ earned[u] <= earned[u]
    BY DEF TInv, ServerOK
  <1>1. ASSUME NEW u \in Users, Credit(u) PROVE HeldInv'
    <2>1. debits' \cup Active' = debits \cup Active
      BY <1>1 DEF Credit, Active
    <2>2. \A v \in Users : earned'[v] \in Nat /\ earned[v] <= earned'[v]
      BY <1>0, <1>1 DEF Credit, ServerOK
    <2> QED
      BY <1>0, <2>1, <2>2, HeldStill
  <1>2. ASSUME NEW c \in Claims, Handler(c) PROVE HeldInv'
    <2>1. CASE ReserveClaim(c)
      BY <1>0, <2>1, HeldReserved
    <2>2. CASE ProveApproval(c) \/ MarkApproved(c) \/ ReleaseClaim(c)
      <3>1. debits' \cup Active' \subseteq debits \cup Active /\ earned' = earned
        BY <1>0, <2>2 DEF ProveApproval, MarkApproved, ReleaseClaim, Active
      <3> QED
        BY <1>0, <3>1, HeldStill
    <2>3. ASSUME NEW k \in DOMAIN conversions, ConfirmClaimed(c, k) \/ ConfirmFails(c, k) PROVE HeldInv'
      <3>1. claim[c] = "approved" /\ debits' = debits \cup {c} /\ earned' = earned
            /\ claim' \in {claim, [claim EXCEPT ![c] = "claimed"]}
        BY <2>3 DEF ConfirmClaimed, ConfirmFails, Settles
      <3>2. debits' \cup Active' \subseteq debits \cup Active
        BY <1>0, <3>1 DEF Active
      <3> QED
        BY <1>0, <3>1, <3>2, HeldStill
    <2> QED
      BY <1>2, <2>1, <2>2, <2>3 DEF Handler
  <1>3. CASE Restart
    <2>1. debits' \cup Active' \subseteq debits \cup Active /\ earned' = earned
      BY <1>0, <1>3 DEF Restart, Active, ServerOK
    <2> QED
      BY <1>0, <2>1, HeldStill
  <1>4. CASE Chain \/ Script \/ UNCHANGED vars
    <2>1. UNCHANGED server
      BY <1>4 DEF Chain, Mine, Convert, FundReserve, WithdrawReserve, CloseApprovals, Script, Plan, WriteManifest,
                  ChunkConfirmed, ChunkReverted, Complete, ScriptStops, SubmitChunk, NewSnapshot, vars
    <2> QED
      BY <2>1 DEF server, HeldInv, Active
  <1> QED
    BY <1>1, <1>2, <1>3, <1>4 DEF Next

LEMMA ListedKept ==
  ASSUME TInv, ListedInv, [Next]_vars
  PROVE  ListedInv'
  <1>1. claim \in [Claims -> Statuses] /\ listed \subseteq Claims
    BY DEF TInv, ServerOK, OperatorOK
  <1>2. ASSUME UNCHANGED listed, \A c \in Claims : claim[c] # "none" => claim'[c] # "none" PROVE ListedInv'
    BY <1>1, <1>2 DEF ListedInv
  <1>3. ASSUME NEW c \in Claims, Handler(c) PROVE ListedInv'
    <2>1. UNCHANGED listed
      BY <1>3 DEF operator, Handler, ReserveClaim, ProveApproval, MarkApproved, ReleaseClaim, ConfirmClaimed, ConfirmFails
    <2>2. claim' \in {claim} \cup {[claim EXCEPT ![c] = s] : s \in {"reserved", "approved", "claimed", "released"}}
      BY <1>3 DEF Handler, ReserveClaim, ProveApproval, MarkApproved, ReleaseClaim, ConfirmClaimed, ConfirmFails
    <2>3. \A d \in Claims : claim[d] # "none" => claim'[d] # "none"
      BY <1>1, <2>2
    <2> QED
      BY <1>2, <2>1, <2>3
  <1>4. ASSUME NEW S \in SUBSET Claims, NewSnapshot(S) PROVE ListedInv'
    BY <1>4 DEF NewSnapshot, server, ListedInv
  <1>5. ASSUME UNCHANGED <<claim, listed>> PROVE ListedInv'
    BY <1>5 DEF ListedInv
  <1> QED
    BY <1>3, <1>4, <1>5 DEF Next, Credit, Restart, Chain, Mine, Convert, FundReserve, WithdrawReserve, CloseApprovals,
       Script, Plan, WriteManifest, ChunkConfirmed, ChunkReverted, Complete, ScriptStops, SubmitChunk, vars, server, operator

-----------------------------------------------------------------------------
(* The amounts sent                                                        *)

\* What the lemmas on the script take from the other invariants.
LEMMA SentFacts ==
  ASSUME IInv, TInv
  PROVE  /\ Sub \in SUBSET Claims /\ unlogged \subseteq listed /\ Sub \subseteq listed /\ run.left \subseteq listed
         /\ listed \subseteq Claims /\ snapshot \subseteq listed
         /\ approved \in Amounts /\ paid \in Amounts
         /\ run.left \in SUBSET Claims /\ \A c \in Claims : run.amount[c] \in Int
         /\ entry \in [Claims -> 0..Len(txs)]
         /\ run.at \in {"sent", "waiting"} => run.tx \in DOMAIN txs /\ run.tx # 0
         /\ \A n \in DOMAIN txs : \A c \in DOMAIN txs[n].rows : c \in Claims /\ c \in Sub /\ txs[n].rows[c] \in Int
  <1>1. Sub \in SUBSET Claims
    BY DEF Sub
  <1>2. DOMAIN txs = 1..Len(txs) /\ Len(txs) \in Nat
        /\ \A n \in DOMAIN txs : DOMAIN txs[n].rows \subseteq Claims /\ DOMAIN txs[n].rows \subseteq Sub
    BY TxsAreRows DEF IInv
  <1>3. run \in RunsOK
    BY DEF TInv, OperatorOK
  <1>4. run.left \in SUBSET Claims /\ (\A c \in Claims : run.amount[c] \in Int) /\ run.tx \in 0..Len(txs)
    BY <1>3 DEF RunsOK
  <1>5. \A n \in DOMAIN txs : \A c \in DOMAIN txs[n].rows : txs[n].rows[c] \in Int
    BY DEF TInv, TxsOK, Tx
  <1>6. approved \in Amounts /\ paid \in Amounts
    BY DEF IInv, Types, ChainTypes, Amounts
  <1>7. run.at \in {"sent", "waiting"} => run.tx \in DOMAIN txs /\ run.tx # 0
    BY <1>2, <1>4 DEF TInv, OperatorOK
  <1> QED
    BY <1>1, <1>2, <1>4, <1>5, <1>6, <1>7 DEF TInv, OperatorOK

LEMMA SentMined ==
  ASSUME IInv, TInv, SentInv, NEW n \in DOMAIN txs, Mine(n)
  PROVE  SentInv'
  <1>1. /\ DOMAIN txs' = DOMAIN txs /\ Sub' = Sub
        /\ \A m \in DOMAIN txs : txs'[m].rows = txs[m].rows
    BY MineKeepsRows DEF IInv
  <1>2. UNCHANGED <<entry, run, unlogged>>
    BY DEF Mine, operator
  <1>3. run.at \in {"sent", "waiting"} => run.tx \in DOMAIN txs
    BY SentFacts
  <1>4. \A c \in Claims : InFlight(c)' <=> InFlight(c)
    BY <1>1, <1>2, <1>3 DEF InFlight
  <1>5. RowsInv'
    BY <1>1, <1>2 DEF SentInv, RowsInv
  <1>6. LoggedInv'
    BY <1>1, <1>2, <1>4 DEF SentInv, LoggedInv, Sub
  <1>7. RunInv'
    <2>1. run.left \subseteq Claims
      BY SentFacts
    <2> QED
      BY <1>1, <1>2, <1>4, <2>1 DEF SentInv, RunInv
  <1>8. ApprovedInv'
    <2>1. CASE UNCHANGED approved
      BY <1>1, <1>2, <2>1 DEF SentInv, ApprovedInv
    <2>2. CASE approved' = ApprovedBy(txs[n].rows)
      <3> SUFFICES ASSUME NEW u \in Users, Clean(u, unlogged) PROVE approved'[u] <= Total(Of(u) \cap Sub)
        BY <1>1, <1>2 DEF ApprovedInv
      <3>1. CASE \E c \in DOMAIN txs[n].rows : Owner[c] = u
        <4> DEFINE c == CHOOSE c \in DOMAIN txs[n].rows : Owner[c] = u
        <4>1. c \in DOMAIN txs[n].rows /\ Owner[c] = u
          BY <3>1
        <4>2. approved'[u] = txs[n].rows[c]
          BY <2>2, <3>1 DEF ApprovedBy
        <4> HIDE DEF c
        <4>3. Fits(txs[n].rows[c], c, Sub, unlogged)
          BY <4>1 DEF SentInv, RowsInv
        <4>4. Sub \cup {c} = Sub
          BY <4>1, SentFacts
        <4> QED
          BY <4>1, <4>2, <4>3, <4>4 DEF Fits
      <3>2. CASE ~ \E c \in DOMAIN txs[n].rows : Owner[c] = u
        <4>1. approved'[u] = approved[u]
          BY <2>2, <3>2 DEF ApprovedBy
        <4> QED
          BY <4>1 DEF SentInv, ApprovedInv
      <3> QED
        BY <3>1, <3>2
    <2> QED
      BY <2>1, <2>2 DEF Mine
  <1> QED
    BY <1>5, <1>6, <1>7, <1>8 DEF SentInv

\* A plan approves a claim for what its owner has been paid and the claim's points;
\* it was not sent before, or its transaction is missing from the manifest.
LEMMA SentPlanned ==
  ASSUME IInv, SInv, TInv, SentInv, Plan
  PROVE  SentInv'
  <1> DEFINE left == snapshot \ Confirmed
             amount == [c \in Claims |-> IF c \in snapshot THEN Expected(c) ELSE 0]
  <1>1. /\ run.at = "off" /\ run' = [NoRun EXCEPT !.at = "sending", !.left = left, !.amount = amount]
        /\ UNCHANGED <<converter, txs, entry, unlogged>>
    BY DEF Plan
  <1>2. /\ run'.at = "sending" /\ run'.left = left /\ run'.amount = amount /\ Sub' = Sub
        /\ UNCHANGED <<approved, txs, entry, unlogged>>
    BY <1>1 DEF NoRun, Sub, converter
  <1>3. RowsInv' /\ ApprovedInv'
    BY <1>2 DEF SentInv, RowsInv, ApprovedInv
  <1>4. LoggedInv'
    BY <1>1, <1>2 DEF SentInv, LoggedInv
  <1>5. ASSUME NEW c \in left PROVE Fits(amount[c], c, Sub, unlogged) /\ (c \in Sub => c \in unlogged)
    <2>1. c \in Claims /\ entry[c] = 0 /\ amount[c] = Expected(c)
      BY SentFacts DEF Confirmed
    <2>2. c \in Sub => c \in unlogged
      BY <1>1, <2>1 DEF SentInv, LoggedInv
    <2>3. Fits(Expected(c), c, Sub, unlogged)
      <3> DEFINE u == Owner[c]
                 S == Of(u) \cap Sub
      <3> SUFFICES ASSUME Clean(u, unlogged) PROVE Expected(c) <= Total(Of(u) \cap (Sub \cup {c}))
        BY DEF Fits
      <3>1. u \in Users /\ c \in Of(u) /\ Points[c] \in Nat
        BY <2>1, ClaimsOf
      <3>2. c \notin Sub
        BY <2>2, <3>1 DEF Clean
      <3>3. Of(u) \cap (Sub \cup {c}) = S \cup {c} /\ S \cap {c} = {}
        BY <3>1, <3>2
      <3>4. approved[u] <= Total(S) /\ paid[u] <= approved[u] /\ approved[u] \in Int /\ paid[u] \in Int
        BY <3>1, SentFacts DEF SentInv, ApprovedInv, SInv, Solvent, Amounts
      <3>5. S \in SUBSET Claims /\ {c} \in SUBSET Claims
        BY <2>1 DEF Of
      <3>6. Expected(c) = paid[u] + Points[c]
        BY DEF Expected
      <3> HIDE DEF S, u
      <3>7. Total(S \cup {c}) = Total(S) + Total({c})
        BY <3>3, <3>5, TotalOfBoth
      <3>8. Total({c}) = Points[c]
        BY <2>1, TotalOfOne
      <3>9. Total(S) \in Nat
        BY <3>5, TotalIsNatural
      <3>10. paid[u] + Points[c] <= Total(S \cup {c})
        BY <3>1, <3>4, <3>7, <3>8, <3>9
      <3> QED
        BY <3>3, <3>6, <3>10
    <2> QED
      BY <2>1, <2>2, <2>3
  <1>6. RunInv'
    <2> HIDE DEF amount, left
    <2> QED
      BY <1>2, <1>5 DEF RunInv
  <1> QED
    BY <1>3, <1>4, <1>6 DEF SentInv

LEMMA SentSubmitted ==
  ASSUME IInv, TInv, SentInv, NEW chunk \in SUBSET Claims, SubmitChunk(chunk)
  PROVE  SentInv'
  <1>1. /\ DOMAIN txs' = DOMAIN txs \cup {Len(txs) + 1}
        /\ \A m \in DOMAIN txs : txs'[m] = txs[m]
        /\ txs'[Len(txs) + 1] = [rows |-> [c \in chunk |-> run.amount[c]], state |-> "pending"]
        /\ Sub' = Sub \cup chunk
    BY SubmitAddsRows DEF IInv
  <1>2. /\ run.at = "sending" /\ chunk \subseteq run.left /\ run' = [run EXCEPT !.at = "sent", !.tx = Len(txs) + 1]
        /\ UNCHANGED <<approved, entry, unlogged>>
    BY DEF SubmitChunk, converter
  <1>3. run \in RunsOK
    BY DEF TInv, OperatorOK
  <1>4. run'.at = "sent" /\ run'.tx = Len(txs) + 1 /\ run'.left = run.left /\ run'.amount = run.amount
    BY <1>2, <1>3 DEF RunsOK
  <1>5. /\ Sub \in SUBSET Claims /\ Sub' \in SUBSET Claims /\ Sub \subseteq Sub' /\ unlogged \subseteq unlogged
        /\ run.left \in SUBSET Claims /\ \A c \in Claims : run.amount[c] \in Int
    BY <1>1, SentFacts
  <1>6. \A c \in run.left : Fits(run.amount[c], c, Sub, unlogged) /\ (c \in Sub => c \in unlogged)
    BY <1>2 DEF SentInv, RunInv, InFlight
  <1>7. \A c \in run.left : Fits(run.amount[c], c, Sub', unlogged)
    BY <1>5, <1>6, FitsStill
  <1>8. RowsInv'
    <2>1. ASSUME NEW m \in DOMAIN txs, NEW c \in DOMAIN txs[m].rows PROVE Fits(txs[m].rows[c], c, Sub', unlogged)
      <3>1. c \in Claims /\ txs[m].rows[c] \in Int
        BY SentFacts
      <3>2. Fits(txs[m].rows[c], c, Sub, unlogged)
        BY DEF SentInv, RowsInv
      <3> QED
        BY <1>5, <3>1, <3>2, FitsStill
    <2>2. \A c \in chunk : Fits(run.amount[c], c, Sub', unlogged)
      BY <1>2, <1>7
    <2>3. ASSUME NEW m \in DOMAIN txs', NEW c \in DOMAIN txs'[m].rows PROVE Fits(txs'[m].rows[c], c, Sub', unlogged)
      <3>1. CASE m \in DOMAIN txs
        <4>1. txs'[m] = txs[m]
          BY <1>1, <3>1
        <4> QED
          BY <2>1, <3>1, <4>1
      <3>2. CASE m = Len(txs) + 1
        <4>1. txs'[m].rows = [d \in chunk |-> run.amount[d]]
          BY <1>1, <3>2
        <4>2. c \in chunk /\ txs'[m].rows[c] = run.amount[c]
          BY <4>1
        <4> QED
          BY <2>2, <4>2
      <3> QED
        BY <1>1, <3>1, <3>2
    <2> QED
      BY <1>2, <2>3 DEF RowsInv
  <1>9. ApprovedInv'
    <2>1. approved \in Amounts
      BY SentFacts
    <2> QED
      BY <1>2, <1>5, <2>1, ApprovedStill DEF SentInv
  <1>10. \A c \in chunk : InFlight(c)'
    BY <1>1, <1>4 DEF InFlight
  <1>11. LoggedInv'
    <2>1. \A c \in Sub : entry[c] # 0 \/ c \in unlogged
      BY <1>2 DEF SentInv, LoggedInv
    <2> QED
      BY <1>1, <1>2, <1>4, <1>10, <2>1 DEF LoggedInv
  <1>12. RunInv'
    BY <1>1, <1>2, <1>4, <1>6, <1>7, <1>10 DEF RunInv
  <1> QED
    BY <1>8, <1>9, <1>11, <1>12 DEF SentInv

\* The steps of the script that send nothing.
LEMMA SentLogged ==
  ASSUME IInv, TInv, SentInv, WriteManifest \/ ChunkConfirmed
  PROVE  SentInv'
  <1>1. run \in RunsOK
    BY DEF TInv, OperatorOK
  <1>2. UNCHANGED <<approved, txs, unlogged>> /\ Sub' = Sub
    BY DEF WriteManifest, ChunkConfirmed, converter, Sub
  <1>3. RowsInv' /\ ApprovedInv'
    BY <1>2 DEF SentInv, RowsInv, ApprovedInv
  <1>4. CASE WriteManifest
    <2>1. /\ run.at = "sent" /\ run' = [run EXCEPT !.at = "waiting"]
          /\ entry' = [c \in Claims |-> IF c \in DOMAIN txs[run.tx].rows THEN run.tx ELSE entry[c]]
      BY <1>4 DEF WriteManifest
    <2>2. run'.at = "waiting" /\ run'.tx = run.tx /\ run'.left = run.left /\ run'.amount = run.amount
      BY <1>1, <2>1 DEF RunsOK
    <2>3. run.tx # 0 /\ Sub \subseteq Claims
      BY <2>1, SentFacts
    <2>4. LoggedInv'
      BY <1>2, <2>1, <2>3 DEF SentInv, LoggedInv, InFlight
    <2>5. RunInv'
      BY <1>2, <2>1, <2>2 DEF SentInv, RunInv, InFlight
    <2> QED
      BY <1>3, <2>4, <2>5 DEF SentInv
  <1>5. CASE ChunkConfirmed
    <2> DEFINE left == run.left \ DOMAIN txs[run.tx].rows
    <2>1. run.at = "waiting" /\ run' = [run EXCEPT !.at = "sending", !.left = left, !.tx = 0] /\ entry' = entry
      BY <1>5 DEF ChunkConfirmed
    <2>2. run'.at = "sending" /\ run'.left = left /\ run'.amount = run.amount
      BY <1>1, <2>1 DEF RunsOK
    <2>3. LoggedInv'
      BY <1>2, <2>1 DEF SentInv, LoggedInv
    <2>4. RunInv'
      BY <1>2, <2>1, <2>2 DEF SentInv, RunInv, InFlight
    <2> QED
      BY <1>3, <2>3, <2>4 DEF SentInv
  <1> QED
    BY <1>4, <1>5

LEMMA SentEnded ==
  ASSUME IInv, TInv, SentInv, ChunkReverted \/ Complete \/ ScriptStops
  PROVE  SentInv'
  <1>1. UNCHANGED <<approved, txs, entry>> /\ Sub' = Sub /\ run' = NoRun /\ run'.at = "off"
    BY DEF ChunkReverted, Complete, ScriptStops, converter, Sub, NoRun
  <1>2. unlogged \subseteq unlogged' /\ (run.at = "sent" => \A c \in DOMAIN txs[run.tx].rows : c \in unlogged')
    BY DEF ChunkReverted, Complete, ScriptStops
  <1>3. Sub \in SUBSET Claims /\ Sub \subseteq Sub' /\ Sub' \in SUBSET Claims
    BY <1>1, SentFacts
  <1>4. RowsInv'
    <2>1. ASSUME NEW m \in DOMAIN txs, NEW c \in DOMAIN txs[m].rows PROVE Fits(txs[m].rows[c], c, Sub', unlogged')
      <3>1. c \in Claims /\ txs[m].rows[c] \in Int
        BY SentFacts
      <3>2. Fits(txs[m].rows[c], c, Sub, unlogged)
        BY DEF SentInv, RowsInv
      <3> QED
        BY <1>2, <1>3, <3>1, <3>2, FitsStill
    <2> QED
      BY <1>1, <2>1 DEF RowsInv
  <1>5. ApprovedInv'
    <2>1. approved \in Amounts
      BY SentFacts
    <2> QED
      BY <1>1, <1>2, <1>3, <2>1, ApprovedStill DEF SentInv
  <1>6. LoggedInv'
    BY <1>1, <1>2 DEF SentInv, LoggedInv, InFlight
  <1>7. RunInv'
    BY <1>1 DEF RunInv
  <1> QED
    BY <1>4, <1>5, <1>6, <1>7 DEF SentInv

LEMMA SentKept ==
  ASSUME IInv, SInv, TInv, SentInv, [Next]_vars
  PROVE  SentInv'
  <1>1. ASSUME UNCHANGED <<approved, txs, entry, run, unlogged>> PROVE SentInv'
    BY <1>1 DEF SentInv, RowsInv, ApprovedInv, LoggedInv, RunInv, InFlight, Sub
  <1>2. ASSUME NEW n \in DOMAIN txs, Mine(n) PROVE SentInv'
    BY <1>2, SentMined
  <1>3. ASSUME NEW u \in Users, Credit(u) PROVE SentInv'
    BY <1>1, <1>3 DEF Credit, converter, operator
  <1>4. ASSUME NEW c \in Claims, Handler(c) PROVE SentInv'
    BY <1>1, <1>4 DEF converter, operator, Handler, ReserveClaim, ProveApproval, MarkApproved, ReleaseClaim,
                      ConfirmClaimed, ConfirmFails
  <1>5. CASE Restart
    BY <1>1, <1>5 DEF Restart, converter, operator
  <1>6. CASE Chain
    <2>1. CASE \E u \in Users : Convert(u)
      BY <1>1, <2>1 DEF Convert, operator
    <2>2. CASE (\E amount \in 1..MaxReserve : FundReserve(amount) \/ WithdrawReserve(amount)) \/ CloseApprovals
      BY <1>1, <2>2 DEF FundReserve, WithdrawReserve, CloseApprovals, operator
    <2> QED
      BY <1>2, <1>6, <2>1, <2>2 DEF Chain
  <1>7. CASE Script
    <2>1. ASSUME NEW S \in SUBSET Claims, NewSnapshot(S) PROVE SentInv'
      BY <1>1, <2>1 DEF NewSnapshot, converter
    <2>2. ASSUME NEW S \in SUBSET Claims, SubmitChunk(S) PROVE SentInv'
      BY <2>2, SentSubmitted
    <2> QED
      BY <1>7, <2>1, <2>2, SentPlanned, SentLogged, SentEnded DEF Script
  <1>8. CASE UNCHANGED vars
    BY <1>1, <1>8 DEF vars, converter, operator
  <1> QED
    BY <1>2, <1>3, <1>4, <1>5, <1>6, <1>7, <1>8 DEF Next

-----------------------------------------------------------------------------

LEMMA InitPInv == Init => PInv
  <1> SUFFICES ASSUME Init PROVE PInv
    OBVIOUS
  <1>1. txs = <<>> /\ DOMAIN txs = {} /\ run.at = "off" /\ Sub = {}
    BY DEF Init, NoRun, Sub
  <1>2. debits = {} /\ Active = {} /\ listed = {} /\ earned = [u \in Users |-> 0] /\ approved = [u \in Users |-> 0]
    BY DEF Init, Active
  <1>3. Total({}) = 0
    <2>1. Worth({}) = {}
      BY DEF Worth
    <2> QED
      BY <2>1, FS_EmptySet DEF Total
  <1>4. HeldInv
    <2>1. \A u \in Users : (debits \cup Active) \cap Of(u) = {} /\ earned[u] = 0
      BY <1>2
    <2> QED
      BY <1>3, <2>1 DEF HeldInv
  <1>5. ApprovedInv
    <2>1. \A u \in Users : Of(u) \cap Sub = {} /\ approved[u] = 0
      BY <1>1, <1>2
    <2> QED
      BY <1>3, <2>1 DEF ApprovedInv
  <1> QED
    BY <1>1, <1>2, <1>4, <1>5 DEF PInv, ListedInv, SentInv, RowsInv, LoggedInv, RunInv

\* Every claim that was sent is held or debited, each once.
LEMMA PromisedIsEarned ==
  ASSUME IInv, TInv, PInv
  PROVE  PaidWithinPoints
  <1> SUFFICES ASSUME NEW u \in Users, u \notin forgotten,
                      \A c \in Of(u) \cap listed : claim[c] # "released" /\ c \notin unlogged
               PROVE  approved[u] <= earned[u]
    BY DEF PaidWithinPoints
  <1> DEFINE S == Of(u) \cap Sub
             H == (debits \cup Active) \cap Of(u)
  <1>1. Sub \subseteq listed /\ unlogged \subseteq listed /\ Sub \in SUBSET Claims
    BY SentFacts
  <1>2. Clean(u, unlogged)
    BY <1>1 DEF Clean
  <1>3. approved[u] <= Total(S) /\ Total(H) <= earned[u]
    BY <1>2 DEF PInv, SentInv, ApprovedInv, HeldInv
  <1>4. ASSUME NEW c \in S PROVE c \in H
    <2>1. c \in Claims /\ Owner[c] = u /\ c \in listed /\ claim[c] # "released" /\ claim[c] # "none"
      BY <1>1 DEF Of, PInv, ListedInv
    <2>2. claim[c] \in {"reserved", "approved", "claimed"}
      BY <2>1 DEF TInv, ServerOK, Statuses
    <2>3. claim[c] = "claimed" => c \in debits
      BY <2>1 DEF IInv, SettledOnce
    <2> QED
      BY <2>1, <2>2, <2>3 DEF Active
  <1>5. H \in SUBSET Claims /\ S \in SUBSET H /\ S \in SUBSET Claims
    BY <1>4 DEF Of
  <1>6. approved[u] \in Int /\ earned[u] \in Int
    BY SentFacts DEF Amounts, TInv, ServerOK
  <1> HIDE DEF S, H
  <1>7. Total(S) <= Total(H)
    BY <1>5, TotalGrows
  <1>8. Total(S) \in Nat /\ Total(H) \in Nat
    BY <1>5, TotalIsNatural
  <1> QED
    BY <1>3, <1>6, <1>7, <1>8

\* No user can convert more than they earned, whatever snapshots the operator
\* starts, resumes and gives up, unless a claim is released while a file lists it,
\* a transaction is missing from its manifest, or a restart forgets a debit
\* (reserveClaim, buildApprovalBatch, planApprovalResume).
THEOREM ClaimsPaidWithinPoints == Spec => []PaidWithinPoints
  <1> DEFINE Inv == IInv /\ SInv /\ TInv /\ PInv
  <1>1. Init => Inv
    BY InitSettled, InitSolvent, InitTInv, InitPInv
  <1>2. Inv /\ [Next]_vars => Inv'
    <2> SUFFICES ASSUME Inv, [Next]_vars PROVE Inv'
      OBVIOUS
    <2>1. IInv' /\ SInv' /\ TInv'
      BY TypesKept, SettledKept, SolventKept, TInvKept DEF IInv
    <2>2. PInv'
      BY HeldKept, ListedKept, SentKept DEF PInv
    <2> QED
      BY <2>1, <2>2
  <1>3. Inv => PaidWithinPoints
    BY PromisedIsEarned
  <1> QED
    BY <1>1, <1>2, <1>3, PTL DEF Spec

===============================================================================
