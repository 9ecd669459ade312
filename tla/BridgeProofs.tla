----------------------------- MODULE BridgeProofs -----------------------------
(***************************************************************************)
(* Proofs about Bridge, for any operations, amounts, blocks, observers,    *)
(* signers and limits: what the escrow holds backs the wrapped supply and  *)
(* the operations under way, an operation has one outcome, and the head    *)
(* moves past no rival.                                                    *)
(*                                                                         *)
(* The first two rest on what links the two contracts: the proof of an     *)
(* operation is consumed by whichever side settles it first. Neither       *)
(* contract looks at the other's own record, so the invariant says what a  *)
(* consumed proof means for both.                                          *)
(***************************************************************************)
EXTENDS Bridge, FiniteSetTheorems, WellFoundedInduction, TLAPS

-----------------------------------------------------------------------------
(* Tokens                                                                  *)

\* The tokens of an operation are as many as its amount.
LEMMA TokensOfOne ==
  ASSUME NEW o \in Ops
  PROVE  IsFiniteSet(Tokens(o)) /\ Cardinality(Tokens(o)) = Amount[o]
<1>1. Amount[o] \in Nat /\ 1 \in Int /\ Amount[o] \in Int
  BY AmountAssumption
<1>2. IsFiniteSet(1..Amount[o]) /\ Cardinality(1..Amount[o]) = Amount[o]
  BY <1>1, FS_Interval
<1>3. IsFiniteSet({o}) /\ Cardinality({o}) = 1
  BY FS_Singleton
<1>4. IsFiniteSet({o} \X (1..Amount[o])) /\ Cardinality({o} \X (1..Amount[o])) = 1 * Cardinality(1..Amount[o])
  BY <1>2, <1>3, FS_Product
<1> QED
  BY <1>1, <1>2, <1>4 DEF Tokens

Pool(S) == UNION {Tokens(o) : o \in S}

\* The tokens of any operations are finitely many.
LEMMA PoolFinite ==
  ASSUME NEW S \in SUBSET Ops
  PROVE  IsFiniteSet(Pool(S)) /\ Cardinality(Pool(S)) \in Nat
<1>1. IsFiniteSet(S)
  BY OpsAssumption, FS_Subset
<1>2. IsFiniteSet({Tokens(o) : o \in S})
  <2> DEFINE T == {Tokens(o) : o \in S}
             f == [o \in S |-> Tokens(o)]
  <2>1. f \in Surjection(S, T)
    BY DEF Surjection
  <2> QED
    BY <1>1, <2>1, FS_Surjection, Zenon
<1>3. \A T \in {Tokens(o) : o \in S} : IsFiniteSet(T)
  BY TokensOfOne
<1>4. IsFiniteSet(Pool(S))
  <2> DEFINE U == {Tokens(o) : o \in S}
  <2>1. IsFiniteSet(U) /\ \A T \in U : IsFiniteSet(T)
    BY <1>2, <1>3
  <2> HIDE DEF U
  <2>2. IsFiniteSet(UNION U)
    BY <2>1, FS_UNION
  <2> QED
    BY <2>2 DEF U, Pool
<1> QED
  BY <1>4, FS_CardinalityType

\* One more operation adds its amount.
LEMMA PoolAdd ==
  ASSUME NEW S \in SUBSET Ops, NEW o \in Ops \ S
  PROVE  Cardinality(Pool(S \cup {o})) = Cardinality(Pool(S)) + Amount[o]
<1>1. Pool(S \cup {o}) = Pool(S) \cup Tokens(o)
  BY DEF Pool
<1>2. Pool(S) \cap Tokens(o) = {}
  BY DEF Pool, Tokens
<1>3. Cardinality(Pool(S) \cap Tokens(o)) = 0
  BY <1>2, FS_EmptySet
<1>4. Amount[o] \in Nat
  BY AmountAssumption
<1>5. /\ IsFiniteSet(Pool(S)) /\ Cardinality(Pool(S)) \in Nat
      /\ IsFiniteSet(Tokens(o)) /\ Cardinality(Tokens(o)) = Amount[o]
  BY TokensOfOne, PoolFinite
<1>6. Cardinality(Pool(S) \cup Tokens(o))
        = Cardinality(Pool(S)) + Cardinality(Tokens(o)) - Cardinality(Pool(S) \cap Tokens(o))
  BY <1>5, FS_Union, Zenon
<1>7. Cardinality(Pool(S \cup {o})) = Cardinality(Pool(S) \cup Tokens(o))
  BY <1>1, Zenon
<1> QED
  BY <1>3, <1>4, <1>5, <1>6, <1>7

Way == {p \in Ops : UnderWay(p)}

\* The tokens owed are those of the operations under way.
LEMMA OwedIsPool == Owed = Pool(Way)
BY DEF Owed, Pool, Way

-----------------------------------------------------------------------------
(* The inductive invariant                                                 *)

\* What the records of the contracts and of the verifier say of each other.
Records ==
  \A o \in Ops :
    /\ op[o].kind = "none" => ~op[o].registered
    /\ op[o].consumed => op[o].registered
    /\ op[o].executed => op[o].consumed
    /\ op[o].returned => op[o].consumed

IInv == TypeOK /\ Records /\ OneOutcome /\ Backed

LEMMA InitInv == Init => IInv
<1> SUFFICES ASSUME Init PROVE IInv
  OBVIOUS
<1>1. NoOp \in Operation
  BY DEF NoOp, Operation
<1>2. list \in Seq(Keys)
  <2>1. Cardinality(Signers) \in Nat
    BY SignerAssumption, FS_Subset, FS_CardinalityType
  <2>2. list \in [1..Cardinality(Signers) -> Keys]
    BY SignerAssumption DEF Init, Orders
  <2> QED
    BY <2>1, <2>2
<1>3. TypeOK
  <2>1. op \in [Ops -> Operation]
    BY <1>1 DEF Init
  <2>2. order \in Seq(Observers)
    BY DEF Init
  <2>3. /\ locked \in Nat /\ minted \in Nat /\ burned \in Nat /\ mintNonce \in Nat /\ releaseNonce \in Nat
        /\ window \in Nat /\ used \in Nat /\ now \in Nat /\ changes \in Nat
    BY DEF Init
  <2>4. header \in [Observers -> Blocks \cup {NoBlock}]
    BY DEF Init
  <2>5. /\ paused \subseteq Contracts /\ strict \in BOOLEAN /\ allowed \subseteq Observers
        /\ head \in Blocks \cup {NoBlock} /\ active \subseteq Keys
    BY SignerAssumption DEF Init
  <2> QED
    BY <1>2, <2>1, <2>2, <2>3, <2>4, <2>5 DEF TypeOK
<1>4. Records /\ OneOutcome
  BY DEF Init, NoOp, Records, OneOutcome
<1>5. Backed
  <2>1. Way = {}
    BY DEF Init, NoOp, Way, UnderWay
  <2>2. Owed = {}
    BY <2>1, OwedIsPool DEF Pool
  <2> QED
    BY <2>2, FS_EmptySet DEF Init, Backed, Supply
<1> QED
  BY <1>3, <1>4, <1>5 DEF IInv

\* A change of the operations under way, and what it does to the tokens owed.
LEMMA Opened ==
  ASSUME NEW o \in Ops, ~UnderWay(o), UnderWay(o)', \A p \in Ops \ {o} : UnderWay(p)' <=> UnderWay(p)
  PROVE  Cardinality(Owed)' = Cardinality(Owed) + Amount[o]
<1>1. Way' = Way \cup {o} /\ o \notin Way /\ Way \in SUBSET Ops
  BY DEF Way
<1>2. Owed' = Pool(Way \cup {o})
  BY <1>1 DEF Owed, Pool, Way, Tokens
<1> QED
  BY <1>1, <1>2, PoolAdd, OwedIsPool

LEMMA Closed ==
  ASSUME NEW o \in Ops, UnderWay(o), ~UnderWay(o)', \A p \in Ops \ {o} : UnderWay(p)' <=> UnderWay(p)
  PROVE  Cardinality(Owed)' = Cardinality(Owed) - Amount[o]
<1>1. Way = Way' \cup {o} /\ o \notin Way' /\ Way' \in SUBSET Ops
  BY DEF Way
<1>2. Owed' = Pool(Way')
  BY DEF Owed, Pool, Way, Tokens
<1>3. Cardinality(Pool(Way' \cup {o})) = Cardinality(Pool(Way')) + Amount[o]
  BY <1>1, PoolAdd
<1>4. Cardinality(Pool(Way')) \in Nat /\ Amount[o] \in Nat
  BY <1>1, PoolFinite, AmountAssumption
<1>5. Owed = Pool(Way' \cup {o})
  BY <1>1, OwedIsPool
<1> QED
  BY <1>2, <1>3, <1>4, <1>5

LEMMA Kept ==
  ASSUME \A p \in Ops : UnderWay(p)' <=> UnderWay(p)
  PROVE  Cardinality(Owed)' = Cardinality(Owed)
<1>1. Way' = Way
  BY DEF Way
<1>2. Owed' = Pool(Way')
  BY DEF Owed, Pool, Way, Tokens
<1> QED
  BY <1>1, <1>2, OwedIsPool

\* The balance, the supply and the tokens owed are integers.
LEMMA Integral ==
  ASSUME TypeOK
  PROVE  /\ locked \in Nat /\ minted \in Nat /\ burned \in Nat
         /\ Cardinality(Owed) \in Nat
         /\ \A o \in Ops : Amount[o] \in Nat \ {0}
<1>1. Way \in SUBSET Ops
  BY DEF Way
<1>2. Cardinality(Owed) \in Nat
  BY <1>1, PoolFinite, OwedIsPool
<1> QED
  BY <1>2, AmountAssumption DEF TypeOK

-----------------------------------------------------------------------------
(* Types                                                                   *)

\* Every step keeps the types.
LEMMA TypeStep == TypeOK /\ [Next]_vars => TypeOK'
<1> SUFFICES ASSUME TypeOK, [Next]_vars PROVE TypeOK'
  OBVIOUS
<1> USE DEF TypeOK
<1>u. ASSUME UNCHANGED vars PROVE TypeOK'
  BY <1>u DEF vars, ledger, nonces, chain, limits, governed
<1>n. ASSUME NEW o \in Ops PROVE Amount[o] \in Nat /\ Nonce[o] \in Nat /\ Block[o] \in Blocks
  BY AmountAssumption, MessageAssumption
<1>e. ASSUME NEW o \in Ops, op' = [op EXCEPT ![o].kind = "lock"] \/ op' = [op EXCEPT ![o].kind = "burn"]
                            \/ op' = [op EXCEPT ![o].registered = TRUE] \/ op' = [op EXCEPT ![o].failed = TRUE]
                            \/ op' = [op EXCEPT ![o].finalized = TRUE, ![o].anchored = strict]
                            \/ Execute(o) \/ Return(o)
      PROVE  op' \in [Ops -> Operation]
  <2>1. op[o] \in Operation /\ strict \in BOOLEAN
    OBVIOUS
  <2>2. PICK new \in Operation : op' = [op EXCEPT ![o] = new]
    <3>1. CASE op' = [op EXCEPT ![o].kind = "lock"]
      BY <2>1, <3>1 DEF Operation
    <3>2. CASE op' = [op EXCEPT ![o].kind = "burn"]
      BY <2>1, <3>2 DEF Operation
    <3>3. CASE op' = [op EXCEPT ![o].registered = TRUE]
      BY <2>1, <3>3 DEF Operation
    <3>4. CASE op' = [op EXCEPT ![o].failed = TRUE]
      BY <2>1, <3>4 DEF Operation
    <3>5. CASE op' = [op EXCEPT ![o].finalized = TRUE, ![o].anchored = strict]
      <4>1. op' = [op EXCEPT ![o] = [op[o] EXCEPT !.finalized = TRUE, !.anchored = strict]]
        BY <3>5
      <4>2. [op[o] EXCEPT !.finalized = TRUE, !.anchored = strict] \in Operation
        BY <2>1 DEF Operation
      <4> QED
        BY <4>1, <4>2
    <3>6. CASE Execute(o)
      <4>1. op' = [op EXCEPT ![o] = [op[o] EXCEPT !.consumed = TRUE, !.executed = TRUE]]
        BY <3>6 DEF Execute
      <4>2. [op[o] EXCEPT !.consumed = TRUE, !.executed = TRUE] \in Operation
        BY <2>1 DEF Operation
      <4> QED
        BY <4>1, <4>2
    <3>7. CASE Return(o)
      <4>1. op' = [op EXCEPT ![o] = [op[o] EXCEPT !.consumed = TRUE, !.returned = TRUE]]
        BY <3>7 DEF Return
      <4>2. [op[o] EXCEPT !.consumed = TRUE, !.returned = TRUE] \in Operation
        BY <2>1 DEF Operation
      <4> QED
        BY <4>1, <4>2
    <3> QED
      BY <1>e, <3>1, <3>2, <3>3, <3>4, <3>5, <3>6, <3>7
  <2> QED
    BY <2>2
<1>l. ASSUME NEW a \in Nat, ConsumeLimit(a) PROVE window' \in Nat /\ used' \in Nat
  BY <1>l DEF ConsumeLimit
<1>1. ASSUME NEW o \in Ops, Lock(o) PROVE TypeOK'
  <2>1. op' \in [Ops -> Operation]
    BY <1>1, <1>e DEF Lock
  <2> QED
    BY <1>1, <1>n, <2>1 DEF Lock, ledger, nonces, chain, limits, governed
<1>2. ASSUME NEW o \in Ops, MintFromLock(o) PROVE TypeOK'
  <2>1. op' \in [Ops -> Operation]
    BY <1>2, <1>e DEF MintFromLock
  <2> QED
    BY <1>2, <1>n, <1>l, <2>1 DEF MintFromLock, ledger, nonces, chain, limits, governed
<1>3. ASSUME NEW o \in Ops, RefundLock(o) PROVE TypeOK'
  <2>1. op' \in [Ops -> Operation]
    BY <1>3, <1>e DEF RefundLock
  <2> QED
    BY <1>3, <1>n, <2>1 DEF RefundLock, ledger, nonces, chain, limits, governed
<1>4. ASSUME NEW o \in Ops, BurnAndRelease(o) PROVE TypeOK'
  <2>1. op' \in [Ops -> Operation]
    BY <1>4, <1>e DEF BurnAndRelease
  <2> QED
    BY <1>4, <1>n, <2>1 DEF BurnAndRelease, ledger, nonces, chain, limits, governed
<1>5. ASSUME NEW o \in Ops, ReleaseFromBurn(o) PROVE TypeOK'
  <2>1. op' \in [Ops -> Operation]
    BY <1>5, <1>e DEF ReleaseFromBurn
  <2> QED
    BY <1>5, <1>n, <1>l, <2>1 DEF ReleaseFromBurn, ledger, nonces, chain, limits, governed
<1>6. ASSUME NEW o \in Ops, RecoverBurn(o) PROVE TypeOK'
  <2>1. op' \in [Ops -> Operation]
    BY <1>6, <1>e DEF RecoverBurn
  <2> QED
    BY <1>6, <1>n, <2>1 DEF RecoverBurn, ledger, nonces, chain, limits, governed
<1>7. ASSUME NEW o \in Ops, RegisterProof(o) PROVE TypeOK'
  <2>1. op' \in [Ops -> Operation]
    BY <1>7, <1>e DEF RegisterProof
  <2> QED
    BY <1>7, <2>1 DEF RegisterProof, ledger, nonces, chain, limits, governed
<1>8. ASSUME NEW o \in Ops, Finalize(o) PROVE TypeOK'
  <2>1. op' \in [Ops -> Operation]
    BY <1>8, <1>e DEF Finalize
  <2> QED
    BY <1>8, <1>n, <2>1 DEF Finalize, ledger, nonces, chain, limits, governed
<1>9. ASSUME NEW o \in Ops, MarkFailed(o) PROVE TypeOK'
  <2>1. op' \in [Ops -> Operation]
    BY <1>9, <1>e DEF MarkFailed
  <2> QED
    BY <1>9, <2>1 DEF MarkFailed, ledger, nonces, chain, limits, governed
<1>10. ASSUME NEW b \in Blocks, NEW spared \in SUBSET Ops, Reconcile(b, spared) PROVE TypeOK'
  <2>1. op' \in [Ops -> Operation]
    BY <1>10 DEF Reconcile, Operation
  <2> QED
    BY <1>10, <2>1 DEF Reconcile, ledger, nonces, chain, limits, governed
<1>11. ASSUME NEW b \in Blocks, NEW v \in Observers, RegisterHeader(v, b) PROVE TypeOK'
  <2>1. header' \in [Observers -> Blocks \cup {NoBlock}]
    BY <1>11 DEF RegisterHeader
  <2>2. order' \in Seq(Observers)
    BY <1>11 DEF RegisterHeader
  <2> QED
    BY <1>11, <2>1, <2>2 DEF RegisterHeader, ledger, nonces, limits, governed
<1>12. ASSUME Govern PROVE TypeOK'
  <2>1. changes' \in Nat /\ UNCHANGED <<op, ledger, nonces, chain, head, now>>
    BY <1>12 DEF Govern
  <2>2. list' \in Seq(Keys)
    <3>1. CASE UNCHANGED list
      BY <3>1
    <3>2. ASSUME NEW old \in Keys, NEW new \in Keys, RotateSigner(old, new) PROVE list' \in Seq(Keys)
      <4> DEFINE first(i) == list[i] = old /\ \A j \in 1..(i - 1) : list[j] # old
      <4>1. list' = [i \in DOMAIN list |-> IF first(i) THEN new ELSE list[i]]
        BY <3>2 DEF RotateSigner
      <4>2. DOMAIN list = 1..Len(list) /\ Len(list) \in Nat /\ \A i \in 1..Len(list) : list[i] \in Keys
        OBVIOUS
      <4> HIDE DEF first
      <4>3. list' \in [1..Len(list) -> Keys]
        BY <4>1, <4>2
      <4> QED
        BY <4>2, <4>3
    <3> QED
      BY <1>12, <3>1, <3>2 DEF Govern, RevokeSigner, ConfigureObserver, ConfigureFinality, SetLimits, Pause, governed
  <2>3. window' \in Nat /\ used' \in Nat
    <3>1. UNCHANGED limits \/ SetLimits
      BY <1>12 DEF Govern, RotateSigner, RevokeSigner, ConfigureObserver, ConfigureFinality, Pause
    <3> QED
      BY <3>1 DEF SetLimits, limits
  <2>7. strict' \in BOOLEAN
    BY <1>12 DEF Govern, RotateSigner, RevokeSigner, ConfigureObserver, ConfigureFinality, SetLimits, Pause, governed
  <2>4. paused' \subseteq Contracts
    BY <1>12 DEF Govern, RotateSigner, RevokeSigner, ConfigureObserver, ConfigureFinality, SetLimits, Pause, governed
  <2>5. active' \subseteq Keys
    <3>1. ASSUME NEW old \in Keys, NEW new \in Keys, RotateSigner(old, new) PROVE active' \subseteq Keys
      BY <3>1 DEF RotateSigner
    <3>2. ASSUME NEW key \in Keys, RevokeSigner(key) PROVE active' \subseteq Keys
      BY <3>2 DEF RevokeSigner
    <3> QED
      BY <1>12, <3>1, <3>2 DEF Govern, ConfigureObserver, ConfigureFinality, SetLimits, Pause, governed
  <2>6. allowed' \subseteq Observers
    BY <1>12 DEF Govern, RotateSigner, RevokeSigner, ConfigureObserver, ConfigureFinality, SetLimits, Pause, governed
  <2> QED
    BY <2>1, <2>2, <2>3, <2>4, <2>5, <2>6, <2>7 DEF ledger, nonces, chain
<1>13. ASSUME Tick PROVE TypeOK'
  BY <1>13 DEF Tick, ledger, nonces, chain, limits, governed
<1> HIDE DEF TypeOK
<1> QED
  BY <1>u, <1>1, <1>2, <1>3, <1>4, <1>5, <1>6, <1>7, <1>8, <1>9, <1>10, <1>11, <1>12, <1>13 DEF Next

\* The types hold of every reachable state.
THEOREM BridgeTypes == Spec => []TypeOK
<1>1. Init => TypeOK
  BY InitInv DEF IInv
<1> QED
  BY <1>1, TypeStep, PTL DEF Spec

-----------------------------------------------------------------------------
(* Records and outcomes                                                    *)

\* Every step keeps what the records say of each other and that an operation has one outcome.
LEMMA RecordStep == IInv /\ [Next]_vars => Records' /\ OneOutcome'
<1> SUFFICES ASSUME IInv, [Next]_vars PROVE Records' /\ OneOutcome'
  OBVIOUS
<1> DEFINE Sound(o) == /\ op[o].kind = "none" => ~op[o].registered
                       /\ op[o].consumed => op[o].registered
                       /\ op[o].executed => op[o].consumed
                       /\ op[o].returned => op[o].consumed
                       /\ op[o].executed => ~op[o].returned /\ ~op[o].failed /\ ~op[o].invalid
<1>t. op \in [Ops -> Operation] /\ \A p \in Ops : op[p] \in Operation /\ Sound(p)
  BY DEF IInv, TypeOK, Records, OneOutcome
<1> SUFFICES ASSUME NEW p \in Ops PROVE Sound(p)'
  BY DEF Records, OneOutcome
<1>same. ASSUME UNCHANGED op PROVE Sound(p)'
  BY <1>t, <1>same
<1>1. ASSUME NEW o \in Ops, Lock(o) PROVE Sound(p)'
  BY <1>t, <1>1 DEF Lock, Operation
<1>2. ASSUME NEW o \in Ops, MintFromLock(o) PROVE Sound(p)'
  BY <1>t, <1>2 DEF MintFromLock, Consumable, Execute, Operation
<1>3. ASSUME NEW o \in Ops, RefundLock(o) PROVE Sound(p)'
  BY <1>t, <1>3 DEF RefundLock, Recoverable, Return, Operation
<1>4. ASSUME NEW o \in Ops, BurnAndRelease(o) PROVE Sound(p)'
  BY <1>t, <1>4 DEF BurnAndRelease, Operation
<1>5. ASSUME NEW o \in Ops, ReleaseFromBurn(o) PROVE Sound(p)'
  BY <1>t, <1>5 DEF ReleaseFromBurn, Consumable, Execute, Operation
<1>6. ASSUME NEW o \in Ops, RecoverBurn(o) PROVE Sound(p)'
  BY <1>t, <1>6 DEF RecoverBurn, Recoverable, Return, Operation
<1>7. ASSUME NEW o \in Ops, RegisterProof(o) PROVE Sound(p)'
  BY <1>t, <1>7 DEF RegisterProof, Operation
<1>8. ASSUME NEW o \in Ops, Finalize(o) PROVE Sound(p)'
  BY <1>t, <1>8 DEF Finalize, Operation
<1>9. ASSUME NEW o \in Ops, MarkFailed(o) PROVE Sound(p)'
  BY <1>t, <1>9 DEF MarkFailed, Operation
<1>10. ASSUME NEW b \in Blocks, NEW spared \in SUBSET Ops, Reconcile(b, spared) PROVE Sound(p)'
  BY <1>t, <1>10 DEF Reconcile, Operation
<1>11. ASSUME NEW b \in Blocks, NEW v \in Observers, RegisterHeader(v, b) PROVE Sound(p)'
  BY <1>11, <1>same DEF RegisterHeader
<1>12. ASSUME Govern PROVE Sound(p)'
  BY <1>12, <1>same DEF Govern
<1>13. ASSUME Tick PROVE Sound(p)'
  BY <1>13, <1>same DEF Tick
<1>14. ASSUME UNCHANGED vars PROVE Sound(p)'
  BY <1>14, <1>same DEF vars
<1> HIDE DEF Sound
<1> QED
  BY <1>1, <1>2, <1>3, <1>4, <1>5, <1>6, <1>7, <1>8, <1>9, <1>10, <1>11, <1>12, <1>13, <1>14 DEF Next

-----------------------------------------------------------------------------
(* Conservation                                                            *)

\* Every step keeps the balance of the escrow equal to the supply and the tokens owed.
LEMMA BackedStep == IInv /\ [Next]_vars => Backed'
<1> SUFFICES ASSUME IInv, [Next]_vars PROVE Backed'
  OBVIOUS
<1>t. /\ TypeOK /\ op \in [Ops -> Operation]
      /\ \A p \in Ops : op[p] \in Operation
      /\ \A p \in Ops : op[p].kind = "none" => ~op[p].registered
      /\ \A p \in Ops : op[p].consumed => op[p].registered
      /\ \A p \in Ops : op[p].executed \/ op[p].returned => op[p].consumed
      /\ locked = Supply + Cardinality(Owed)
  BY DEF IInv, TypeOK, Records, Backed
<1>i. /\ locked \in Nat /\ minted \in Nat /\ burned \in Nat
      /\ Cardinality(Owed) \in Nat
      /\ \A o \in Ops : Amount[o] \in Nat \ {0}
  BY <1>t, Integral
\* The ledgers and the operations under way are what they were.
<1>same. ASSUME UNCHANGED <<locked, minted, burned>>, \A p \in Ops : UnderWay(p)' <=> UnderWay(p) PROVE Backed'
  <2>1. Cardinality(Owed)' = Cardinality(Owed)
    BY <1>same, Kept
  <2> QED
    BY <1>same, <1>t, <2>1 DEF Backed, Supply
<1>quiet. ASSUME UNCHANGED op PROVE \A p \in Ops : UnderWay(p)' <=> UnderWay(p)
  BY <1>quiet DEF UnderWay
<1>1. ASSUME NEW o \in Ops, Lock(o) PROVE Backed'
  <2>1. ~UnderWay(o) /\ UnderWay(o)' /\ \A p \in Ops \ {o} : UnderWay(p)' <=> UnderWay(p)
    BY <1>t, <1>1 DEF Lock, UnderWay, Operation
  <2>2. Cardinality(Owed)' = Cardinality(Owed) + Amount[o]
    BY <2>1, Opened
  <2> QED
    BY <1>t, <1>i, <1>1, <2>2 DEF Lock, Backed, Supply
<1>2. ASSUME NEW o \in Ops, MintFromLock(o) PROVE Backed'
  <2>1. UnderWay(o) /\ ~UnderWay(o)' /\ \A p \in Ops \ {o} : UnderWay(p)' <=> UnderWay(p)
    BY <1>t, <1>2 DEF MintFromLock, Consumable, Execute, UnderWay, Operation
  <2>2. Cardinality(Owed)' = Cardinality(Owed) - Amount[o]
    BY <2>1, Closed
  <2> QED
    BY <1>t, <1>i, <1>2, <2>2 DEF MintFromLock, Backed, Supply
<1>3. ASSUME NEW o \in Ops, RefundLock(o) PROVE Backed'
  <2>1. UnderWay(o) /\ ~UnderWay(o)' /\ \A p \in Ops \ {o} : UnderWay(p)' <=> UnderWay(p)
    BY <1>t, <1>3 DEF RefundLock, Recoverable, Return, UnderWay, Operation
  <2>2. Cardinality(Owed)' = Cardinality(Owed) - Amount[o]
    BY <2>1, Closed
  <2> QED
    BY <1>t, <1>i, <1>3, <2>2 DEF RefundLock, Backed, Supply
<1>4. ASSUME NEW o \in Ops, BurnAndRelease(o) PROVE Backed'
  <2>1. ~UnderWay(o) /\ UnderWay(o)' /\ \A p \in Ops \ {o} : UnderWay(p)' <=> UnderWay(p)
    BY <1>t, <1>4 DEF BurnAndRelease, UnderWay, Operation
  <2>2. Cardinality(Owed)' = Cardinality(Owed) + Amount[o]
    BY <2>1, Opened
  <2> QED
    BY <1>t, <1>i, <1>4, <2>2 DEF BurnAndRelease, Backed, Supply
<1>5. ASSUME NEW o \in Ops, ReleaseFromBurn(o) PROVE Backed'
  <2>1. UnderWay(o) /\ ~UnderWay(o)' /\ \A p \in Ops \ {o} : UnderWay(p)' <=> UnderWay(p)
    BY <1>t, <1>5 DEF ReleaseFromBurn, Consumable, Execute, UnderWay, Operation
  <2>2. Cardinality(Owed)' = Cardinality(Owed) - Amount[o]
    BY <2>1, Closed
  <2> QED
    BY <1>t, <1>i, <1>5, <2>2 DEF ReleaseFromBurn, Backed, Supply
<1>6. ASSUME NEW o \in Ops, RecoverBurn(o) PROVE Backed'
  <2>1. UnderWay(o) /\ ~UnderWay(o)' /\ \A p \in Ops \ {o} : UnderWay(p)' <=> UnderWay(p)
    BY <1>t, <1>6 DEF RecoverBurn, Recoverable, Return, UnderWay, Operation
  <2>2. Cardinality(Owed)' = Cardinality(Owed) - Amount[o]
    BY <2>1, Closed
  <2> QED
    BY <1>t, <1>i, <1>6, <2>2 DEF RecoverBurn, Backed, Supply
<1>7. ASSUME NEW o \in Ops, RegisterProof(o) \/ Finalize(o) \/ MarkFailed(o) PROVE Backed'
  <2>1. \A p \in Ops : UnderWay(p)' <=> UnderWay(p)
    BY <1>t, <1>7 DEF RegisterProof, Finalize, MarkFailed, UnderWay, Operation
  <2> QED
    BY <1>7, <1>same, <2>1 DEF RegisterProof, Finalize, MarkFailed, ledger
<1>8. ASSUME NEW b \in Blocks, NEW spared \in SUBSET Ops, Reconcile(b, spared) PROVE Backed'
  <2>1. \A p \in Ops : UnderWay(p)' <=> UnderWay(p)
    BY <1>t, <1>8 DEF Reconcile, UnderWay, Operation
  <2> QED
    BY <1>8, <1>same, <2>1 DEF Reconcile, ledger
<1>9. ASSUME NEW b \in Blocks, NEW v \in Observers, RegisterHeader(v, b) PROVE Backed'
  BY <1>9, <1>same, <1>quiet DEF RegisterHeader, ledger
<1>10. ASSUME Govern \/ Tick PROVE Backed'
  BY <1>10, <1>same, <1>quiet DEF Govern, Tick, ledger
<1>11. ASSUME UNCHANGED vars PROVE Backed'
  BY <1>11, <1>same, <1>quiet DEF vars, ledger
<1> QED
  BY <1>1, <1>2, <1>3, <1>4, <1>5, <1>6, <1>7, <1>8, <1>9, <1>10, <1>11 DEF Next

\* The escrow's balance backs the wrapped supply and every operation under way.
THEOREM BridgeBacked == Spec => []Backed
<1>1. IInv /\ [Next]_vars => IInv'
  BY TypeStep, RecordStep, BackedStep DEF IInv
<1>2. IInv => Backed
  BY DEF IInv
<1> QED
  BY <1>1, <1>2, InitInv, PTL DEF Spec

\* An operation either executes or is given back, and executes only with a proof
\* that neither governance nor a reorganisation has struck.
THEOREM BridgeOneOutcome == Spec => []OneOutcome
<1>1. IInv /\ [Next]_vars => IInv'
  BY TypeStep, RecordStep, BackedStep DEF IInv
<1>2. IInv => OneOutcome
  BY DEF IInv
<1> QED
  BY <1>1, <1>2, InitInv, PTL DEF Spec

-----------------------------------------------------------------------------
(* The canonical head                                                      *)

\* The walk of _uniqueHead meets everyone who has registered a header.
Listed == \A v \in Observers : header[v] # NoBlock => \E i \in DOMAIN order : order[i] = v

HInv == TypeOK /\ Listed

LEMMA ListedStep == HInv /\ [Next]_vars => Listed'
<1> SUFFICES ASSUME HInv, [Next]_vars PROVE Listed'
  OBVIOUS
<1>0. /\ header \in [Observers -> Blocks \cup {NoBlock}] /\ order \in Seq(Observers)
      /\ allowed \subseteq Observers /\ Listed
  BY DEF HInv, TypeOK
<1>1. ASSUME NEW b \in Blocks, NEW v \in Observers, RegisterHeader(v, b)
      PROVE  Listed'
  <2>1. CASE header[v] = NoBlock
    <3>1. order' = Append(order, v) /\ header' = [header EXCEPT ![v] = b]
      BY <1>1, <2>1 DEF RegisterHeader
    <3>2. /\ Len(order') = Len(order) + 1 /\ order'[Len(order) + 1] = v
          /\ \A i \in DOMAIN order : i \in DOMAIN order' /\ order'[i] = order[i]
          /\ Len(order) + 1 \in DOMAIN order'
      BY <1>0, <3>1
    <3>3. \A w \in Observers : w # v => header'[w] = header[w]
      BY <1>0, <3>1
    <3> QED
      BY <1>0, <3>2, <3>3 DEF Listed
  <2>2. CASE header[v] # NoBlock
    BY <1>0, <1>1, <2>2 DEF RegisterHeader, Listed
  <2> QED
    BY <2>1, <2>2
<1>2. UNCHANGED chain => Listed'
  BY <1>0 DEF chain, Listed
<1>3. CASE UNCHANGED vars
  BY <1>2, <1>3 DEF vars
<1>4. CASE Tick
  BY <1>2, <1>4 DEF Tick
<1>5. CASE Govern
  BY <1>2, <1>5 DEF Govern
<1>6. ASSUME NEW b \in Blocks, NEW spared \in SUBSET Ops, Reconcile(b, spared)
      PROVE  Listed'
  BY <1>2, <1>6 DEF Reconcile
<1>7. ASSUME NEW o \in Ops,
             \/ Lock(o) \/ MintFromLock(o) \/ RefundLock(o)
             \/ BurnAndRelease(o) \/ ReleaseFromBurn(o) \/ RecoverBurn(o)
             \/ RegisterProof(o) \/ Finalize(o) \/ MarkFailed(o)
      PROVE  Listed'
  BY <1>2, <1>7 DEF Lock, MintFromLock, RefundLock, BurnAndRelease, ReleaseFromBurn,
                    RecoverBurn, RegisterProof, Finalize, MarkFailed
<1> QED
  BY <1>1, <1>3, <1>4, <1>5, <1>6, <1>7 DEF Next

LEMMA LeastNatural ==
  ASSUME NEW S, S \subseteq Nat, S # {}
  PROVE  \E m \in S : \A k \in S : ~(k < m)
<1>1. PICK m \in S : \A k \in S : <<k, m>> \notin OpToRel(<, Nat)
  BY WFMin, NatLessThanWellFounded, Zenon
<1>2. \A k \in S : ~(k < m)
  BY <1>1, Zenon DEF OpToRel
<1> QED
  BY <1>2

\* Of the places that hold a rival head the first repeats nothing before it, so
\* the walk counts it if it has a quorum.
LEMMA NoRival ==
  ASSUME HInv, NEW b \in Blocks, UniqueHead(b),
         NEW r \in Blocks \ {b}, Height[r] = Height[b], Holders(r) # {}
  PROVE  ~HeaderQuorum(r)
<1>1. PICK v \in Observers : header[v] = r
  BY DEF HInv, TypeOK, Holders
<1>2. PICK n \in DOMAIN order : order[n] = v
  BY <1>1, BlockAssumption DEF HInv, Listed
<1> DEFINE At == {i \in Voters(b) : HeadAt(i) = r}
<1>3. DOMAIN order \subseteq Nat
  BY DEF HInv, TypeOK
<1>4. At \subseteq Nat /\ n \in At
  BY <1>1, <1>2, <1>3 DEF Voters, HeadAt
<1>5. PICK m \in At : \A k \in At : ~(k < m)
  BY <1>4, LeastNatural
<1>6. m \in Voters(b) /\ HeadAt(m) = r
  OBVIOUS
<1>7. \A j \in Voters(b) : j < m => HeadAt(j) # HeadAt(m)
  BY <1>5, <1>6
<1> SUFFICES ASSUME HeaderQuorum(r) PROVE FALSE
  OBVIOUS
<1>8. HeadAt(m) = b
  <2> HIDE DEF At
  <2> QED
    BY <1>6, <1>7 DEF UniqueHead
<1> QED
  BY <1>6, <1>8

\* The head only moves to a block with a quorum of observers, and never past a
\* rival of its height that has one too.
THEOREM BridgeHead == Spec => NoRivalHead
<1>1. Init => HInv
  <2>1. Init => TypeOK
    BY InitInv DEF IInv
  <2> QED
    BY <2>1 DEF Init, HInv, Listed
<1>2. HInv /\ [Next]_vars => HInv'
  BY TypeStep, ListedStep DEF HInv
<1> DEFINE Step == head' # head =>
             /\ HeaderQuorum(head')
             /\ \A b \in Blocks \ {head'} :
                  Height[b] = Height[head'] /\ Holders(b) # {} => ~HeaderQuorum(b)
<1>3. HInv /\ [Next]_vars => [Step]_vars
  <2> SUFFICES ASSUME HInv, [Next]_vars, head' # head PROVE Step
    BY DEF vars
  <2>1. ASSUME NEW b \in Blocks, head' = b, Agreed(b) PROVE Step
    BY <2>1, NoRival DEF Agreed
  <2>2. ASSUME NEW b \in Blocks, NEW spared \in SUBSET Ops, Reconcile(b, spared)
        PROVE  Step
    BY <2>1, <2>2 DEF Reconcile
  <2>3. ASSUME NEW o \in Ops, Finalize(o)
        PROVE  Step
    BY <2>1, <2>3, MessageAssumption DEF Finalize
  <2>4. CASE UNCHANGED head
    BY <2>4
  <2>5. ASSUME NEW b \in Blocks, NEW v \in Observers, RegisterHeader(v, b) PROVE UNCHANGED head
    BY <2>5 DEF RegisterHeader
  <2>6. Tick \/ Govern \/ UNCHANGED vars => UNCHANGED head
    BY DEF Tick, Govern, vars
  <2>7. ASSUME NEW o \in Ops,
               \/ Lock(o) \/ MintFromLock(o) \/ RefundLock(o)
               \/ BurnAndRelease(o) \/ ReleaseFromBurn(o) \/ RecoverBurn(o)
               \/ RegisterProof(o) \/ MarkFailed(o)
        PROVE  UNCHANGED head
    BY <2>7 DEF Lock, MintFromLock, RefundLock, BurnAndRelease, ReleaseFromBurn,
                RecoverBurn, RegisterProof, MarkFailed
  <2> QED
    BY <2>2, <2>3, <2>4, <2>5, <2>6, <2>7 DEF Next
<1> QED
  BY <1>1, <1>2, <1>3, PTL DEF Spec, NoRivalHead
=============================================================================
