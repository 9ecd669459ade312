---------------------------- MODULE SpendRailsProofs ----------------------------
(***************************************************************************)
(* Proofs about SpendRails, for any reservations, Pacts, caps, budgets,    *)
(* deadlines and amounts, and for any number of days and crashes.          *)
(*                                                                         *)
(* The code keeps running totals (dayUsed, weekUsed, spentMinor) and never *)
(* recomputes them.  The proofs show that each running total is the sum it *)
(* stands for in every reachable state, crashes included; the caps and the *)
(* budgets, which the code checks against the totals, follow.              *)
(***************************************************************************)
EXTENDS SpendRails, FiniteSetTheorems, TLAPS

AmountsOf == [Ids -> 0..MaxAmount]

-----------------------------------------------------------------------------
(* Sums of amounts                                                         *)

\* A sum is a natural number.
LEMMA CentsFinite ==
  ASSUME NEW S \in SUBSET Ids, NEW amt
  PROVE  IsFiniteSet(Cents(S, amt)) /\ Cardinality(Cents(S, amt)) \in Nat
<1>1. IsFiniteSet(S)
  BY IdsAssumption, FS_Subset
<1>2. IsFiniteSet(Amounts)
  BY FS_Interval, NumberAssumption DEF Amounts
<1>3. IsFiniteSet(S \X Amounts)
  BY <1>1, <1>2, FS_Product
<1>4. Cents(S, amt) \subseteq S \X Amounts
  BY DEF Cents
<1>5. IsFiniteSet(Cents(S, amt))
  BY <1>3, <1>4, FS_Subset
<1> QED
  BY <1>5, FS_CardinalityType

\* Fewer reservations never sum to more.
LEMMA CentsMonotone ==
  ASSUME NEW S \in SUBSET Ids, NEW T \in SUBSET S, NEW amt
  PROVE  Cardinality(Cents(T, amt)) <= Cardinality(Cents(S, amt))
<1>1. Cents(T, amt) \subseteq Cents(S, amt)
  BY DEF Cents
<1>2. IsFiniteSet(Cents(S, amt))
  BY CentsFinite
<1> QED
  BY <1>1, <1>2, FS_Subset

\* A sum depends only on the amounts of the reservations in it.
LEMMA CentsSame ==
  ASSUME NEW S \in SUBSET Ids, NEW amt, NEW amt2, \A i \in S : amt2[i] = amt[i]
  PROVE  Cents(S, amt2) = Cents(S, amt)
BY DEF Cents

\* No reservations sum to nothing.
LEMMA CentsNone == ASSUME NEW amt PROVE Cardinality(Cents({}, amt)) = 0
<1>1. Cents({}, amt) = {}
  BY DEF Cents
<1> QED
  BY <1>1, FS_EmptySet

\* One more reservation adds its amount to a sum.
LEMMA CentsAdd ==
  ASSUME NEW S \in SUBSET Ids, NEW i \in Ids \ S, NEW amt \in AmountsOf
  PROVE  Cardinality(Cents(S \cup {i}, amt)) = Cardinality(Cents(S, amt)) + amt[i]
<1> DEFINE C == {i} \X (1..amt[i])
<1>1. amt[i] \in 0..MaxAmount
  BY DEF AmountsOf
<1>2. Cents(S \cup {i}, amt) = Cents(S, amt) \cup C
  <2>1. \A c : c \in Cents(S \cup {i}, amt) <=> c \in Cents(S, amt) \/ c \in C
    BY <1>1, NumberAssumption DEF Cents, Amounts
  <2> QED
    BY <2>1
<1>3. Cents(S, amt) \cap C = {}
  BY DEF Cents
<1>4. IsFiniteSet(1..amt[i]) /\ Cardinality(1..amt[i]) = amt[i]
  <2>1. amt[i] \in Nat /\ 1 \in Int /\ amt[i] \in Int
    BY <1>1, NumberAssumption
  <2>2. /\ IsFiniteSet(1..amt[i])
        /\ Cardinality(1..amt[i]) = IF 1 > amt[i] THEN 0 ELSE amt[i] - 1 + 1
    BY <2>1, FS_Interval, Zenon
  <2> QED
    BY <2>1, <2>2
<1>5. IsFiniteSet(C) /\ Cardinality(C) = amt[i]
  <2>1. IsFiniteSet({i}) /\ Cardinality({i}) = 1
    BY FS_Singleton
  <2>2. IsFiniteSet(C) /\ Cardinality(C) = 1 * Cardinality(1..amt[i])
    BY <1>4, <2>1, FS_Product
  <2> QED
    BY <1>1, <1>4, <2>2
<1>6. IsFiniteSet(Cents(S, amt)) /\ Cardinality(Cents(S, amt)) \in Nat
  BY CentsFinite
<1> HIDE DEF C
<1>7. Cardinality(Cents(S, amt) \cup C)
        = Cardinality(Cents(S, amt)) + Cardinality(C) - Cardinality(Cents(S, amt) \cap C)
  BY <1>5, <1>6, FS_Union, Zenon
<1>8. Cardinality(Cents(S, amt) \cap C) = 0
  BY <1>3, FS_EmptySet
<1>9. amt[i] \in Nat
  BY <1>1, NumberAssumption
<1>10. Cardinality(Cents(S, amt) \cup C) = Cardinality(Cents(S, amt)) + amt[i]
  <2> DEFINE n == Cardinality(Cents(S, amt))
             m == Cardinality(Cents(S, amt) \cup C)
  <2>1. m = n + Cardinality(C) - 0
    BY <1>7, <1>8, Zenon
  <2>2. m = n + amt[i] - 0
    BY <1>5, <2>1, Zenon
  <2>3. n \in Nat
    BY <1>6
  <2> HIDE DEF n, m
  <2>4. m = n + amt[i]
    BY <1>9, <2>2, <2>3
  <2> QED
    BY <2>4 DEF n, m
<1> QED
  BY <1>2, <1>10, Zenon

\* One reservation fewer takes its amount from a sum.
LEMMA CentsRemove ==
  ASSUME NEW S \in SUBSET Ids, NEW i \in S, NEW amt \in AmountsOf
  PROVE  /\ amt[i] <= Cardinality(Cents(S, amt))
         /\ Cardinality(Cents(S \ {i}, amt)) = Cardinality(Cents(S, amt)) - amt[i]
<1>1. (S \ {i}) \cup {i} = S /\ S \ {i} \in SUBSET Ids /\ i \in Ids \ (S \ {i})
  OBVIOUS
<1>2. Cardinality(Cents(S, amt)) = Cardinality(Cents(S \ {i}, amt)) + amt[i]
  BY <1>1, CentsAdd
<1>3. Cardinality(Cents(S \ {i}, amt)) \in Nat /\ Cardinality(Cents(S, amt)) \in Nat
  BY CentsFinite
<1>4. amt[i] \in Nat
  BY NumberAssumption DEF AmountsOf
<1> QED
  BY <1>2, <1>3, <1>4

-----------------------------------------------------------------------------
(* The inductive invariant                                                 *)

\* What the two ledgers and the wallet say of one reservation.
LifeInv ==
  \A i \in Ids :
    /\ lim[i] = "unused" => pac[i] = "none" /\ debitedOn[i] = -1 /\ holder[i] = "none"
    /\ lim[i] # "unused" => pactOf[i] \in Pacts /\ pactStatus[pactOf[i]] # "proposed"
    /\ holder[i] = "order" => flow[i] = "order"
    /\ holder[i] = "client" => flow[i] = "pay"
    /\ holder[i] \in {"order", "client"} /\ lim[i] = "held" => pac[i] = "held"

\* What the rest of a handler relies on.
StepInv ==
  at # "idle" =>
    /\ job \in Ids
    /\ at \in {"reservePact", "undoLimits"} => lim[job] = "held" /\ pac[job] = "none"
    /\ at \in {"debit", "commitPact"} => lim[job] = "committed" /\ pac[job] = "held"
    /\ at = "debit" => flow[job] = "pay" /\ balance >= amount[job]
    /\ at = "commitPact" /\ flow[job] = "pay" => debitedOn[job] >= 0
    /\ at = "releasePact" => lim[job] = "released" /\ pac[job] = "held"

\* The windows are those of the last reservation.
ClockInv ==
  /\ dayKey <= today
  /\ weekKey = WeekOf[dayKey]
  /\ \A i \in Ids : lim[i] # "unused" => madeOn[i] <= dayKey

\* Until a crash, the ledgers agree on every reservation but the one the
\* running handler is working on.
AgreeInv ==
  crashes = 0 =>
    \A i \in Ids :
      at = "idle" \/ job # i =>
        /\ lim[i] = "held" <=> pac[i] = "held"
        /\ lim[i] = "committed" <=> pac[i] = "spent"

ShapeInv == TypeOK /\ LifeInv /\ StepInv /\ ClockInv /\ NothingSpentUncounted
LimitsInv == UsageExact /\ CapsHold
PactInv == PactBudgetHolds /\ BudgetClosesPact
IInv == ShapeInv /\ AgreeInv /\ LimitsInv /\ PactInv

\* The shape of the stores and of the running handler holds initially.
LEMMA InitShape == Init => ShapeInv /\ AgreeInv
<1> SUFFICES ASSUME Init PROVE ShapeInv /\ AgreeInv
  OBVIOUS
<1>1. TypeOK
  <2>1. WorldType
    <3>1. today \in 0..MaxDay /\ crashes \in 0..MaxCrashes
      BY NumberAssumption DEF Init
    <3> QED
      BY <3>1 DEF Init, WorldType
  <2>5. WalletType
    BY NumberAssumption DEF Init, WalletType
  <2>2. LimitsType
    BY NumberAssumption, WeekAssumption DEF Init, LimitsType
  <2>3. PactsType /\ HandlerType
    BY DEF Init, PactsType, HandlerType
  <2>4. TermsType
    BY NumberAssumption DEF Init, TermsType, Flows
  <2> QED
    BY <2>1, <2>2, <2>3, <2>4, <2>5 DEF TypeOK
<1>2. LifeInv /\ NothingSpentUncounted /\ AgreeInv
  BY DEF Init, LifeInv, NothingSpentUncounted, AgreeInv
<1>3. StepInv /\ ClockInv
  BY DEF Init, StepInv, ClockInv
<1> QED
  BY <1>1, <1>2, <1>3 DEF ShapeInv

\* The running totals start at zero, which is what they are sums of.
LEMMA InitSums == Init => LimitsInv /\ PactInv
<1> SUFFICES ASSUME Init PROVE LimitsInv /\ PactInv
  OBVIOUS
<1>1. \A d : Total(GrantedOn(d)) = 0 /\ Total(GrantedInWeek(d)) = 0
  <2>1. \A d : GrantedOn(d) = {} /\ GrantedInWeek(d) = {}
    BY DEF Init, GrantedOn, GrantedInWeek, Counted
  <2> QED
    BY <2>1, CentsNone DEF Total
<1>2. \A p \in Pacts : Total(Outstanding(p)) = 0 /\ Total(SpentUnder(p)) = 0
  <2>1. \A p \in Pacts : Outstanding(p) = {} /\ SpentUnder(p) = {}
    BY DEF Init, Outstanding, SpentUnder
  <2> QED
    BY <2>1, CentsNone DEF Total
<1>3. LimitsInv
  BY <1>1, NumberAssumption DEF Init, LimitsInv, UsageExact, CapsHold
<1>4. PactInv
  BY <1>2, PactAssumption DEF Init, PactInv, PactBudgetHolds, BudgetClosesPact
<1> QED
  BY <1>3, <1>4

-----------------------------------------------------------------------------
(* The shape of the stores                                                 *)

\* Sweeping a Pact keeps the statuses statuses.
LEMMA SweepType ==
  ASSUME PactsType, NEW p, NEW n, Sweep(p, n)
  PROVE  pactStatus' \in [Pacts -> {"proposed", "active", "rejected", "expired", "terminated"}]
BY DEF PactsType, Sweep, Swept

\* Every step keeps the types.
LEMMA NextTypeOK == ShapeInv /\ [Next]_vars => TypeOK'
<1> SUFFICES ASSUME TypeOK, LifeInv, [Next]_vars PROVE TypeOK'
  BY DEF ShapeInv
<1> USE NumberAssumption
<1>1. UNCHANGED <<today, frozen, crashes>> => WorldType'
  BY DEF TypeOK, WorldType
<1>2. UNCHANGED walletStore => WalletType'
  BY DEF TypeOK, WalletType, walletStore
<1>3. UNCHANGED limitStore => LimitsType'
  BY DEF TypeOK, LimitsType, limitStore
<1>4. UNCHANGED pactStore => PactsType'
  BY DEF TypeOK, PactsType, pactStore
<1>5. UNCHANGED terms => TermsType'
  BY DEF TypeOK, TermsType, terms
<1>6. UNCHANGED <<holder, handler>> => HandlerType'
  BY DEF TypeOK, HandlerType, handler
<1>7. ASSUME NEW i \in Ids, NEW p \in Pacts, NEW a \in Amounts, NEW f \in Flows,
             ReserveLimits(i, p, a, f)
      PROVE TypeOK'
  <2>1. LimitsType'
    BY <1>7, WeekAssumption
       DEF ReserveLimits, TypeOK, WorldType, LimitsType, DayUsedNow, WeekUsedNow, Amounts
  <2>2. TermsType'
    BY <1>7 DEF ReserveLimits, TypeOK, WorldType, TermsType, Amounts
  <2>3. HandlerType'
    BY <1>7 DEF ReserveLimits, TypeOK, HandlerType, Goto, Stages
  <2> QED
    BY <1>1, <1>2, <1>4, <1>7, <2>1, <2>2, <2>3 DEF ReserveLimits, TypeOK
<1>8. ASSUME NEW i \in Ids, ReservePact(i) PROVE TypeOK'
  <2>1. PactsType'
    BY <1>8, SweepType DEF ReservePact, TypeOK, PactsType
  <2>2. HandlerType'
    BY <1>8 DEF ReservePact, TypeOK, HandlerType, Goto, Done, Stages
  <2> QED
    BY <1>1, <1>2, <1>3, <1>5, <1>8, <2>1, <2>2 DEF ReservePact, TypeOK
<1>9. ASSUME NEW i \in Ids, Refund(i) PROVE LimitsType'
  <2>1. amount[i] \in Nat
    BY DEF TypeOK, TermsType
  <2> QED
    BY <1>9, <2>1 DEF Refund, TypeOK, LimitsType
<1>10. ASSUME NEW i \in Ids, UndoLimits(i) PROVE TypeOK'
  <2>1. HandlerType'
    BY <1>10 DEF UndoLimits, TypeOK, HandlerType, Done
  <2> QED
    BY <1>1, <1>2, <1>4, <1>5, <1>9, <1>10, <2>1 DEF UndoLimits, TypeOK
<1>11. ASSUME NEW i \in Ids, ReleaseLimits(i) PROVE TypeOK'
  <2>1. HandlerType'
    BY <1>11 DEF ReleaseLimits, TypeOK, HandlerType, Goto, Stages
  <2> QED
    BY <1>1, <1>2, <1>4, <1>5, <1>9, <1>11, <2>1 DEF ReleaseLimits, TypeOK
<1>12. ASSUME NEW i \in Ids, CommitLimits(i) PROVE TypeOK'
  <2>1. LimitsType'
    BY <1>12 DEF CommitLimits, TypeOK, LimitsType
  <2>2. HandlerType'
    BY <1>12 DEF CommitLimits, TypeOK, HandlerType, Goto, Stages
  <2> QED
    BY <1>1, <1>2, <1>4, <1>5, <1>12, <2>1, <2>2 DEF CommitLimits, TypeOK
<1>13. ASSUME NEW i \in Ids, Debit(i) PROVE TypeOK'
  <2>1. WalletType'
    BY <1>13 DEF Debit, TypeOK, WorldType, WalletType, TermsType
  <2>2. HandlerType'
    BY <1>13 DEF Debit, TypeOK, HandlerType, Goto, Stages
  <2> QED
    BY <1>1, <1>3, <1>4, <1>5, <1>13, <2>1, <2>2 DEF Debit, TypeOK
<1>14. ASSUME NEW i \in Ids, CommitPact(i) PROVE TypeOK'
  <2>1. amount[i] \in Nat
    BY DEF TypeOK, TermsType
  <2>2. PactsType'
    <3>1. pactOf[i] \in Pacts
      BY <1>14 DEF CommitPact, LifeInv
    <3>2. spent' \in [Pacts -> Nat]
      BY <1>14, <2>1, <3>1 DEF CommitPact, TypeOK, PactsType
    <3>3. pactStatus' \in [Pacts -> {"proposed", "active", "rejected", "expired", "terminated"}]
      BY <1>14, SweepType DEF CommitPact, TypeOK
    <3>4. pac' \in [Ids -> {"none", "held", "spent", "released"}]
      BY <1>14 DEF CommitPact, TypeOK, PactsType
    <3> QED
      BY <3>2, <3>3, <3>4 DEF PactsType
  <2>3. HandlerType'
    BY <1>14 DEF CommitPact, TypeOK, HandlerType, Done
  <2> QED
    BY <1>1, <1>2, <1>3, <1>5, <1>14, <2>2, <2>3 DEF CommitPact, TypeOK
<1>15. ASSUME NEW i \in Ids, ReleasePact(i) PROVE TypeOK'
  <2>1. PactsType'
    BY <1>15, SweepType DEF ReleasePact, TypeOK, PactsType
  <2>2. HandlerType'
    BY <1>15 DEF ReleasePact, TypeOK, HandlerType, Done
  <2> QED
    BY <1>1, <1>2, <1>3, <1>5, <1>15, <2>1, <2>2 DEF ReleasePact, TypeOK
<1>16. ASSUME NEW p \in Pacts, Owner(p) PROVE TypeOK'
  <2>1. PactsType'
    BY <1>16, SweepType
       DEF Owner, ApprovePact, RejectPact, TerminatePact, ExpirePact, Decide, TypeOK, PactsType
  <2> QED
    BY <1>1, <1>2, <1>3, <1>5, <1>6, <1>16, <2>1
       DEF Owner, ApprovePact, RejectPact, TerminatePact, ExpirePact, Decide, TypeOK
<1>17. ASSUME NEW a \in Amounts, Fund(a) PROVE TypeOK'
  <2>1. WalletType'
    BY <1>17 DEF Fund, TypeOK, WalletType, Amounts
  <2> QED
    BY <1>1, <1>3, <1>4, <1>5, <1>6, <1>17, <2>1 DEF Fund, TypeOK
<1>18. CASE SetFrozen \/ NextDay
  <2>1. today' \in 0..MaxDay
    BY <1>18 DEF SetFrozen, NextDay, TypeOK, WorldType
  <2>2. frozen' \in BOOLEAN
    BY <1>18, Zenon DEF SetFrozen, NextDay, TypeOK, WorldType
  <2>3. WorldType'
    BY <1>18, <2>1, <2>2 DEF SetFrozen, NextDay, TypeOK, WorldType
  <2> QED
    BY <1>2, <1>3, <1>4, <1>5, <1>6, <1>18, <2>3 DEF SetFrozen, NextDay, TypeOK
<1>19. CASE SetWalletStatus
  <2>1. WalletType'
    BY <1>19 DEF SetWalletStatus, TypeOK, WalletType
  <2> QED
    BY <1>1, <1>3, <1>4, <1>5, <1>6, <1>19, <2>1 DEF SetWalletStatus, TypeOK
<1>20. CASE Crash
  <2>1. WorldType' /\ HandlerType'
    BY <1>20 DEF Crash, Done, TypeOK, WorldType, HandlerType
  <2> QED
    BY <1>2, <1>3, <1>4, <1>5, <1>20, <2>1 DEF Crash, TypeOK
<1>21. CASE UNCHANGED vars
  BY <1>1, <1>2, <1>3, <1>4, <1>5, <1>6, <1>21 DEF vars, TypeOK
<1> QED
  BY <1>7, <1>8, <1>10, <1>11, <1>12, <1>13, <1>14, <1>15, <1>16, <1>17, <1>18, <1>19,
     <1>20, <1>21
     DEF Next, Handler

\* Every step keeps the rest of the shape.
LEMMA NextShape ==
  ShapeInv /\ [Next]_vars => LifeInv' /\ StepInv' /\ ClockInv' /\ NothingSpentUncounted'
<1> SUFFICES ASSUME ShapeInv, [Next]_vars
             PROVE LifeInv' /\ StepInv' /\ ClockInv' /\ NothingSpentUncounted'
  OBVIOUS
<1> DEFINE Goal == LifeInv' /\ StepInv' /\ ClockInv' /\ NothingSpentUncounted'
<1>0. /\ lim \in [Ids -> {"unused", "held", "committed", "released"}]
      /\ pac \in [Ids -> {"none", "held", "spent", "released"}]
      /\ holder \in [Ids -> {"none", "server", "order", "client", "lost"}]
      /\ flow \in [Ids -> Flows] /\ pactOf \in [Ids -> Pacts \cup {NoPact}]
      /\ debitedOn \in [Ids -> -1..MaxDay] /\ today \in Nat
      /\ amount \in [Ids -> 0..MaxAmount] /\ madeOn \in [Ids -> 0..MaxDay]
      /\ balance \in Nat /\ dayKey \in Nat
      /\ pactStatus \in [Pacts -> {"proposed", "active", "rejected", "expired", "terminated"}]
  BY NumberAssumption DEF ShapeInv, TypeOK, WorldType, WalletType, LimitsType, PactsType,
                          TermsType, HandlerType
<1>00. LifeInv /\ StepInv /\ ClockInv /\ NothingSpentUncounted
  BY DEF ShapeInv
<1> USE DEF At, Goto, Done, Free
<1>1. ASSUME NEW i \in Ids, NEW p \in Pacts, NEW a \in Amounts, NEW f \in Flows, ReserveLimits(i, p, a, f) PROVE Goal
  <2>1. LifeInv'
    BY <1>0, <1>00, <1>1 DEF ReserveLimits, PactAllows, Swept, limitStore, pactStore, walletStore, terms, handler, LifeInv
  <2>2. StepInv'
    BY <1>0, <1>00, <1>1 DEF ReserveLimits, PactAllows, Swept, limitStore, pactStore, walletStore, terms, handler, StepInv, LifeInv
  <2>3. ClockInv'
    BY <1>0, <1>00, <1>1 DEF ReserveLimits, PactAllows, Swept, limitStore, pactStore, walletStore, terms, handler, ClockInv
  <2>4. NothingSpentUncounted'
    BY <1>0, <1>00, <1>1 DEF ReserveLimits, PactAllows, Swept, limitStore, pactStore, walletStore, terms, handler, NothingSpentUncounted
  <2> QED
    BY <2>1, <2>2, <2>3, <2>4
<1>2. ASSUME NEW i \in Ids, ReservePact(i) PROVE Goal
  <2>1. LifeInv'
    <3>1. /\ UNCHANGED <<lim, debitedOn, flow, pactOf>>
          /\ \A p \in Pacts : pactStatus'[p] = "proposed" => pactStatus[p] = "proposed"
      BY <1>0, <1>2 DEF ReservePact, Sweep, Swept, limitStore, walletStore, terms
    <3>2. lim[i] = "held"
      BY <1>00, <1>2 DEF ReservePact, StepInv
    <3>3. CASE PactAllows(pactOf[i], amount[i])
      BY <1>0, <1>00, <1>2, <3>1, <3>2, <3>3 DEF ReservePact, LifeInv, Flows
    <3>4. CASE ~PactAllows(pactOf[i], amount[i])
      BY <1>0, <1>00, <1>2, <3>1, <3>4 DEF ReservePact, LifeInv
    <3> QED
      BY <3>3, <3>4
  <2>2. StepInv'
    BY <1>0, <1>00, <1>2 DEF ReservePact, Sweep, Swept, limitStore, pactStore, walletStore, terms, handler, StepInv, LifeInv
  <2>3. ClockInv'
    BY <1>0, <1>00, <1>2 DEF ReservePact, Sweep, Swept, limitStore, pactStore, walletStore, terms, handler, ClockInv
  <2>4. NothingSpentUncounted'
    BY <1>0, <1>00, <1>2 DEF ReservePact, Sweep, Swept, limitStore, pactStore, walletStore, terms, handler, NothingSpentUncounted
  <2> QED
    BY <2>1, <2>2, <2>3, <2>4
<1>3. ASSUME NEW i \in Ids, UndoLimits(i) PROVE Goal
  <2>1. LifeInv'
    BY <1>0, <1>00, <1>3 DEF UndoLimits, Refund, limitStore, pactStore, walletStore, terms, handler, LifeInv
  <2>2. StepInv'
    BY <1>0, <1>00, <1>3 DEF UndoLimits, Refund, limitStore, pactStore, walletStore, terms, handler, StepInv, LifeInv
  <2>3. ClockInv'
    BY <1>0, <1>00, <1>3 DEF UndoLimits, Refund, limitStore, pactStore, walletStore, terms, handler, ClockInv
  <2>4. NothingSpentUncounted'
    BY <1>0, <1>00, <1>3 DEF UndoLimits, Refund, limitStore, pactStore, walletStore, terms, handler, NothingSpentUncounted
  <2> QED
    BY <2>1, <2>2, <2>3, <2>4
<1>4. ASSUME NEW i \in Ids, CommitLimits(i) PROVE Goal
  <2>1. LifeInv'
    BY <1>0, <1>00, <1>4 DEF CommitLimits, limitStore, pactStore, walletStore, terms, handler, LifeInv
  <2>2. StepInv'
    BY <1>0, <1>00, <1>4 DEF CommitLimits, limitStore, pactStore, walletStore, terms, handler, StepInv, LifeInv
  <2>3. ClockInv'
    BY <1>0, <1>00, <1>4 DEF CommitLimits, limitStore, pactStore, walletStore, terms, handler, ClockInv
  <2>4. NothingSpentUncounted'
    BY <1>0, <1>00, <1>4 DEF CommitLimits, limitStore, pactStore, walletStore, terms, handler, NothingSpentUncounted
  <2> QED
    BY <2>1, <2>2, <2>3, <2>4
<1>5. ASSUME NEW i \in Ids, Debit(i) PROVE Goal
  <2>1. LifeInv'
    BY <1>0, <1>00, <1>5 DEF Debit, limitStore, pactStore, terms, StepInv, LifeInv
  <2>2. StepInv'
    BY <1>0, <1>00, <1>5 DEF Debit, limitStore, pactStore, walletStore, terms, handler, StepInv, LifeInv
  <2>3. ClockInv'
    BY <1>0, <1>00, <1>5 DEF Debit, limitStore, pactStore, walletStore, terms, handler, ClockInv
  <2>4. NothingSpentUncounted'
    BY <1>0, <1>00, <1>5 DEF Debit, limitStore, pactStore, terms, StepInv, NothingSpentUncounted
  <2> QED
    BY <2>1, <2>2, <2>3, <2>4
<1>6. ASSUME NEW i \in Ids, CommitPact(i) PROVE Goal
  <2>1. LifeInv'
    BY <1>0, <1>00, <1>6 DEF CommitPact, Sweep, Swept, limitStore, pactStore, walletStore, terms, handler, LifeInv
  <2>2. StepInv'
    BY <1>0, <1>00, <1>6 DEF CommitPact, Sweep, Swept, limitStore, pactStore, walletStore, terms, handler, StepInv, LifeInv
  <2>3. ClockInv'
    BY <1>0, <1>00, <1>6 DEF CommitPact, Sweep, Swept, limitStore, pactStore, walletStore, terms, handler, ClockInv
  <2>4. NothingSpentUncounted'
    BY <1>0, <1>00, <1>6 DEF CommitPact, limitStore, walletStore, terms, StepInv, NothingSpentUncounted
  <2> QED
    BY <2>1, <2>2, <2>3, <2>4
<1>7. ASSUME NEW i \in Ids, ReleaseLimits(i) PROVE Goal
  <2>1. LifeInv'
    BY <1>0, <1>00, <1>7 DEF ReleaseLimits, Refund, limitStore, pactStore, walletStore, terms, handler, LifeInv
  <2>2. StepInv'
    BY <1>0, <1>00, <1>7 DEF ReleaseLimits, Refund, limitStore, pactStore, walletStore, terms, handler, StepInv, LifeInv
  <2>3. ClockInv'
    BY <1>0, <1>00, <1>7 DEF ReleaseLimits, Refund, limitStore, pactStore, walletStore, terms, handler, ClockInv
  <2>4. NothingSpentUncounted'
    BY <1>0, <1>00, <1>7 DEF ReleaseLimits, Refund, limitStore, pactStore, walletStore, terms, handler, NothingSpentUncounted
  <2> QED
    BY <2>1, <2>2, <2>3, <2>4
<1>8. ASSUME NEW i \in Ids, ReleasePact(i) PROVE Goal
  <2>1. LifeInv'
    BY <1>0, <1>00, <1>8 DEF ReleasePact, Sweep, Swept, limitStore, pactStore, walletStore, terms, handler, LifeInv
  <2>2. StepInv'
    BY <1>0, <1>00, <1>8 DEF ReleasePact, Sweep, Swept, limitStore, pactStore, walletStore, terms, handler, StepInv, LifeInv
  <2>3. ClockInv'
    BY <1>0, <1>00, <1>8 DEF ReleasePact, Sweep, Swept, limitStore, pactStore, walletStore, terms, handler, ClockInv
  <2>4. NothingSpentUncounted'
    BY <1>0, <1>00, <1>8 DEF ReleasePact, Sweep, Swept, limitStore, pactStore, walletStore, terms, handler, NothingSpentUncounted
  <2> QED
    BY <2>1, <2>2, <2>3, <2>4
<1>9. ASSUME NEW p \in Pacts, Owner(p) PROVE Goal
  <2>1. LifeInv'
    BY <1>0, <1>00, <1>9 DEF Owner, ApprovePact, RejectPact, TerminatePact, ExpirePact, Decide, Sweep, Swept, limitStore, pactStore, walletStore, terms, handler, LifeInv
  <2>2. StepInv'
    BY <1>0, <1>00, <1>9 DEF Owner, ApprovePact, RejectPact, TerminatePact, ExpirePact, Decide, Sweep, Swept, limitStore, pactStore, walletStore, terms, handler, StepInv, LifeInv
  <2>3. ClockInv'
    BY <1>0, <1>00, <1>9 DEF Owner, ApprovePact, RejectPact, TerminatePact, ExpirePact, Decide, Sweep, Swept, limitStore, pactStore, walletStore, terms, handler, ClockInv
  <2>4. NothingSpentUncounted'
    BY <1>0, <1>00, <1>9 DEF Owner, ApprovePact, RejectPact, TerminatePact, ExpirePact, Decide, Sweep, Swept, limitStore, pactStore, walletStore, terms, handler, NothingSpentUncounted
  <2> QED
    BY <2>1, <2>2, <2>3, <2>4
<1>10. ASSUME NEW a \in Amounts, Fund(a) PROVE Goal
  <2>1. LifeInv'
    BY <1>0, <1>00, <1>10 DEF Fund, Amounts, limitStore, pactStore, walletStore, terms, handler, LifeInv
  <2>2. StepInv'
    BY <1>0, <1>00, <1>10 DEF Fund, Amounts, limitStore, pactStore, walletStore, terms, handler, StepInv, LifeInv
  <2>3. ClockInv'
    BY <1>0, <1>00, <1>10 DEF Fund, Amounts, limitStore, pactStore, walletStore, terms, handler, ClockInv
  <2>4. NothingSpentUncounted'
    BY <1>0, <1>00, <1>10 DEF Fund, Amounts, limitStore, pactStore, walletStore, terms, handler, NothingSpentUncounted
  <2> QED
    BY <2>1, <2>2, <2>3, <2>4
<1>11. CASE SetFrozen \/ SetWalletStatus \/ NextDay
  <2>1. LifeInv'
    BY <1>0, <1>00, <1>11 DEF SetFrozen, SetWalletStatus, NextDay, limitStore, pactStore, walletStore, terms, handler, LifeInv
  <2>2. StepInv'
    BY <1>0, <1>00, <1>11 DEF SetFrozen, SetWalletStatus, NextDay, limitStore, pactStore, walletStore, terms, handler, StepInv, LifeInv
  <2>3. ClockInv'
    BY <1>0, <1>00, <1>11 DEF SetFrozen, SetWalletStatus, NextDay, limitStore, pactStore, walletStore, terms, handler, ClockInv
  <2>4. NothingSpentUncounted'
    BY <1>0, <1>00, <1>11 DEF SetFrozen, SetWalletStatus, NextDay, limitStore, pactStore, walletStore, terms, handler, NothingSpentUncounted
  <2> QED
    BY <2>1, <2>2, <2>3, <2>4
<1>12. CASE Crash
  <2>1. LifeInv'
    BY <1>0, <1>00, <1>12 DEF Crash, limitStore, pactStore, walletStore, terms, handler, LifeInv
  <2>2. StepInv'
    BY <1>0, <1>00, <1>12 DEF Crash, limitStore, pactStore, walletStore, terms, handler, StepInv, LifeInv
  <2>3. ClockInv'
    BY <1>0, <1>00, <1>12 DEF Crash, limitStore, pactStore, walletStore, terms, handler, ClockInv
  <2>4. NothingSpentUncounted'
    BY <1>0, <1>00, <1>12 DEF Crash, limitStore, pactStore, walletStore, terms, handler, NothingSpentUncounted
  <2> QED
    BY <2>1, <2>2, <2>3, <2>4
<1>13. CASE UNCHANGED vars
  <2>1. LifeInv'
    BY <1>0, <1>00, <1>13 DEF vars, limitStore, pactStore, walletStore, terms, handler, LifeInv
  <2>2. StepInv'
    BY <1>0, <1>00, <1>13 DEF vars, limitStore, pactStore, walletStore, terms, handler, StepInv, LifeInv
  <2>3. ClockInv'
    BY <1>0, <1>00, <1>13 DEF vars, limitStore, pactStore, walletStore, terms, handler, ClockInv
  <2>4. NothingSpentUncounted'
    BY <1>0, <1>00, <1>13 DEF vars, limitStore, pactStore, walletStore, terms, handler, NothingSpentUncounted
  <2> QED
    BY <2>1, <2>2, <2>3, <2>4
<1> QED
  BY <1>1, <1>2, <1>3, <1>4, <1>5, <1>6, <1>7, <1>8, <1>9, <1>10, <1>11, <1>12, <1>13
     DEF Next, Handler

\* Until a crash, the ledgers keep agreeing.
LEMMA NextAgree == ShapeInv /\ AgreeInv /\ [Next]_vars => AgreeInv'
<1> SUFFICES ASSUME ShapeInv, AgreeInv, [Next]_vars, crashes' = 0, NEW j \in Ids,
                    at' = "idle" \/ job' # j
             PROVE  /\ lim'[j] = "held" <=> pac'[j] = "held"
                    /\ lim'[j] = "committed" <=> pac'[j] = "spent"
  BY DEF AgreeInv
<1> DEFINE Goal == /\ lim'[j] = "held" <=> pac'[j] = "held"
                   /\ lim'[j] = "committed" <=> pac'[j] = "spent"
<1>0. /\ lim \in [Ids -> {"unused", "held", "committed", "released"}]
      /\ pac \in [Ids -> {"none", "held", "spent", "released"}]
      /\ crashes \in Nat /\ MaxCrashes \in Nat
  BY NumberAssumption DEF ShapeInv, TypeOK, WorldType, LimitsType, PactsType
<1>1. ASSUME crashes = 0, at = "idle" \/ job # j, UNCHANGED <<lim, pac>> PROVE Goal
  BY <1>1 DEF AgreeInv
<1>2. ASSUME NEW i \in Ids, NEW p \in Pacts, NEW a \in Amounts, NEW f \in Flows,
             ReserveLimits(i, p, a, f)
      PROVE Goal
  BY <1>0, <1>2 DEF ReserveLimits, AgreeInv, Free, Goto, pactStore
<1>3. ASSUME NEW i \in Ids, ReservePact(i) \/ UndoLimits(i) PROVE Goal
  BY <1>0, <1>3 DEF ReservePact, UndoLimits, Refund, AgreeInv, ShapeInv, StepInv, At, Goto, Done,
                    limitStore, pactStore
<1>4. ASSUME NEW i \in Ids, CommitLimits(i) \/ Debit(i) \/ CommitPact(i) PROVE Goal
  BY <1>0, <1>4 DEF CommitLimits, Debit, CommitPact, AgreeInv, ShapeInv, StepInv, At, Goto, Done,
                    Free, limitStore, pactStore
<1>5. ASSUME NEW i \in Ids, ReleaseLimits(i) \/ ReleasePact(i) PROVE Goal
  BY <1>0, <1>5 DEF ReleaseLimits, Refund, ReleasePact, AgreeInv, ShapeInv, StepInv, At, Goto,
                    Done, Free, limitStore, pactStore
<1>6. CASE (\E p \in Pacts : Owner(p)) \/ (\E a \in Amounts : Fund(a)) \/ SetFrozen
             \/ SetWalletStatus \/ NextDay \/ UNCHANGED vars
  BY <1>1, <1>6 DEF Owner, ApprovePact, RejectPact, TerminatePact, ExpirePact, Decide, Fund,
                    SetFrozen, SetWalletStatus, NextDay, vars, handler, limitStore, pactStore
<1>7. CASE Crash
  BY <1>0, <1>7 DEF Crash
<1> QED
  BY <1>2, <1>3, <1>4, <1>5, <1>6, <1>7 DEF Next, Handler

-----------------------------------------------------------------------------
(* The windows                                                             *)

\* Nothing changes for the windows as long as the same reservations count.
LEMMA LimitsKept ==
  ASSUME LimitsInv, UNCHANGED <<dayKey, dayUsed, weekKey, weekUsed, amount, madeOn>>,
         Counted' = Counted
  PROVE  LimitsInv'
<1>1. \A d : GrantedOn(d)' = GrantedOn(d) /\ GrantedInWeek(d)' = GrantedInWeek(d)
  BY DEF GrantedOn, GrantedInWeek
<1>2. \A d : Total(GrantedOn(d))' = Total(GrantedOn(d))
             /\ Total(GrantedInWeek(d))' = Total(GrantedInWeek(d))
  BY <1>1 DEF Total
<1> QED
  BY <1>2 DEF LimitsInv, UsageExact, CapsHold

\* A refund takes a reservation out of the sums and its amount out of the
\* windows that still count it.
LEMMA RefundKeepsLimits ==
  ASSUME ShapeInv, LimitsInv, NEW i \in Ids, Refund(i), UNCHANGED <<amount, madeOn>>
  PROVE  LimitsInv'
<1>1. /\ amount \in AmountsOf /\ amount[i] \in Nat /\ dayUsed \in Nat /\ weekUsed \in Nat
      /\ lim \in [Ids -> {"unused", "held", "committed", "released"}]
  BY NumberAssumption DEF ShapeInv, TypeOK, TermsType, LimitsType, AmountsOf
<1>2. i \in Counted /\ Counted' = Counted \ {i}
  BY <1>1 DEF Refund, Counted
<1>3. \A d : GrantedOn(d)' = GrantedOn(d) \ {i} /\ GrantedInWeek(d)' = GrantedInWeek(d) \ {i}
  BY <1>2 DEF GrantedOn, GrantedInWeek
<1>4. ASSUME NEW S \in SUBSET Ids
      PROVE  /\ Total(S) \in Nat
             /\ i \in S => amount[i] <= Total(S) /\ Total(S \ {i}) = Total(S) - amount[i]
             /\ i \notin S => Total(S \ {i}) = Total(S)
             /\ Total(S \ {i}) <= Total(S)
             /\ Total(S \ {i}) \in Nat
  <2>1. Total(S) \in Nat /\ Total(S \ {i}) \in Nat
    BY CentsFinite DEF Total
  <2>2. i \in S => amount[i] <= Total(S) /\ Total(S \ {i}) = Total(S) - amount[i]
    BY <1>1, CentsRemove DEF Total
  <2>3. i \notin S => S \ {i} = S
    OBVIOUS
  <2>4. Total(S \ {i}) <= Total(S)
    BY CentsMonotone DEF Total
  <2> QED
    BY <2>1, <2>2, <2>3, <2>4
<1>5. \A d : Total(GrantedOn(d))' = Total(GrantedOn(d) \ {i})
            /\ Total(GrantedInWeek(d))' = Total(GrantedInWeek(d) \ {i})
  BY <1>3 DEF Total
<1>6. \A d : GrantedOn(d) \in SUBSET Ids /\ GrantedInWeek(d) \in SUBSET Ids
  BY DEF GrantedOn, GrantedInWeek, Counted
<1>7. dayUsed' = Total(GrantedOn(dayKey))'
  <2>1. CASE dayKey = madeOn[i]
    <3>1. i \in GrantedOn(dayKey)
      BY <1>2, <2>1 DEF GrantedOn
    <3>2. dayUsed >= amount[i] /\ Total(GrantedOn(dayKey) \ {i}) = dayUsed - amount[i]
      BY <1>1, <1>4, <1>6, <3>1 DEF LimitsInv, UsageExact
    <3>3. dayUsed' = dayUsed - amount[i]
      BY <1>1, <2>1, <3>2 DEF Refund
    <3> QED
      BY <1>5, <3>2, <3>3 DEF Refund
  <2>2. CASE dayKey # madeOn[i]
    <3>1. i \notin GrantedOn(dayKey)
      BY <2>2 DEF GrantedOn
    <3> QED
      BY <1>4, <1>5, <1>6, <2>2, <3>1 DEF Refund, LimitsInv, UsageExact
  <2> QED
    BY <2>1, <2>2
<1>8. weekUsed' = Total(GrantedInWeek(weekKey))'
  <2>1. CASE weekKey = WeekOf[madeOn[i]]
    <3>1. i \in GrantedInWeek(weekKey)
      BY <1>2, <2>1 DEF GrantedInWeek
    <3>2. weekUsed >= amount[i] /\ Total(GrantedInWeek(weekKey) \ {i}) = weekUsed - amount[i]
      BY <1>1, <1>4, <1>6, <3>1 DEF LimitsInv, UsageExact
    <3>3. weekUsed' = weekUsed - amount[i]
      BY <1>1, <2>1, <3>2 DEF Refund
    <3> QED
      BY <1>5, <3>2, <3>3 DEF Refund
  <2>2. CASE weekKey # WeekOf[madeOn[i]]
    <3>1. i \notin GrantedInWeek(weekKey)
      BY <2>2 DEF GrantedInWeek
    <3> QED
      BY <1>4, <1>5, <1>6, <2>2, <3>1 DEF Refund, LimitsInv, UsageExact
  <2> QED
    BY <2>1, <2>2
<1>9. CapsHold'
  <2> SUFFICES ASSUME NEW d \in 0..MaxDay
               PROVE /\ DailyCap > 0 => Total(GrantedOn(d))' <= DailyCap
                     /\ WeeklyCap > 0 => Total(GrantedInWeek(WeekOf[d]))' <= WeeklyCap
    BY DEF CapsHold
  <2>1. /\ DailyCap > 0 => Total(GrantedOn(d)) <= DailyCap
        /\ WeeklyCap > 0 => Total(GrantedInWeek(WeekOf[d])) <= WeeklyCap
    BY DEF LimitsInv, CapsHold
  <2>2. /\ Total(GrantedOn(d))' <= Total(GrantedOn(d))
        /\ Total(GrantedInWeek(WeekOf[d]))' <= Total(GrantedInWeek(WeekOf[d]))
    BY <1>4, <1>5, <1>6
  <2>3. Total(GrantedOn(d))' \in Nat /\ Total(GrantedOn(d)) \in Nat
    <3> DEFINE S == GrantedOn(d)
    <3>1. S \in SUBSET Ids
      BY <1>6
    <3>2. Total(S) \in Nat /\ Total(S \ {i}) \in Nat
      BY <1>4, <3>1
    <3> QED
      BY <1>5, <3>2
  <2>4. Total(GrantedInWeek(WeekOf[d]))' \in Nat /\ Total(GrantedInWeek(WeekOf[d])) \in Nat
    <3> DEFINE S == GrantedInWeek(WeekOf[d])
    <3>1. S \in SUBSET Ids
      BY <1>6
    <3>2. Total(S) \in Nat /\ Total(S \ {i}) \in Nat
      BY <1>4, <3>1
    <3> QED
      BY <1>5, <3>2
  <2> QED
    BY <2>1, <2>2, <2>3, <2>4, NumberAssumption
<1> QED
  BY <1>7, <1>8, <1>9 DEF LimitsInv, UsageExact

\* Before a reservation is recorded, the rolled windows read what was granted
\* today and this week: a stale window belongs to an earlier day or week, and
\* nothing was granted since.
LEMMA RolledUsage ==
  ASSUME ShapeInv, UsageExact
  PROVE  /\ DayUsedNow = Total(GrantedOn(today))
         /\ WeekUsedNow = Total(GrantedInWeek(WeekOf[today]))
<1>1. /\ today \in 0..MaxDay /\ dayKey \in 0..MaxDay /\ dayKey <= today
      /\ madeOn \in [Ids -> 0..MaxDay]
      /\ weekKey = WeekOf[dayKey]
      /\ \A i \in Counted : i \in Ids /\ madeOn[i] <= dayKey
  BY DEF ShapeInv, TypeOK, WorldType, LimitsType, TermsType, ClockInv, Counted
<1>2. CASE dayKey # today
  <2>1. GrantedOn(today) = {}
    BY <1>1, <1>2, NumberAssumption DEF GrantedOn
  <2> QED
    <3>1. DayUsedNow = Total(GrantedOn(today))
      BY <1>2, <2>1, CentsNone DEF DayUsedNow, Total
    <3>2. CASE weekKey = WeekOf[today]
      BY <3>1, <3>2 DEF WeekUsedNow, UsageExact
    <3>3. CASE weekKey # WeekOf[today]
      <4>1. \A i \in Counted : WeekOf[madeOn[i]] # WeekOf[today]
        <5> SUFFICES ASSUME NEW i \in Counted, WeekOf[madeOn[i]] = WeekOf[today] PROVE FALSE
          OBVIOUS
        <5>1. WeekOf[madeOn[i]] <= WeekOf[dayKey] /\ WeekOf[dayKey] <= WeekOf[today]
          BY <1>1, WeekAssumption
        <5>2. WeekOf[dayKey] \in Nat /\ WeekOf[today] \in Nat
          BY <1>1, WeekAssumption
        <5> QED
          BY <1>1, <3>3, <5>1, <5>2
      <4>2. GrantedInWeek(WeekOf[today]) = {}
        BY <4>1 DEF GrantedInWeek
      <4> QED
        BY <3>1, <3>3, <4>2, CentsNone DEF WeekUsedNow, Total
    <3> QED
      BY <3>1, <3>2, <3>3
<1>3. CASE dayKey = today
  BY <1>1, <1>3 DEF DayUsedNow, WeekUsedNow, UsageExact
<1> QED
  BY <1>2, <1>3

\* Recording a reservation adds it to the sums of today and of this week, and
\* limitsAllow made sure there was room in both.
LEMMA ReserveKeepsLimits ==
  ASSUME ShapeInv, LimitsInv, ShapeInv', NEW i \in Ids, NEW p \in Pacts, NEW a \in Amounts,
         NEW f \in Flows, ReserveLimits(i, p, a, f)
  PROVE  LimitsInv'
<1>1. /\ lim \in [Ids -> {"unused", "held", "committed", "released"}]
      /\ amount \in AmountsOf /\ amount' \in AmountsOf
      /\ madeOn \in [Ids -> 0..MaxDay]
      /\ today \in 0..MaxDay /\ a \in Nat
  BY NumberAssumption DEF ShapeInv, TypeOK, WorldType, LimitsType, TermsType, AmountsOf, Amounts
<1>2. /\ lim[i] = "unused"
      /\ lim' = [lim EXCEPT ![i] = "held"]
      /\ amount' = [amount EXCEPT ![i] = a]
      /\ madeOn' = [madeOn EXCEPT ![i] = today]
      /\ dayKey' = today /\ dayUsed' = DayUsedNow + a
      /\ weekKey' = WeekOf[today] /\ weekUsed' = WeekUsedNow + a
      /\ LimitsAllow(a)
  BY DEF ReserveLimits
<1>3. i \notin Counted /\ Counted' = Counted \cup {i} /\ Counted \subseteq Ids
  BY <1>1, <1>2 DEF Counted
<1>4. amount'[i] = a /\ madeOn'[i] = today
  BY <1>1, <1>2 DEF AmountsOf
<1>5. \A j \in Counted : amount'[j] = amount[j] /\ madeOn'[j] = madeOn[j]
  BY <1>1, <1>2, <1>3 DEF AmountsOf
<1>6. \A d : GrantedOn(d)' = IF d = today THEN GrantedOn(d) \cup {i} ELSE GrantedOn(d)
  BY <1>3, <1>4, <1>5 DEF GrantedOn
<1>7. \A k : GrantedInWeek(k)' = IF k = WeekOf[today] THEN GrantedInWeek(k) \cup {i}
                                ELSE GrantedInWeek(k)
  BY <1>3, <1>4, <1>5 DEF GrantedInWeek
<1>8. ASSUME NEW S \in SUBSET Counted
      PROVE  /\ Cardinality(Cents(S, amount')) = Total(S)
             /\ Cardinality(Cents(S \cup {i}, amount')) = Total(S) + a
             /\ Total(S) \in Nat
  <2>1. S \in SUBSET Ids /\ i \in Ids \ S
    BY <1>3
  <2>2. Cents(S, amount') = Cents(S, amount)
    BY <1>5, <2>1, CentsSame
  <2>3. Cardinality(Cents(S \cup {i}, amount')) = Cardinality(Cents(S, amount')) + amount'[i]
    BY <1>1, <2>1, CentsAdd
  <2>4. Total(S) \in Nat
    BY <2>1, CentsFinite DEF Total
  <2> QED
    BY <1>4, <2>2, <2>3, <2>4 DEF Total
<1>9. \A d : GrantedOn(d) \in SUBSET Counted /\ GrantedInWeek(d) \in SUBSET Counted
  BY DEF GrantedOn, GrantedInWeek
<1>10. \A d : Total(GrantedOn(d))' = IF d = today THEN Total(GrantedOn(d)) + a
                                    ELSE Total(GrantedOn(d))
  BY <1>6, <1>8, <1>9 DEF Total
<1>11. \A k : Total(GrantedInWeek(k))' = IF k = WeekOf[today] THEN Total(GrantedInWeek(k)) + a
                                        ELSE Total(GrantedInWeek(k))
  BY <1>7, <1>8, <1>9 DEF Total
<1>12. /\ DayUsedNow = Total(GrantedOn(today))
       /\ WeekUsedNow = Total(GrantedInWeek(WeekOf[today]))
  BY RolledUsage DEF LimitsInv
<1>13. UsageExact'
  BY <1>2, <1>10, <1>11, <1>12 DEF UsageExact
<1>14. CapsHold'
  <2> SUFFICES ASSUME NEW d \in 0..MaxDay
               PROVE /\ DailyCap > 0 => Total(GrantedOn(d))' <= DailyCap
                     /\ WeeklyCap > 0 => Total(GrantedInWeek(WeekOf[d]))' <= WeeklyCap
    BY DEF CapsHold
  <2>1. /\ DailyCap > 0 => Total(GrantedOn(d)) <= DailyCap
        /\ WeeklyCap > 0 => Total(GrantedInWeek(WeekOf[d])) <= WeeklyCap
    BY DEF LimitsInv, CapsHold
  <2>2. /\ DailyCap > 0 => Total(GrantedOn(today)) + a <= DailyCap
        /\ WeeklyCap > 0 => Total(GrantedInWeek(WeekOf[today])) + a <= WeeklyCap
    BY <1>2, <1>12 DEF LimitsAllow
  <2>3. DailyCap > 0 => Total(GrantedOn(d))' <= DailyCap
    BY <1>10, <2>1, <2>2
  <2>4. WeeklyCap > 0 => Total(GrantedInWeek(WeekOf[d]))' <= WeeklyCap
    BY <1>11, <2>1, <2>2
  <2> QED
    BY <2>3, <2>4
<1> QED
  BY <1>13, <1>14 DEF LimitsInv

\* Every step keeps the windows exact and within the caps.
LEMMA NextLimits == ShapeInv /\ ShapeInv' /\ LimitsInv /\ [Next]_vars => LimitsInv'
<1> SUFFICES ASSUME ShapeInv, ShapeInv', LimitsInv, [Next]_vars PROVE LimitsInv'
  OBVIOUS
<1>1. ASSUME NEW i \in Ids, NEW p \in Pacts, NEW a \in Amounts, NEW f \in Flows,
             ReserveLimits(i, p, a, f)
      PROVE LimitsInv'
  BY <1>1, ReserveKeepsLimits
<1>2. ASSUME NEW i \in Ids, UndoLimits(i) \/ ReleaseLimits(i) PROVE LimitsInv'
  BY <1>2, RefundKeepsLimits DEF UndoLimits, ReleaseLimits, terms
<1>3. ASSUME NEW i \in Ids, CommitLimits(i) PROVE LimitsInv'
  <2>1. Counted' = Counted
    BY <1>3 DEF CommitLimits, Counted, ShapeInv, TypeOK, LimitsType
  <2> QED
    BY <1>3, <2>1, LimitsKept DEF CommitLimits, terms
<1>4. ASSUME UNCHANGED <<limitStore, terms>> PROVE LimitsInv'
  BY <1>4, LimitsKept DEF limitStore, terms, Counted
<1>5. ASSUME NEW i \in Ids, ReservePact(i) \/ Debit(i) \/ CommitPact(i) \/ ReleasePact(i)
      PROVE LimitsInv'
  BY <1>4, <1>5 DEF ReservePact, Debit, CommitPact, ReleasePact
<1>6. CASE (\E p \in Pacts : Owner(p)) \/ (\E a \in Amounts : Fund(a)) \/ SetFrozen
             \/ SetWalletStatus \/ NextDay \/ Crash \/ UNCHANGED vars
  BY <1>4, <1>6 DEF Owner, ApprovePact, RejectPact, TerminatePact, ExpirePact, Decide, Fund,
                    SetFrozen, SetWalletStatus, NextDay, Crash, vars
<1> QED
  BY <1>1, <1>2, <1>3, <1>5, <1>6 DEF Next, Handler

-----------------------------------------------------------------------------
(* The Pacts                                                               *)

\* A Pact's sums look only at the reservations recorded for it.
LEMMA PactSums ==
  ASSUME NEW p \in Pacts,
         \A i \in Ids : pac[i] # "none" => pactOf'[i] = pactOf[i] /\ amount'[i] = amount[i],
         \A i \in Ids : pac[i] = "none" => pac'[i] \notin {"held", "spent"},
         \A i \in Ids : pactOf[i] = p /\ pac[i] # "none" => pac'[i] = pac[i]
  PROVE  /\ Total(Outstanding(p))' = Total(Outstanding(p))
         /\ Total(SpentUnder(p))' = Total(SpentUnder(p))
<1>1. Outstanding(p)' = Outstanding(p) /\ SpentUnder(p)' = SpentUnder(p)
  BY DEF Outstanding, SpentUnder
<1>2. /\ Cents(Outstanding(p), amount') = Cents(Outstanding(p), amount)
      /\ Cents(SpentUnder(p), amount') = Cents(SpentUnder(p), amount)
  <2>1. Outstanding(p) \in SUBSET Ids /\ SpentUnder(p) \in SUBSET Ids
    BY DEF Outstanding, SpentUnder
  <2>2. \A i \in Outstanding(p) \cup SpentUnder(p) : amount'[i] = amount[i]
    BY DEF Outstanding, SpentUnder
  <2> QED
    BY <2>1, <2>2, CentsSame
<1> QED
  BY <1>1, <1>2 DEF Total

\* A Pact's sums are numbers, and so is what it has spent.
LEMMA PactNumbers ==
  ASSUME ShapeInv, NEW p \in Pacts
  PROVE  /\ Total(Outstanding(p)) \in Nat /\ Total(SpentUnder(p)) \in Nat
         /\ spent[p] \in Nat /\ PactBudget[p] \in Nat
<1>1. Outstanding(p) \in SUBSET Ids /\ SpentUnder(p) \in SUBSET Ids
  BY DEF Outstanding, SpentUnder
<1> QED
  BY <1>1, CentsFinite, PactAssumption DEF Total, ShapeInv, TypeOK, PactsType

\* Steps that leave the Pacts' reservations alone and open no Pact.
LEMMA PactKept ==
  ASSUME PactInv, UNCHANGED <<pac, spent>>,
         \A i \in Ids : pac[i] # "none" => pactOf'[i] = pactOf[i] /\ amount'[i] = amount[i],
         \A p \in Pacts : pactStatus'[p] = "active" => pactStatus[p] = "active" \/ spent[p] = 0
  PROVE  PactInv'
<1>1. \A p \in Pacts : Total(Outstanding(p))' = Total(Outstanding(p))
                      /\ Total(SpentUnder(p))' = Total(SpentUnder(p))
  BY PactSums
<1>2. PactBudgetHolds'
  BY <1>1 DEF PactInv, PactBudgetHolds
<1>3. BudgetClosesPact'
  BY PactAssumption DEF PactInv, BudgetClosesPact
<1> QED
  BY <1>2, <1>3 DEF PactInv

\* The Pact's own check leaves room for the reservation it then records.
LEMMA ReservePactKeeps ==
  ASSUME ShapeInv, PactInv, NEW i \in Ids, ReservePact(i)
  PROVE  PactInv'
<1> DEFINE p == pactOf[i]
<1>1. /\ p \in Pacts /\ lim[i] = "held" /\ pac[i] = "none"
      /\ amount \in AmountsOf /\ amount[i] \in Nat
      /\ pac \in [Ids -> {"none", "held", "spent", "released"}]
  BY NumberAssumption DEF ReservePact, At, ShapeInv, StepInv, LifeInv, TypeOK, TermsType, PactsType,
                          AmountsOf
<1>2. UNCHANGED <<spent, amount, pactOf>>
  BY DEF ReservePact, terms
<1>3. \A q \in Pacts : pactStatus'[q] = "active" => pactStatus[q] = "active"
  BY DEF ReservePact, Sweep, Swept, ShapeInv, TypeOK, PactsType
<1>4. CASE ~PactAllows(p, amount[i])
  <2>1. UNCHANGED pac
    BY <1>4 DEF ReservePact
  <2> QED
    BY <1>2, <1>3, <2>1, PactKept
<1>5. CASE PactAllows(p, amount[i])
  <2>1. pac' = [pac EXCEPT ![i] = "held"]
    BY <1>5 DEF ReservePact
  <2>2. /\ i \notin Outstanding(p) /\ Outstanding(p) \in SUBSET Ids
        /\ Outstanding(p)' = Outstanding(p) \cup {i}
        /\ SpentUnder(p)' = SpentUnder(p)
    BY <1>1, <1>2, <2>1 DEF Outstanding, SpentUnder
  <2>3. \A q \in Pacts \ {p} : Outstanding(q)' = Outstanding(q) /\ SpentUnder(q)' = SpentUnder(q)
    BY <1>1, <1>2, <2>1 DEF Outstanding, SpentUnder
  <2>4. Total(Outstanding(p))' = Total(Outstanding(p)) + amount[i]
    BY <1>1, <1>2, <2>2, CentsAdd DEF Total
  <2>5. \A q \in Pacts : Total(SpentUnder(q))' = Total(SpentUnder(q))
    BY <1>2, <2>2, <2>3 DEF Total
  <2>6. \A q \in Pacts \ {p} : Total(Outstanding(q))' = Total(Outstanding(q))
    BY <1>2, <2>3 DEF Total
  <2>7. PactBudget[p] > 0 => spent[p] + Total(Outstanding(p)) + amount[i] <= PactBudget[p]
    BY <1>5 DEF PactAllows
  <2>8. PactBudgetHolds'
    <3> SUFFICES ASSUME NEW q \in Pacts
                 PROVE /\ spent[q] = Total(SpentUnder(q))
                       /\ PactBudget[q] > 0
                            => spent[q] + Total(Outstanding(q))' <= PactBudget[q]
      BY <1>2, <2>5 DEF PactBudgetHolds
    <3>1. CASE q = p
      <4>1. Total(Outstanding(p)) \in Nat /\ spent[p] \in Nat /\ PactBudget[p] \in Nat
        BY <1>1, PactNumbers
      <4>2. spent[p] = Total(SpentUnder(p))
        BY <1>1 DEF PactInv, PactBudgetHolds
      <4>3. PactBudget[p] > 0 => spent[p] + Total(Outstanding(p))' <= PactBudget[p]
        <5> DEFINE o == Total(Outstanding(p))
                   n == Total(Outstanding(p))'
        <5>1. n = o + amount[i]
          BY <2>4
        <5>2. PactBudget[p] > 0 => spent[p] + o + amount[i] <= PactBudget[p]
          BY <2>7
        <5>3. o \in Nat
          BY <4>1
        <5> HIDE DEF o, n
        <5>4. PactBudget[p] > 0 => spent[p] + n <= PactBudget[p]
          BY <1>1, <4>1, <5>1, <5>2, <5>3
        <5> QED
          BY <5>4 DEF n
      <4> QED
        BY <1>2, <3>1, <4>2, <4>3
    <3>2. CASE q # p
      BY <2>6, <3>2 DEF PactInv, PactBudgetHolds
    <3> QED
      BY <3>1, <3>2
  <2>9. BudgetClosesPact'
    BY <1>2, <1>3 DEF PactInv, BudgetClosesPact
  <2> QED
    BY <2>8, <2>9 DEF PactInv
<1> QED
  BY <1>4, <1>5

\* A commit moves an amount from what is outstanding to what is spent, and
\* closes the Pact if that uses up its budget.
LEMMA CommitPactKeeps ==
  ASSUME ShapeInv, PactInv, NEW i \in Ids, CommitPact(i)
  PROVE  PactInv'
<1> DEFINE p == pactOf[i]
<1>1. /\ pac[i] = "held" /\ p \in Pacts
      /\ amount \in AmountsOf /\ amount[i] \in Nat
      /\ pac \in [Ids -> {"none", "held", "spent", "released"}]
      /\ spent \in [Pacts -> Nat]
  BY NumberAssumption DEF CommitPact, ShapeInv, LifeInv, TypeOK, TermsType, PactsType, AmountsOf
<1>2. /\ UNCHANGED <<amount, pactOf, today>>
      /\ spent' = [spent EXCEPT ![p] = spent[p] + amount[i]]
      /\ pac' = [pac EXCEPT ![i] = "spent"]
      /\ Sweep(p, spent[p] + amount[i])
  BY DEF CommitPact, terms
<1>3. /\ i \in Outstanding(p) /\ i \notin SpentUnder(p)
      /\ Outstanding(p) \in SUBSET Ids /\ SpentUnder(p) \in SUBSET Ids
      /\ Outstanding(p)' = Outstanding(p) \ {i}
      /\ SpentUnder(p)' = SpentUnder(p) \cup {i}
  BY <1>1, <1>2 DEF Outstanding, SpentUnder
<1>4. \A q \in Pacts \ {p} : Outstanding(q)' = Outstanding(q) /\ SpentUnder(q)' = SpentUnder(q)
  BY <1>1, <1>2 DEF Outstanding, SpentUnder
<1>5. /\ amount[i] <= Total(Outstanding(p))
      /\ Total(Outstanding(p))' = Total(Outstanding(p)) - amount[i]
  BY <1>1, <1>2, <1>3, CentsRemove DEF Total
<1>6. Total(SpentUnder(p))' = Total(SpentUnder(p)) + amount[i]
  BY <1>1, <1>2, <1>3, CentsAdd DEF Total
<1>7. \A q \in Pacts \ {p} : Total(Outstanding(q))' = Total(Outstanding(q))
                           /\ Total(SpentUnder(q))' = Total(SpentUnder(q))
  BY <1>2, <1>4 DEF Total
<1>8. spent'[p] = spent[p] + amount[i] /\ \A q \in Pacts \ {p} : spent'[q] = spent[q]
  BY <1>1, <1>2
<1>9. PactBudgetHolds'
  <2> SUFFICES ASSUME NEW q \in Pacts
               PROVE /\ spent'[q] = Total(SpentUnder(q))'
                     /\ PactBudget[q] > 0
                          => spent'[q] + Total(Outstanding(q))' <= PactBudget[q]
    BY DEF PactBudgetHolds
  <2>1. CASE q = p
    <3> DEFINE o == Total(Outstanding(p))
               o2 == Total(Outstanding(p))'
               t == Total(SpentUnder(p))
               t2 == Total(SpentUnder(p))'
    <3>1. o \in Nat /\ t \in Nat /\ spent[p] \in Nat /\ PactBudget[p] \in Nat
      BY <1>1, PactNumbers
    <3>2. spent[p] = t /\ (PactBudget[p] > 0 => spent[p] + o <= PactBudget[p])
      BY <1>1 DEF PactInv, PactBudgetHolds
    <3>3. o2 = o - amount[i] /\ t2 = t + amount[i]
      BY <1>5, <1>6
    <3>4. spent'[p] = spent[p] + amount[i]
      BY <1>8
    <3> HIDE DEF o, o2, t, t2
    <3>5. spent'[p] = t2 /\ (PactBudget[p] > 0 => spent'[p] + o2 <= PactBudget[p])
      BY <1>1, <3>1, <3>2, <3>3, <3>4
    <3> QED
      BY <1>2, <2>1, <3>5 DEF o2, t2
  <2>2. CASE q # p
    BY <1>7, <1>8, <2>2 DEF PactInv, PactBudgetHolds
  <2> QED
    BY <2>1, <2>2
<1>10. BudgetClosesPact'
  <2> SUFFICES ASSUME NEW q \in Pacts, pactStatus'[q] = "active", PactBudget[q] > 0
               PROVE spent'[q] < PactBudget[q]
    BY DEF BudgetClosesPact
  <2>1. pactStatus[q] = "active" /\ (q = p => ~Due(p, spent[p] + amount[i]))
    BY <1>1, <1>2 DEF Sweep, Swept, ShapeInv, TypeOK, PactsType
  <2>2. CASE q = p
    BY <1>1, <1>8, <2>1, <2>2, PactNumbers DEF Due
  <2>3. CASE q # p
    BY <1>8, <2>1, <2>3 DEF PactInv, BudgetClosesPact
  <2> QED
    BY <2>2, <2>3
<1> QED
  BY <1>9, <1>10 DEF PactInv

\* A release takes an amount out of what is outstanding.
LEMMA ReleasePactKeeps ==
  ASSUME ShapeInv, PactInv, NEW i \in Ids, ReleasePact(i)
  PROVE  PactInv'
<1> DEFINE p == pactOf[i]
<1>1. /\ pac[i] = "held" /\ p \in Pacts
      /\ amount \in AmountsOf /\ amount[i] \in Nat
      /\ pac \in [Ids -> {"none", "held", "spent", "released"}]
  BY NumberAssumption DEF ReleasePact, ShapeInv, LifeInv, TypeOK, TermsType, PactsType, AmountsOf
<1>2. UNCHANGED <<amount, pactOf, spent>> /\ pac' = [pac EXCEPT ![i] = "released"]
  BY DEF ReleasePact, terms
<1>3. \A q \in Pacts : pactStatus'[q] = "active" => pactStatus[q] = "active"
  BY DEF ReleasePact, Sweep, Swept, ShapeInv, TypeOK, PactsType
<1>4. \A q \in Pacts : /\ Outstanding(q)' \subseteq Outstanding(q)
                      /\ Outstanding(q) \in SUBSET Ids
                      /\ SpentUnder(q)' = SpentUnder(q)
  BY <1>1, <1>2 DEF Outstanding, SpentUnder
<1>5. \A q \in Pacts : /\ Total(Outstanding(q))' <= Total(Outstanding(q))
                      /\ Total(Outstanding(q))' \in Nat
                      /\ Total(SpentUnder(q))' = Total(SpentUnder(q))
  BY <1>2, <1>4, CentsMonotone, CentsFinite DEF Total
<1>6. PactBudgetHolds'
  BY <1>2, <1>5, PactNumbers DEF PactInv, PactBudgetHolds
<1>7. BudgetClosesPact'
  BY <1>2, <1>3 DEF PactInv, BudgetClosesPact
<1> QED
  BY <1>6, <1>7 DEF PactInv

\* Every step keeps the Pacts within their budgets.
LEMMA NextPact == ShapeInv /\ PactInv /\ [Next]_vars => PactInv'
<1> SUFFICES ASSUME ShapeInv, PactInv, [Next]_vars PROVE PactInv'
  OBVIOUS
<1>1. ASSUME NEW i \in Ids, NEW p \in Pacts, NEW a \in Amounts, NEW f \in Flows,
             ReserveLimits(i, p, a, f)
      PROVE PactInv'
  <2>1. \A j \in Ids : pac[j] # "none" => pactOf'[j] = pactOf[j] /\ amount'[j] = amount[j]
    BY <1>1 DEF ReserveLimits, ShapeInv, LifeInv, TypeOK, TermsType
  <2> QED
    BY <1>1, <2>1, PactKept DEF ReserveLimits, pactStore
<1>2. ASSUME NEW i \in Ids, ReservePact(i) \/ CommitPact(i) \/ ReleasePact(i) PROVE PactInv'
  BY <1>2, ReservePactKeeps, CommitPactKeeps, ReleasePactKeeps
<1>3. ASSUME NEW p \in Pacts, Owner(p) PROVE PactInv'
  <2>1. UNCHANGED <<pac, spent, pactOf, amount>>
    BY <1>3 DEF Owner, ApprovePact, RejectPact, TerminatePact, ExpirePact, Decide, terms
  <2>2. ASSUME NEW q \in Pacts, pactStatus'[q] = "active", pactStatus[q] # "active"
        PROVE spent[q] = 0
    <3>1. pactStatus[q] = "proposed"
      BY <1>3, <2>2 DEF Owner, ApprovePact, RejectPact, TerminatePact, ExpirePact, Decide, Sweep,
                        Swept, ShapeInv, TypeOK, PactsType
    <3>2. SpentUnder(q) = {}
      BY <3>1 DEF SpentUnder, ShapeInv, LifeInv
    <3> QED
      BY <3>2, CentsNone DEF PactInv, PactBudgetHolds, Total
  <2> QED
    BY <2>1, <2>2, PactKept
<1>4. ASSUME UNCHANGED <<pactStore, terms>> PROVE PactInv'
  BY <1>4, PactKept DEF pactStore, terms
<1>5. ASSUME NEW i \in Ids, UndoLimits(i) \/ CommitLimits(i) \/ Debit(i) \/ ReleaseLimits(i)
      PROVE PactInv'
  BY <1>4, <1>5 DEF UndoLimits, CommitLimits, Debit, ReleaseLimits
<1>6. CASE (\E a \in Amounts : Fund(a)) \/ SetFrozen \/ SetWalletStatus \/ NextDay \/ Crash
             \/ UNCHANGED vars
  BY <1>4, <1>6 DEF Fund, SetFrozen, SetWalletStatus, NextDay, Crash, vars
<1> QED
  BY <1>1, <1>2, <1>3, <1>5, <1>6 DEF Next, Handler

-----------------------------------------------------------------------------
(* Theorems                                                                *)

\* The invariant holds in every reachable state.
THEOREM Inductive == Spec => []IInv
<1>1. Init => IInv
  BY InitShape, InitSums DEF IInv
<1>2. ShapeInv /\ [Next]_vars => ShapeInv'
  BY NextTypeOK, NextShape DEF ShapeInv
<1>3. IInv /\ [Next]_vars => IInv'
  BY <1>2, NextAgree, NextLimits, NextPact DEF IInv
<1> QED
  BY <1>1, <1>3, PTL DEF Spec

\* The variables keep their types.
THEOREM TypeCorrect == Spec => []TypeOK
<1>1. IInv => TypeOK
  BY DEF IInv, ShapeInv
<1> QED
  BY <1>1, Inductive, PTL

\* The running totals of the windows are the sums they stand for.
THEOREM UsageIsExact == Spec => []UsageExact
<1>1. IInv => UsageExact
  BY DEF IInv, LimitsInv
<1> QED
  BY <1>1, Inductive, PTL

\* No day and no week is ever granted more than its cap.
THEOREM CapsAlwaysHold == Spec => []CapsHold
<1>1. IInv => CapsHold
  BY DEF IInv, LimitsInv
<1> QED
  BY <1>1, Inductive, PTL

\* What is spent and what is reserved under a Pact never exceeds its budget.
THEOREM BudgetsAlwaysHold == Spec => []PactBudgetHolds
<1>1. IInv => PactBudgetHolds
  BY DEF IInv, PactInv
<1> QED
  BY <1>1, Inductive, PTL

\* No crash leaves money that moved without having been counted.
THEOREM NothingMovesUncounted == Spec => []NothingSpentUncounted
<1>1. IInv => NothingSpentUncounted
  BY DEF IInv, ShapeInv
<1> QED
  BY <1>1, Inductive, PTL

\* Between handlers, and until a crash, the two ledgers agree.
THEOREM LedgersAlwaysAgree == Spec => []LedgersAgree
<1>1. IInv => LedgersAgree
  BY DEF IInv, AgreeInv, LedgersAgree, Free
<1> QED
  BY <1>1, Inductive, PTL

\* A commit or a release that has begun never fails half way.
THEOREM CommitsAlwaysComplete == Spec => []CommitsComplete
<1>1. IInv => CommitsComplete
  BY DEF IInv, ShapeInv, StepInv, CommitsComplete, At
<1> QED
  BY <1>1, Inductive, PTL

\* A Pact that has spent its budget is closed.
THEOREM SpentPactsClosed == Spec => []BudgetClosesPact
<1>1. IInv => BudgetClosesPact
  BY DEF IInv, PactInv
<1> QED
  BY <1>1, Inductive, PTL

\* After its deadline a Pact gets no further reservation.
THEOREM DeadlinesRevoke == Spec => DeadlineRevokes
<1>1. ASSUME ShapeInv, [Next]_vars, NEW i \in Ids, pac[i] # "held", pac'[i] = "held",
             PactDeadline[pactOf[i]] > 0
      PROVE today < PactDeadline[pactOf[i]]
  <2>1. pac \in [Ids -> {"none", "held", "spent", "released"}]
    BY <1>1 DEF ShapeInv, TypeOK, PactsType
  <2>2. ReservePact(i) /\ PactAllows(pactOf[i], amount[i])
    <3>1. ASSUME NEW j \in Ids, ReservePact(j)
          PROVE ReservePact(i) /\ PactAllows(pactOf[i], amount[i])
      BY <1>1, <2>1, <3>1 DEF ReservePact
    <3>2. ASSUME NEW j \in Ids,
                 \/ UndoLimits(j) \/ CommitLimits(j) \/ Debit(j) \/ CommitPact(j)
                 \/ ReleaseLimits(j) \/ ReleasePact(j)
          PROVE FALSE
      BY <1>1, <2>1, <3>2 DEF UndoLimits, CommitLimits, Debit, CommitPact, ReleaseLimits,
                              ReleasePact, pactStore
    <3>3. ASSUME \/ \E j \in Ids, p \in Pacts, a \in Amounts, f \in Flows :
                      ReserveLimits(j, p, a, f)
                 \/ \E p \in Pacts : Owner(p)
                 \/ \E a \in Amounts : Fund(a)
                 \/ SetFrozen \/ SetWalletStatus \/ NextDay \/ Crash \/ UNCHANGED vars
          PROVE FALSE
      BY <1>1, <3>3 DEF ReserveLimits, Owner, ApprovePact, RejectPact, TerminatePact, ExpirePact,
                        Decide, Fund, SetFrozen, SetWalletStatus, NextDay, Crash, vars, pactStore
    <3> QED
      BY <1>1, <3>1, <3>2, <3>3 DEF Next, Handler
  <2>3. ~Due(pactOf[i], spent[pactOf[i]])
    BY <2>2 DEF PactAllows, Swept
  <2>4. today \in Nat
    BY <1>1, NumberAssumption DEF ShapeInv, TypeOK, WorldType
  <2>5. pactOf[i] \in Pacts
    BY <1>1, <2>2 DEF ReservePact, At, ShapeInv, StepInv, LifeInv
  <2>6. PactDeadline[pactOf[i]] \in Nat
    BY <2>5, PactAssumption
  <2> QED
    BY <1>1, <2>3, <2>4, <2>6 DEF Due
<1>2. ShapeInv /\ [Next]_vars =>
        [\A i \in Ids :
           pac[i] # "held" /\ pac'[i] = "held" /\ PactDeadline[pactOf[i]] > 0
             => today < PactDeadline[pactOf[i]]]_vars
  BY <1>1
<1>3. IInv => ShapeInv
  BY DEF IInv
<1> QED
  BY <1>2, <1>3, Inductive, PTL DEF Spec, DeadlineRevokes

\* The windows, the caps and the Pact budgets hold exactly (lib/limits.js, lib/pacts.js).
THEOREM LimitsAlwaysHold == Spec => []LimitsHold
BY UsageIsExact, CapsAlwaysHold, BudgetsAlwaysHold, PTL DEF LimitsHold

\* A settlement goes through in both ledgers or in neither (server.js railsSettle).
THEOREM SettlementsAlwaysAgree == Spec => []SettlementsAgree
BY LedgersAlwaysAgree, CommitsAlwaysComplete, PTL DEF SettlementsAgree
=============================================================================
