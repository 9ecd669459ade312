------------------------------ MODULE StakesProofs ------------------------------
(***************************************************************************)
(* Proofs about Stakes, for any owners, amounts, slash rules, periods and  *)
(* bounds.  IInv is about types and statuses; Accounts, about amounts, is  *)
(* inductive relative to it.                                               *)
(***************************************************************************)
EXTENDS Stakes, FiniteSetTheorems, TLAPS

Books == [StakeIds -> Stake]

-----------------------------------------------------------------------------
(* Sums                                                                    *)

LEMMA UnitsOfOne ==
  ASSUME NEW f, NEW x, f[x] \in Nat
  PROVE  IsFiniteSet({x} \X (1..f[x])) /\ Cardinality({x} \X (1..f[x])) = f[x]
<1> DEFINE n == f[x]
<1>1. IsFiniteSet(1..n) /\ Cardinality(1..n) = IF 1 > n THEN 0 ELSE n - 1 + 1
  BY FS_Interval
<1>2. IsFiniteSet({x}) /\ Cardinality({x}) = 1
  BY FS_Singleton
<1>3. IsFiniteSet({x} \X (1..n)) /\ Cardinality({x} \X (1..n)) = 1 * Cardinality(1..n)
  BY <1>1, <1>2, FS_Product
<1>4. Cardinality(1..n) = n
  <2> HIDE DEF n
  <2> QED
    BY <1>1 DEF n
<1> QED
  BY <1>3, <1>4

LEMMA SumIsNatural ==
  ASSUME NEW f, NEW S, IsFiniteSet(S), \A x \in S : f[x] \in Nat
  PROVE  IsFiniteSet(Units(f, S)) /\ Sum(f, S) \in Nat
<1> DEFINE U == {{x} \X (1..f[x]) : x \in S}
           g == [x \in S |-> {x} \X (1..f[x])]
<1>1. g \in Surjection(S, U)
  BY DEF Surjection
<1>2. IsFiniteSet(U)
  BY <1>1, FS_Surjection, Zenon
<1>3. \A T \in U : IsFiniteSet(T)
  BY UnitsOfOne
<1>4. IsFiniteSet(UNION U)
  <2> HIDE DEF U
  <2> QED
    BY <1>2, <1>3, FS_UNION
<1> QED
  BY <1>4, FS_CardinalityType DEF Units, Sum

\* A term more.
LEMMA SumOfMore ==
  ASSUME NEW f, NEW S, IsFiniteSet(S), \A y \in S : f[y] \in Nat,
         NEW x, x \notin S, f[x] \in Nat
  PROVE  Sum(f, S \cup {x}) = Sum(f, S) + f[x]
<1> DEFINE A == Units(f, S)
           B == {x} \X (1..f[x])
<1>1. Units(f, S \cup {x}) = A \cup B
  BY DEF Units
<1>2. A \cap B = {}
  BY DEF Units
<1>3. IsFiniteSet(A) /\ Cardinality(A) \in Nat
  BY SumIsNatural DEF Sum
<1>4. IsFiniteSet(B) /\ Cardinality(B) = f[x]
  BY UnitsOfOne
<1>5. Cardinality(A \cap B) = 0
  BY <1>2, FS_EmptySet
<1>6. Cardinality(A \cup B) = Cardinality(A) + Cardinality(B) - Cardinality(A \cap B)
  BY <1>3, <1>4, FS_Union, Zenon
<1> HIDE DEF A, B
<1>7. Cardinality(A \cup B) = Cardinality(A) + f[x]
  BY <1>3, <1>4, <1>5, <1>6
<1> QED
  BY <1>1, <1>7 DEF A, Sum

\* Only the terms that are summed matter.
LEMMA SumOfSame ==
  ASSUME NEW f, NEW g, NEW S, \A x \in S : f[x] = g[x]
  PROVE  Sum(f, S) = Sum(g, S)
<1>1. Units(f, S) = Units(g, S)
  BY DEF Units
<1> QED
  BY <1>1 DEF Sum

-----------------------------------------------------------------------------
(* What the operations make of a stake                                     *)

\* A slash takes no more than there is.
LEMMA ReductionBounded ==
  ASSUME NEW stake \in Stake, NEW reason \in Reasons
  PROVE  Reduction(stake, reason) \in 0..stake.amount
<1> DEFINE a == stake.amount
           p == Pct[reason]
<1>1. a \in Nat /\ p \in 1..100
  BY PctAssumption DEF Stake
<1>2. a * p \in Int /\ 0 <= a * p /\ a * p <= a * 100
  <2> HIDE DEF a, p
  <2>1. \A x \in Nat, y \in 1..100 : x * y \in Int /\ 0 <= x * y /\ x * y <= x * 100
    BY SMT
  <2> QED
    BY <1>1, <2>1
<1>3. (a * p) \div 100 \in 0..a
  <2> DEFINE x == a * p
  <2> HIDE DEF a, p, x
  <2>1. x \in Int /\ 0 <= x /\ x <= a * 100 /\ a \in Nat
    BY <1>1, <1>2 DEF x
  <2>2. x \div 100 \in 0..a
    BY <2>1
  <2> QED
    BY <2>2 DEF x
<1> QED
  BY <1>3 DEF Reduction

\* A slashed stake keeps its place and cannot become one that is on its way out.
LEMMA SlashedStake ==
  ASSUME NEW stake \in Stake, NEW reason \in Reasons
  PROVE  /\ Slashed(stake, reason) \in Stake
         /\ Slashed(stake, reason).status \in {stake.status, "slashed"}
<1> DEFINE r == Reduction(stake, reason)
<1>1. r \in 0..stake.amount /\ stake.amount \in Nat
  BY ReductionBounded DEF Stake
<1>2. stake.amount - r \in Nat
  BY <1>1
<1> HIDE DEF r
<1> QED
  BY <1>2 DEF Slashed, Stake, Statuses, r

\* A restoration changes no status.
LEMMA RestoredStake ==
  ASSUME NEW stake \in Stake, NEW cut \in Nat
  PROVE  Restored(stake, cut) \in Stake /\ Restored(stake, cut).status = stake.status
<1>1. stake.amount + cut \in Nat
  BY DEF Stake
<1> DEFINE more == stake.amount + cut
<1> HIDE DEF more
<1>2. [stake EXCEPT !.amount = more, !.big = TRUE] \in Stake
      /\ [stake EXCEPT !.amount = more, !.big = TRUE].status = stake.status
  BY <1>1 DEF Stake, more
<1> QED
  BY <1>2 DEF Restored, more

-----------------------------------------------------------------------------
(* The inductive invariant                                                 *)

\* A stake not made yet is not there.
FreshInv == \A s \in StakeIds :
  staked[s] = 0 => told[s] = "none" /\ book[s] = NoStake /\ file[s] = NoStake

IInv == TypeOK /\ FreshInv /\ AnswersAreDurable

\* A book that keeps what the owners were told.
Keeps(b, t) == \A s \in StakeIds :
  /\ t[s] = "active" => b[s].status # "none"
  /\ t[s] = "unstaking" => b[s].status \in {"unstaking", "withdrawn"}
  /\ t[s] = "withdrawn" => b[s].status = "withdrawn"

LEMMA AnswersKept == AnswersAreDurable <=> Keeps(book, told) /\ Keeps(file, told)
BY DEF AnswersAreDurable, Keeps

\* save, after a change that keeps every answer: whether or not it succeeds and
\* the answer is given.
LEMMA SaveKeeps ==
  ASSUME IInv, NEW b \in Books, Keeps(b, told), Save(b),
         \/ \E s \in StakeIds : Answer(s, b)
         \/ UNCHANGED told
  PROVE  /\ book' = b /\ file' \in {b, file} /\ file' \in Books /\ Saveable(file')
         /\ told' \in [StakeIds -> Statuses]
         /\ AnswersAreDurable'
<1>1. /\ book' = b /\ file' \in {b, file} /\ file' \in Books /\ Saveable(file')
      /\ told' \in [StakeIds -> Statuses]
  BY DEF IInv, TypeOK, Save, Answer, Books, Stake
<1>2. Keeps(b, told')
  <2>1. CASE UNCHANGED told
    BY <2>1 DEF Keeps
  <2>2. CASE \E s \in StakeIds : Answer(s, b)
    BY <2>2 DEF Answer, Keeps, IInv, TypeOK
  <2> QED
    BY <2>1, <2>2
<1>3. Keeps(file', told')
  <2>1. CASE Saveable(b)
    BY <1>2, <2>1 DEF Save
  <2>2. CASE ~Saveable(b)
    BY <2>2, AnswersKept DEF Save, Answer, IInv
  <2> QED
    BY <2>1, <2>2
<1> QED
  BY <1>1, <1>2, <1>3 DEF AnswersAreDurable, Keeps

LEMMA InitIInv == Init => IInv
<1> SUFFICES ASSUME Init PROVE IInv
  OBVIOUS
<1>1. NoStake \in Stake /\ NoCut \in [StakeIds -> Nat]
  BY DEF NoStake, NoCut, Stake, Statuses
<1>2. NoSlash \in Slash
  BY <1>1 DEF NoSlash, Slash
<1>3. TypeOK
  BY <1>1, <1>2 DEF Init, TypeOK, NoJob, Saveable, NoStake, Statuses
<1> QED
  BY <1>3 DEF Init, IInv, FreshInv, AnswersAreDurable, NoCut

LEMMA NextIInv == IInv /\ [Next]_vars => IInv'
<1> SUFFICES ASSUME IInv, [Next]_vars PROVE IInv'
  OBVIOUS
<1> USE DEF IInv
<1>0. book \in Books /\ Keeps(book, told)
  BY AnswersKept DEF TypeOK, Books
<1>1. ASSUME NEW s \in StakeIds, NEW o \in Owners, NEW a \in Amounts, CreateStake(s, o, a)
      PROVE  IInv'
  <2> DEFINE new == [NoStake EXCEPT !.owner = o, !.status = "active", !.amount = a]
             b == [book EXCEPT ![s] = new]
  <2>1. new \in Stake /\ new.status = "active" /\ a # 0 /\ a \in Nat
    BY AmountAssumption DEF NoStake, Stake, Statuses
  <2>2. b \in Books /\ b[s].status = "active" /\ \A t \in StakeIds : t # s => b[t] = book[t]
    BY <1>0, <2>1 DEF Books
  <2>3. Keeps(b, told)
    BY <1>0, <1>1, <2>2 DEF Keeps, CreateStake, FreshInv
  <2>4. Save(b) /\ Answer(s, b)
    BY <1>1 DEF CreateStake
  <2> HIDE DEF b, new
  <2>5. /\ book' = b /\ file' \in {b, file} /\ file' \in Books /\ Saveable(file')
        /\ told' \in [StakeIds -> Statuses]
        /\ AnswersAreDurable'
    BY <2>2, <2>3, <2>4, SaveKeeps
  <2>6. staked' \in [StakeIds -> Nat] /\ job' = job /\ job = NoJob
    BY <1>1, <2>1 DEF CreateStake, Idle, TypeOK
  <2>7. TypeOK'
    BY <1>1, <2>2, <2>5, <2>6 DEF CreateStake, TypeOK, Books, NoJob
  <2>8. FreshInv'
    BY <1>1, <2>1, <2>2, <2>4, <2>5 DEF CreateStake, FreshInv, TypeOK, Answer
  <2> QED
    BY <2>5, <2>7, <2>8
<1>2. ASSUME NEW s \in StakeIds, RequestUnstake(s) PROVE IInv'
  <2> DEFINE new == [book[s] EXCEPT !.status = "unstaking", !.since = now]
             b == [book EXCEPT ![s] = new]
  <2>1. b \in Books /\ b[s].status = "unstaking" /\ \A t \in StakeIds : t # s => b[t] = book[t]
    <3>1. new \in Stake /\ new.status = "unstaking"
      BY DEF Stake, Statuses, TypeOK
    <3> QED
      BY <1>0, <3>1 DEF Books
  <2>2. Keeps(b, told)
    BY <1>0, <1>2, <2>1 DEF Keeps, RequestUnstake
  <2>3. Save(b) /\ Answer(s, b) /\ staked[s] # 0
    BY <1>2 DEF RequestUnstake, FreshInv, NoStake
  <2> HIDE DEF b, new
  <2>4. /\ book' = b /\ file' \in {b, file} /\ file' \in Books /\ Saveable(file')
        /\ told' \in [StakeIds -> Statuses]
        /\ AnswersAreDurable'
    BY <2>1, <2>2, <2>3, SaveKeeps
  <2>5. TypeOK'
    BY <1>2, <2>1, <2>4 DEF RequestUnstake, TypeOK, Books, NoJob, Idle
  <2>6. FreshInv'
    BY <1>2, <2>1, <2>3, <2>4 DEF RequestUnstake, FreshInv, TypeOK, Answer
  <2> QED
    BY <2>4, <2>5, <2>6
<1>3. ASSUME NEW s \in StakeIds, Withdraw(s) PROVE IInv'
  <2> DEFINE b == [book EXCEPT ![s].status = "withdrawn"]
  <2>1. b \in Books /\ b[s].status = "withdrawn" /\ \A t \in StakeIds : t # s => b[t] = book[t]
    BY <1>0 DEF Books, Stake, Statuses
  <2>2. Keeps(b, told)
    BY <1>0, <1>3, <2>1 DEF Keeps, Withdraw
  <2>3. Save(b) /\ Answer(s, b) /\ staked[s] # 0
    BY <1>3 DEF Withdraw, FreshInv, NoStake
  <2> HIDE DEF b
  <2>4. /\ book' = b /\ file' \in {b, file} /\ file' \in Books /\ Saveable(file')
        /\ told' \in [StakeIds -> Statuses]
        /\ AnswersAreDurable'
    BY <2>1, <2>2, <2>3, SaveKeeps
  <2>5. TypeOK'
    BY <1>3, <2>1, <2>4 DEF Withdraw, TypeOK, Books, NoJob, Idle
  <2>6. FreshInv'
    BY <1>3, <2>1, <2>3, <2>4 DEF Withdraw, FreshInv, TypeOK, Answer
  <2> QED
    BY <2>4, <2>5, <2>6
<1>4. ASSUME NEW o \in Owners, NEW reason \in Reasons, CreateSlash(o, reason) PROVE IInv'
  <2>1. job' \in Job /\ \A s \in job'.todo : book[s].status = "active"
    BY <1>4 DEF CreateSlash, Job, ActiveStakes, NoCut
  <2>2. UNCHANGED <<book, file, slashes, now, crashes, staked, told, torn>> /\ calls' \in Nat
    BY <1>4 DEF CreateSlash, history, TypeOK
  <2> QED
    BY <2>1, <2>2 DEF TypeOK, FreshInv, AnswersAreDurable, Saveable
<1>5. ASSUME SlashNext PROVE IInv'
  <2> DEFINE B(s) == [book EXCEPT ![s] = Slashed(book[s], job.reason)]
  <2>1. PICK s \in job.todo :
          /\ Save(B(s))
          /\ job' = IF Saveable(B(s))
                    THEN [job EXCEPT !.todo = job.todo \ {s},
                                     !.cut = [job.cut EXCEPT ![s] = Reduction(book[s], job.reason)]]
                    ELSE NoJob
          /\ torn' = (torn \/ ~Saveable(B(s)))
    BY <1>5 DEF SlashNext
  <2>2. job \in Job /\ s \in StakeIds /\ book[s] \in Stake /\ book[s].status = "active"
    BY <1>5, <2>1 DEF SlashNext, Idle, TypeOK, Job
  <2> DEFINE b == B(s)
             r == Reduction(book[s], job.reason)
  <2>3. r \in Nat
    BY <2>2, ReductionBounded DEF Job, Stake
  <2>4. /\ b \in Books
        /\ b[s].status \in {"active", "slashed"}
        /\ \A t \in StakeIds : t # s => b[t] = book[t]
    <3>1. Slashed(book[s], job.reason) \in Stake
          /\ Slashed(book[s], job.reason).status \in {"active", "slashed"}
      BY <2>2, SlashedStake DEF Job
    <3> QED
      BY <1>0, <2>2, <3>1 DEF Books
  <2>5. Keeps(b, told)
    BY <1>0, <2>2, <2>4 DEF Keeps
  <2>6. Save(b) /\ UNCHANGED told
    BY <1>5, <2>1 DEF SlashNext
  <2>7. job' = NoJob \/ (job' \in Job /\ job'.todo = job.todo \ {s})
    <3> HIDE DEF r, B
    <3>1. job' = NoJob \/ job' = [job EXCEPT !.todo = job.todo \ {s}, !.cut = [job.cut EXCEPT ![s] = r]]
      BY <2>1 DEF r
    <3> QED
      BY <2>2, <2>3, <3>1 DEF Job
  <2>8. torn' \in BOOLEAN
    <3> HIDE DEF B
    <3> QED
      BY <2>1
  <2> HIDE DEF b, B
  <2>9. /\ book' = b /\ file' \in {b, file} /\ file' \in Books /\ Saveable(file')
        /\ told' \in [StakeIds -> Statuses]
        /\ AnswersAreDurable'
    BY <2>2, <2>4, <2>5, <2>6, SaveKeeps
  <2>10. TypeOK'
    <3>1. \A t \in job'.todo : book'[t].status = "active"
      BY <2>2, <2>4, <2>7, <2>9 DEF TypeOK, NoJob, Job
    <3> QED
      BY <1>5, <2>4, <2>7, <2>8, <2>9, <3>1 DEF SlashNext, TypeOK, Books
  <2>11. FreshInv'
    <3>1. staked' = staked /\ staked[s] # 0
      BY <1>5, <2>2 DEF SlashNext, FreshInv, NoStake
    <3> QED
      BY <2>4, <2>6, <2>9, <3>1 DEF FreshInv
  <2> QED
    BY <2>9, <2>10, <2>11
<1>6. ASSUME NEW r \in SlashIds, RecordSlash(r) PROVE IInv'
  <2>1. now + Window \in Nat
    BY BoundAssumption DEF TypeOK
  <2>2. job \in Job
    BY <1>6 DEF RecordSlash, Idle, TypeOK
  <2>3. slashes' \in [SlashIds -> Slash]
    BY <1>6, <2>1, <2>2 DEF RecordSlash, TypeOK, Slash, Job
  <2>4. job' = NoJob /\ UNCHANGED <<book, file, calls, now, crashes, staked, told, torn>>
    BY <1>6 DEF RecordSlash, history
  <2> QED
    BY <2>3, <2>4 DEF TypeOK, FreshInv, AnswersAreDurable, NoJob, Saveable
<1>7. ASSUME NEW r \in SlashIds, FileAppeal(r) PROVE IInv'
  <2>1. slashes' \in [SlashIds -> Slash]
    BY <1>7 DEF FileAppeal, TypeOK, Slash
  <2>2. UNCHANGED <<book, file, job, calls, now, crashes, staked, told, torn>>
    BY <1>7 DEF FileAppeal, history
  <2> QED
    BY <2>1, <2>2 DEF TypeOK, FreshInv, AnswersAreDurable, Saveable
<1>8. ASSUME NEW r \in SlashIds, DecideAppeal(r) PROVE IInv'
  <2>1. job = NoJob /\ UNCHANGED <<job, calls, now, crashes, staked, told, torn>>
    BY <1>8 DEF DecideAppeal, history, Idle
  <2>2. slashes' \in [SlashIds -> Slash]
    <3>1. PICK st \in {"expired", "rejected", "accepted"} :
            slashes' = [slashes EXCEPT ![r].status = st]
      BY <1>8 DEF DecideAppeal, AppealLapses, RejectAppeal, AcceptAppeal
    <3> QED
      BY <3>1 DEF TypeOK, Slash
  <2>3. CASE AppealLapses(r) \/ RejectAppeal(r)
    <3>1. UNCHANGED <<book, file>>
      BY <2>3 DEF AppealLapses, RejectAppeal
    <3> QED
      BY <2>1, <2>2, <3>1 DEF TypeOK, FreshInv, AnswersAreDurable, Saveable
  <2>4. CASE AcceptAppeal(r)
    <3> DEFINE b == [s \in StakeIds |->
                       IF slashes[r].cut[s] = 0 THEN book[s] ELSE Restored(book[s], slashes[r].cut[s])]
    <3>1. ASSUME NEW s \in StakeIds
          PROVE  b[s] \in Stake /\ b[s].status = book[s].status /\ (book[s] = NoStake => b[s] = NoStake)
      <4>1. book[s] \in Stake /\ slashes[r].cut[s] \in Nat
        BY DEF TypeOK, Slash
      <4>2. Restored(book[s], slashes[r].cut[s]) \in Stake
            /\ Restored(book[s], slashes[r].cut[s]).status = book[s].status
        BY <4>1, RestoredStake
      <4>3. book[s] = NoStake => Restored(book[s], slashes[r].cut[s]) = NoStake
        BY DEF Restored, NoStake
      <4> QED
        BY <4>1, <4>2, <4>3
    <3>2. b \in Books /\ Keeps(b, told)
      <4>1. b \in Books
        BY <3>1 DEF Books
      <4>2. \A s \in StakeIds : b[s].status = book[s].status
        BY <3>1
      <4> HIDE DEF b
      <4> QED
        BY <1>0, <4>1, <4>2 DEF Keeps
    <3>3. Save(b)
      BY <2>4 DEF AcceptAppeal
    <3>4. \A s \in StakeIds : b[s].status = book[s].status /\ (book[s] = NoStake => b[s] = NoStake)
      BY <3>1
    <3> HIDE DEF b
    <3>5. /\ book' = b /\ file' \in {b, file} /\ file' \in Books /\ Saveable(file')
          /\ told' \in [StakeIds -> Statuses]
          /\ AnswersAreDurable'
      BY <2>1, <3>2, <3>3, SaveKeeps
    <3>6. TypeOK'
      BY <2>1, <2>2, <3>2, <3>5 DEF TypeOK, Books, NoJob
    <3>7. FreshInv'
      BY <2>1, <3>4, <3>5 DEF FreshInv
    <3> QED
      BY <3>5, <3>6, <3>7
  <2> QED
    BY <1>8, <2>3, <2>4 DEF DecideAppeal
<1>9. ASSUME Tick PROVE IInv'
  <2>1. now' \in Nat /\ UNCHANGED <<book, file, slashes, job, calls, crashes, staked, told, torn>>
    BY <1>9 DEF Tick, history, TypeOK
  <2> QED
    BY <2>1 DEF TypeOK, FreshInv, AnswersAreDurable, Saveable
<1>10. ASSUME Crash PROVE IInv'
  <2>1. /\ book' = file /\ job' = NoJob /\ torn' \in BOOLEAN /\ crashes' \in Nat
        /\ UNCHANGED <<file, slashes, calls, now, staked, told>>
    BY <1>10 DEF Crash, TypeOK
  <2>2. TypeOK' /\ AnswersAreDurable'
    BY <2>1 DEF TypeOK, AnswersAreDurable, Saveable, NoJob
  <2>3. FreshInv'
    BY <2>1 DEF FreshInv
  <2> QED
    BY <2>2, <2>3
<1>11. ASSUME UNCHANGED vars PROVE IInv'
  BY <1>11 DEF vars, TypeOK, FreshInv, AnswersAreDurable, Saveable
<1>12. CASE Staking
  BY <1>1, <1>2, <1>3, <1>12 DEF Staking
<1>13. CASE Slashing
  BY <1>4, <1>5, <1>6, <1>7, <1>8, <1>13 DEF Slashing
<1> QED
  BY <1>9, <1>10, <1>11, <1>12, <1>13 DEF Next

-----------------------------------------------------------------------------
(* The amounts                                                             *)

\* createSlash has taken nothing yet from a stake before it; the file is behind the
\* book only while a save would throw; and until something is lost, what it is
\* behind by are restored amounts.
JobInv == ~Idle => \A s \in job.todo : job.cut[s] = 0
SavedInv == Saveable(book) => file = book
LagInv == ~torn => \A s \in StakeIds :
  /\ file[s].amount <= book[s].amount
  /\ book[s].big => file[s].amount < book[s].amount

Accounts == AmountsAccounted /\ JobInv /\ SavedInv /\ LagInv

Slashes == [SlashIds -> Slash]
\* What the slashes of z deduct from s, all of them and all but r.
Stand(z) == {r \in SlashIds : z[r].status # "accepted"}
Cuts(z, s) == [r \in SlashIds |-> z[r].cut[s]]
AllBut(z, r, s) == Sum(Cuts(z, s), Stand(z) \ {r})
Share(z, r, s) == IF z[r].status # "accepted" THEN z[r].cut[s] ELSE 0

LEMMA WithoutOne ==
  ASSUME NEW z \in Slashes, NEW r \in SlashIds, NEW s \in StakeIds
  PROVE  /\ AllBut(z, r, s) \in Nat /\ Share(z, r, s) \in Nat
         /\ Sum(Cuts(z, s), Stand(z)) = AllBut(z, r, s) + Share(z, r, s)
<1> DEFINE f == Cuts(z, s)
           S == Stand(z) \ {r}
<1>1. \A q \in SlashIds : f[q] \in Nat /\ f[q] = z[q].cut[s]
  BY DEF Cuts, Slashes, Slash
<1>2. IsFiniteSet(S)
  <2>1. IsFiniteSet(SlashIds)
    BY BoundAssumption, FS_Interval DEF SlashIds
  <2>2. S \subseteq SlashIds
    BY DEF Stand
  <2> QED
    BY <2>1, <2>2, FS_Subset
<1>3. S \subseteq SlashIds /\ r \notin S
  BY DEF Stand
<1> HIDE DEF f
<1>4. Sum(f, S) \in Nat
  <2> HIDE DEF S
  <2> QED
    BY <1>1, <1>2, <1>3, SumIsNatural
<1>5. CASE z[r].status # "accepted"
  <2>1. Stand(z) = S \cup {r}
    BY <1>5 DEF Stand
  <2> HIDE DEF S
  <2>2. Sum(f, S \cup {r}) = Sum(f, S) + f[r]
    BY <1>1, <1>2, <1>3, SumOfMore
  <2> QED
    BY <1>1, <1>4, <1>5, <2>1, <2>2 DEF AllBut, Share, f, S
<1>6. CASE z[r].status = "accepted"
  <2>1. Stand(z) = S
    BY <1>6 DEF Stand
  <2> QED
    BY <1>4, <1>6, <2>1 DEF AllBut, Share, f
<1> QED
  BY <1>5, <1>6

LEMMA DeductedIs ==
  ASSUME NEW s \in StakeIds
  PROVE  /\ Deducted(s) = Sum(Cuts(slashes, s), Stand(slashes)) + IF Idle THEN 0 ELSE job.cut[s]
         /\ Deducted(s)' = Sum(Cuts(slashes', s), Stand(slashes')) + IF Idle' THEN 0 ELSE job'.cut[s]
BY DEF Deducted, CutsOf, Standing, Cuts, Stand

\* A sum of slashes is a natural number, whether or not there is a slash.
LEMMA SumOfSlashes ==
  ASSUME NEW z \in Slashes, NEW s \in StakeIds
  PROVE  Sum(Cuts(z, s), Stand(z)) \in Nat
<1>1. \A r \in SlashIds : Cuts(z, s)[r] \in Nat
  BY DEF Cuts, Slashes, Slash
<1>2. IsFiniteSet(Stand(z)) /\ Stand(z) \subseteq SlashIds
  <2>1. IsFiniteSet(SlashIds)
    BY BoundAssumption, FS_Interval DEF SlashIds
  <2>2. Stand(z) \subseteq SlashIds
    BY DEF Stand
  <2> QED
    BY <2>1, <2>2, FS_Subset
<1> QED
  BY <1>1, <1>2, SumIsNatural

LEMMA DeductedNat ==
  ASSUME TypeOK, NEW s \in StakeIds
  PROVE  Deducted(s) \in Nat
<1>1. Sum(Cuts(slashes, s), Stand(slashes)) \in Nat
  BY SumOfSlashes DEF TypeOK, Slashes
<1>2. ~Idle => job.cut[s] \in Nat
  BY DEF TypeOK, Idle, Job
<1> QED
  BY <1>1, <1>2, DeductedIs

\* One slash is recorded or changed: what the others deduct stays.
LEMMA DeductedByOthers ==
  ASSUME TypeOK, slashes' \in Slashes, NEW r \in SlashIds, NEW s \in StakeIds,
         \A q \in SlashIds \ {r} : slashes'[q] = slashes[q]
  PROVE  \E rest \in Nat :
           /\ Deducted(s) = rest + Share(slashes, r, s) + IF Idle THEN 0 ELSE job.cut[s]
           /\ Deducted(s)' = rest + Share(slashes', r, s) + IF Idle' THEN 0 ELSE job'.cut[s]
<1>1. Stand(slashes') \ {r} = Stand(slashes) \ {r}
  BY DEF Stand
<1>2. \A q \in Stand(slashes) \ {r} : Cuts(slashes, s)[q] = Cuts(slashes', s)[q]
  BY DEF Cuts, Stand
<1>3. AllBut(slashes', r, s) = AllBut(slashes, r, s)
  BY <1>1, <1>2, SumOfSame DEF AllBut
<1>4. slashes \in Slashes
  BY DEF TypeOK, Slashes
<1> QED
  BY <1>3, <1>4, WithoutOne, DeductedIs

\* save, after a change that leaves no stake larger than it may be.
LEMMA SaveAccounts ==
  ASSUME TypeOK, NEW b \in Books, Save(b), staked' \in [StakeIds -> Nat],
         \A s \in StakeIds : Deducted(s)' \in Nat,
         \A s \in StakeIds : /\ b[s].amount + Deducted(s)' <= staked'[s]
                             /\ file[s].amount + Deducted(s)' <= staked'[s],
         ~torn' => \A s \in StakeIds :
           b[s].status \in {"active", "unstaking"} => b[s].amount + Deducted(s)' = staked'[s],
         ~torn' /\ ~Saveable(b) => \A s \in StakeIds :
           file[s].amount <= b[s].amount /\ (b[s].big => file[s].amount < b[s].amount)
  PROVE  AmountsAccounted' /\ SavedInv' /\ LagInv'
<1>1. book' = b /\ file' = IF Saveable(b) THEN b ELSE file
  BY DEF Save
<1>2. AmountsAccounted'
  BY <1>1 DEF AmountsAccounted
<1>3. SavedInv'
  BY <1>1 DEF SavedInv
<1>4. LagInv'
  <2>1. CASE Saveable(b)
    <3>1. file' = b /\ \A s \in StakeIds : ~b[s].big /\ b[s].amount \in Nat
      BY <1>1, <2>1 DEF Saveable, Books, Stake
    <3> QED
      BY <1>1, <3>1 DEF LagInv
  <2>2. CASE ~Saveable(b)
    BY <1>1, <2>2 DEF LagInv
  <2> QED
    BY <2>1, <2>2
<1> QED
  BY <1>2, <1>3, <1>4

LEMMA InitAccounts == Init => Accounts
<1> SUFFICES ASSUME Init PROVE Accounts
  OBVIOUS
<1>1. ASSUME NEW s \in StakeIds PROVE Deducted(s) = 0
  <2>1. \A r \in SlashIds : slashes[r].cut[s] = 0
    BY DEF Init, NoSlash, NoCut
  <2>2. \A r \in SlashIds : 1..(CutsOf(s)[r]) = {}
    BY <2>1 DEF CutsOf
  <2>3. Units(CutsOf(s), Standing) = {}
    BY <2>2 DEF Units, Standing
  <2>4. Idle /\ Sum(CutsOf(s), Standing) = 0
    BY <2>3, FS_EmptySet DEF Sum, Init, Idle
  <2> QED
    BY <2>4 DEF Deducted
<1>2. \A s \in StakeIds : book[s].amount = 0 /\ ~book[s].big /\ staked[s] = 0
  BY DEF Init, NoStake, NoCut
<1>3. file = book /\ Idle
  BY DEF Init, Idle
<1>4. AmountsAccounted
  BY <1>1, <1>2, <1>3 DEF AmountsAccounted
<1>5. LagInv /\ JobInv /\ SavedInv
  BY <1>2, <1>3 DEF LagInv, JobInv, SavedInv
<1> QED
  BY <1>4, <1>5 DEF Accounts

\* A step that changes neither the slashes nor what the one under way has taken.
LEMMA DeductedSame ==
  ASSUME UNCHANGED <<slashes, job>>, NEW s \in StakeIds
  PROVE  Deducted(s)' = Deducted(s)
BY DeductedIs DEF Idle

\* A step that changes the status of stakes only: withdrawn ones stay withdrawn,
\* and no stake that was reduced to nothing is brought back.
LEMMA StatusAccounts ==
  ASSUME IInv, Accounts, TypeOK', UNCHANGED <<slashes, job, staked, torn>>,
         NEW s \in StakeIds, NEW new \in Stake,
         new.amount = book[s].amount, new.big = book[s].big,
         book[s].status \in {"active", "unstaking"},
         Save([book EXCEPT ![s] = new])
  PROVE  Accounts'
<1> DEFINE b == [book EXCEPT ![s] = new]
<1>1. book \in Books /\ staked \in [StakeIds -> Nat]
  BY DEF IInv, TypeOK, Books
<1>2. /\ b \in Books /\ b[s] = new
      /\ \A t \in StakeIds : /\ b[t].amount = book[t].amount /\ b[t].big = book[t].big
                             /\ t # s => b[t] = book[t]
  BY <1>1 DEF Books
<1>3. Save(b)
  OBVIOUS
<1> HIDE DEF b
<1>4. \A t \in StakeIds : Deducted(t)' = Deducted(t) /\ Deducted(t) \in Nat
  BY DeductedSame, DeductedNat DEF IInv
<1>5. \A t \in StakeIds : /\ b[t].amount + Deducted(t)' <= staked'[t]
                          /\ file[t].amount + Deducted(t)' <= staked'[t]
  BY <1>2, <1>4 DEF Accounts, AmountsAccounted
<1>6. ~torn' => \A t \in StakeIds :
        b[t].status \in {"active", "unstaking"} => b[t].amount + Deducted(t)' = staked'[t]
  BY <1>2, <1>4 DEF Accounts, AmountsAccounted
<1>7. ~torn' /\ ~Saveable(b) => \A t \in StakeIds :
        file[t].amount <= b[t].amount /\ (b[t].big => file[t].amount < b[t].amount)
  BY <1>2 DEF Accounts, LagInv
<1>8. AmountsAccounted' /\ SavedInv' /\ LagInv'
  BY <1>1, <1>2, <1>3, <1>4, <1>5, <1>6, <1>7, SaveAccounts DEF IInv
<1>9. JobInv'
  BY DEF Accounts, JobInv, Idle
<1> QED
  BY <1>8, <1>9 DEF Accounts

LEMMA AccountsKept == IInv /\ IInv' /\ Accounts /\ [Next]_vars => Accounts'
<1> SUFFICES ASSUME IInv, IInv', Accounts, [Next]_vars PROVE Accounts'
  OBVIOUS
<1>0. /\ TypeOK /\ TypeOK' /\ book \in Books /\ file \in Books
      /\ slashes \in Slashes /\ slashes' \in Slashes
      /\ staked \in [StakeIds -> Nat] /\ staked' \in [StakeIds -> Nat]
  BY DEF IInv, TypeOK, Books, Slashes
<1>a. \A s \in StakeIds : /\ Deducted(s) \in Nat /\ Deducted(s)' \in Nat
                          /\ book[s].amount \in Nat /\ file[s].amount \in Nat
                          /\ staked[s] \in Nat /\ staked'[s] \in Nat
  <2>1. ASSUME NEW s \in StakeIds PROVE Deducted(s) \in Nat
    BY <1>0, DeductedNat
  <2>2. ASSUME NEW s \in StakeIds PROVE Deducted(s)' \in Nat
    <3>1. slashes' \in Slashes /\ (~Idle' => job'.cut[s] \in Nat)
      BY <1>0 DEF TypeOK, Idle, Job
    <3>2. Sum(Cuts(slashes', s), Stand(slashes')) \in Nat
      BY <3>1, SumOfSlashes
    <3> QED
      BY <3>1, <3>2, DeductedIs
  <2>3. \A s \in StakeIds : book[s].amount \in Nat /\ file[s].amount \in Nat
    BY <1>0 DEF Books, Stake
  <2> QED
    BY <1>0, <2>1, <2>2, <2>3
<1>b. /\ \A s \in StakeIds : /\ book[s].amount + Deducted(s) <= staked[s]
                             /\ file[s].amount + Deducted(s) <= staked[s]
                             /\ ~torn /\ book[s].status \in {"active", "unstaking"} =>
                                  book[s].amount + Deducted(s) = staked[s]
      /\ JobInv /\ SavedInv /\ LagInv
  BY DEF Accounts, AmountsAccounted
<1>1. ASSUME NEW s \in StakeIds, NEW o \in Owners, NEW a \in Amounts, CreateStake(s, o, a)
      PROVE  Accounts'
  <2> DEFINE new == [NoStake EXCEPT !.owner = o, !.status = "active", !.amount = a]
             b == [book EXCEPT ![s] = new]
  <2>1. new \in Stake /\ new.amount = a /\ ~new.big /\ a \in Nat
    BY AmountAssumption DEF NoStake, Stake, Statuses
  <2>2. b \in Books /\ b[s] = new /\ \A t \in StakeIds : t # s => b[t] = book[t]
    BY <1>0, <2>1 DEF Books
  <2>3. Save(b) /\ UNCHANGED <<slashes, job, torn>> /\ Idle /\ staked[s] = 0
    BY <1>1 DEF CreateStake
  <2>4. staked'[s] = a /\ \A t \in StakeIds : t # s => staked'[t] = staked[t]
    BY <1>0, <1>1 DEF CreateStake
  <2> HIDE DEF b, new
  <2>5. \A t \in StakeIds : Deducted(t)' = Deducted(t)
    BY <2>3, DeductedSame
  <2>6. Deducted(s) = 0 /\ file[s].amount = 0
    BY <1>a, <1>b, <2>3
  <2>7. \A t \in StakeIds : b[t].amount + Deducted(t)' <= staked'[t]
                           /\ file[t].amount + Deducted(t)' <= staked'[t]
    BY <1>a, <1>b, <2>1, <2>2, <2>4, <2>5, <2>6
  <2>8. ~torn' => \A t \in StakeIds :
          b[t].status \in {"active", "unstaking"} => b[t].amount + Deducted(t)' = staked'[t]
    BY <1>a, <1>b, <2>1, <2>2, <2>3, <2>4, <2>5, <2>6
  <2>9. ~torn' => \A t \in StakeIds :
          file[t].amount <= b[t].amount /\ (b[t].big => file[t].amount < b[t].amount)
    BY <1>a, <1>b, <2>1, <2>2, <2>3, <2>6 DEF LagInv
  <2>10. AmountsAccounted' /\ SavedInv' /\ LagInv'
    BY <1>0, <1>a, <2>2, <2>3, <2>7, <2>8, <2>9, SaveAccounts
  <2> QED
    BY <2>3, <2>10 DEF Accounts, JobInv, Idle
<1>2. ASSUME NEW s \in StakeIds, RequestUnstake(s) \/ Withdraw(s) PROVE Accounts'
  <2>1. PICK new \in Stake : /\ new.amount = book[s].amount /\ new.big = book[s].big
                             /\ Save([book EXCEPT ![s] = new])
    <3>1. CASE RequestUnstake(s)
      <4> DEFINE n == [book[s] EXCEPT !.status = "unstaking", !.since = now]
      <4>0. book[s] \in Stake /\ now \in Nat
        BY <1>0 DEF Books, TypeOK
      <4>1. n \in Stake /\ n.amount = book[s].amount /\ n.big = book[s].big
        BY <4>0 DEF Stake, Statuses
      <4>2. Save([book EXCEPT ![s] = n])
        BY <3>1 DEF RequestUnstake
      <4> QED
        BY <4>1, <4>2
    <3>2. CASE Withdraw(s)
      <4> DEFINE n == [book[s] EXCEPT !.status = "withdrawn"]
      <4>1. n \in Stake /\ n.amount = book[s].amount /\ n.big = book[s].big
        BY <1>0 DEF Books, Stake, Statuses
      <4>2. Save([book EXCEPT ![s] = n])
        BY <3>2 DEF Withdraw
      <4> QED
        BY <4>1, <4>2
    <3> QED
      BY <1>2, <3>1, <3>2
  <2>2. book[s].status \in {"active", "unstaking"} /\ UNCHANGED <<slashes, job, staked, torn>>
    BY <1>2 DEF RequestUnstake, Withdraw
  <2> QED
    BY <1>0, <2>1, <2>2, StatusAccounts
<1>3. ASSUME NEW o \in Owners, NEW reason \in Reasons, CreateSlash(o, reason) PROVE Accounts'
  <2>1. /\ Idle /\ job'.cut = NoCut /\ UNCHANGED <<book, file, slashes, staked, torn>>
    BY <1>3 DEF CreateSlash, history
  <2>2. \A s \in StakeIds : Deducted(s)' = Deducted(s)
    <3> SUFFICES ASSUME NEW s \in StakeIds PROVE Deducted(s)' = Deducted(s)
      OBVIOUS
    <3>1. job'.cut[s] = 0
      BY <2>1 DEF NoCut
    <3> QED
      BY <2>1, <3>1, DeductedIs
  <2>3. AmountsAccounted'
    BY <1>b, <2>1, <2>2 DEF AmountsAccounted
  <2>4. JobInv'
    BY <1>0, <2>1 DEF JobInv, NoCut, TypeOK, Job, Idle
  <2> QED
    BY <1>b, <2>1, <2>3, <2>4 DEF Accounts, SavedInv, LagInv, Saveable
<1>4. ASSUME SlashNext PROVE Accounts'
  <2> DEFINE B(s) == [book EXCEPT ![s] = Slashed(book[s], job.reason)]
  <2>1. PICK s \in job.todo :
          /\ Save(B(s))
          /\ job' = IF Saveable(B(s))
                    THEN [job EXCEPT !.todo = job.todo \ {s},
                                     !.cut = [job.cut EXCEPT ![s] = Reduction(book[s], job.reason)]]
                    ELSE NoJob
          /\ torn' = (torn \/ ~Saveable(B(s)))
    BY <1>4 DEF SlashNext
  <2>2. /\ ~Idle /\ job \in Job /\ s \in StakeIds
        /\ book[s] \in Stake /\ job.reason \in Reasons /\ job.cut \in [StakeIds -> Nat]
    BY <1>0, <1>4, <2>1 DEF SlashNext, Idle, TypeOK, Job, Books
  <2> DEFINE b == B(s)
             r == Reduction(book[s], job.reason)
  <2>3. r \in 0..book[s].amount
    BY <2>2, ReductionBounded
  <2>4. /\ b[s].amount = book[s].amount - r
        /\ b[s].status \in {book[s].status, "slashed"}
        /\ b \in Books
        /\ \A t \in StakeIds : t # s => b[t] = book[t]
    <3>1. b[s] = Slashed(book[s], job.reason) /\ \A t \in StakeIds : t # s => b[t] = book[t]
      BY <1>0, <2>2 DEF Books
    <3>2. Slashed(book[s], job.reason) \in Stake
          /\ Slashed(book[s], job.reason).status \in {book[s].status, "slashed"}
      BY <2>2, SlashedStake
    <3>3. Slashed(book[s], job.reason).amount = book[s].amount - r
      BY <2>2 DEF Slashed, Stake
    <3>4. b \in Books
      BY <1>0, <3>2 DEF Books
    <3> QED
      BY <3>1, <3>2, <3>3, <3>4
  <2>5. UNCHANGED <<slashes, staked>> /\ job.cut[s] = 0 /\ Save(b)
    BY <1>b, <1>4, <2>1, <2>2 DEF SlashNext, JobInv
  <2>6. CASE Saveable(b)
    <3>1. /\ job'.todo = job.todo \ {s} /\ job'.cut = [job.cut EXCEPT ![s] = r]
          /\ ~Idle' /\ torn' = torn
      <4> HIDE DEF r
      <4>1. job' = [job EXCEPT !.todo = job.todo \ {s}, !.cut = [job.cut EXCEPT ![s] = r]]
        BY <2>1, <2>6 DEF r
      <4>2. job'.todo = job.todo \ {s} /\ job'.cut = [job.cut EXCEPT ![s] = r]
        BY <2>2, <4>1 DEF Job
      <4>3. DOMAIN job' = {"reason", "todo", "cut"} /\ DOMAIN NoJob = {"todo"}
        BY <2>2, <4>1 DEF Job, NoJob
      <4>4. torn' = torn
        BY <1>0, <2>1, <2>6 DEF TypeOK
      <4> QED
        BY <4>2, <4>3, <4>4 DEF Idle
    <3>2. Deducted(s)' = Deducted(s) + r /\ \A t \in StakeIds : t # s => Deducted(t)' = Deducted(t)
      <4> HIDE DEF r, B
      <4>1. Sum(Cuts(slashes, s), Stand(slashes)) \in Nat /\ r \in Int
        BY <1>0, <2>2, <2>3, SumOfSlashes DEF Stake
      <4>2. Deducted(s)' = Deducted(s) + r
        BY <2>2, <2>5, <3>1, <4>1, DeductedIs
      <4>3. ASSUME NEW t \in StakeIds, t # s PROVE Deducted(t)' = Deducted(t)
        <5>1. job'.cut[t] = job.cut[t]
          BY <2>2, <3>1, <4>3
        <5> QED
          BY <2>2, <2>5, <3>1, <5>1, DeductedIs
      <4> QED
        BY <4>2, <4>3
    <3> HIDE DEF r, B, b
    <3>3. r \in Int
      BY <1>a, <2>2, <2>3
    <3>4. \A t \in StakeIds : b[t].amount + Deducted(t)' = book[t].amount + Deducted(t)
      BY <1>a, <2>2, <2>4, <3>2, <3>3
    <3>5. ~torn' => \A t \in StakeIds :
            b[t].status \in {"active", "unstaking"} => b[t].amount + Deducted(t)' = staked'[t]
      BY <1>b, <2>2, <2>4, <2>5, <3>1, <3>4
    <3>6. book' = b /\ file' = b
      BY <2>5, <2>6 DEF Save
    <3>7. AmountsAccounted'
      BY <1>b, <2>5, <3>4, <3>5, <3>6 DEF AmountsAccounted
    <3>8. LagInv' /\ SavedInv'
      BY <1>a, <2>4, <2>6, <3>6 DEF LagInv, SavedInv, Saveable, Books, Stake
    <3>9. JobInv'
      BY <1>b, <2>2, <3>1 DEF JobInv, Job
    <3> QED
      BY <3>7, <3>8, <3>9 DEF Accounts
  <2>7. CASE ~Saveable(b)
    <3>1. Idle' /\ torn' /\ book' = b /\ file' = file
      <4> HIDE DEF r, B
      <4>1. torn' = (torn \/ TRUE)
        BY <2>1, <2>7
      <4> QED
        BY <2>1, <2>7, <4>1 DEF Idle, Save
    <3> HIDE DEF r, B, b
    <3>2. ASSUME NEW t \in StakeIds PROVE Deducted(t)' <= Deducted(t)
      <4>1. job.cut[t] \in Nat /\ Sum(Cuts(slashes, t), Stand(slashes)) \in Nat
        BY <1>0, <2>2, SumOfSlashes
      <4> QED
        BY <2>2, <2>5, <3>1, <4>1, DeductedIs
    <3>3. \A t \in StakeIds : b[t].amount <= book[t].amount /\ b[t].amount \in Nat
      <4>1. \A t \in StakeIds : b[t].amount \in Nat
        BY <2>4 DEF Books, Stake
      <4> QED
        BY <1>a, <2>2, <2>3, <2>4, <4>1
    <3>4. AmountsAccounted'
      BY <1>a, <1>b, <2>5, <3>1, <3>2, <3>3 DEF AmountsAccounted
    <3>5. SavedInv' /\ LagInv' /\ JobInv'
      BY <2>7, <3>1 DEF SavedInv, LagInv, JobInv
    <3> QED
      BY <3>4, <3>5 DEF Accounts
  <2> QED
    BY <2>6, <2>7
<1>5. ASSUME NEW r \in SlashIds, RecordSlash(r) PROVE Accounts'
  <2> DEFINE new == [status |-> "open", cut |-> job.cut, appealed |-> FALSE, deadline |-> now + Window]
  <2>1. /\ ~Idle /\ slashes[r] = NoSlash /\ slashes' = [slashes EXCEPT ![r] = new] /\ job' = NoJob
        /\ UNCHANGED <<book, file, staked, torn>>
    BY <1>5 DEF RecordSlash, history
  <2>2. slashes'[r] = new /\ \A q \in SlashIds \ {r} : slashes'[q] = slashes[q]
    BY <1>0, <2>1 DEF Slashes
  <2>3. ASSUME NEW s \in StakeIds PROVE Deducted(s)' = Deducted(s)
    <3>1. PICK rest \in Nat :
            /\ Deducted(s) = rest + Share(slashes, r, s) + IF Idle THEN 0 ELSE job.cut[s]
            /\ Deducted(s)' = rest + Share(slashes', r, s) + IF Idle' THEN 0 ELSE job'.cut[s]
      BY <1>0, <2>2, DeductedByOthers
    <3>2. Share(slashes, r, s) = 0 /\ Share(slashes', r, s) = job.cut[s]
      BY <2>1, <2>2 DEF Share, NoSlash, NoCut
    <3>3. Idle' /\ job.cut[s] \in Nat
      BY <1>0, <2>1 DEF Idle, TypeOK, Job
    <3> QED
      BY <2>1, <3>1, <3>2, <3>3
  <2>4. AmountsAccounted'
    BY <1>b, <2>1, <2>3 DEF AmountsAccounted
  <2> QED
    BY <1>b, <2>1, <2>4 DEF Accounts, JobInv, SavedInv, LagInv, Saveable, Idle
<1>6. ASSUME NEW r \in SlashIds, slashes' = [slashes EXCEPT ![r] = slashes'[r]],
             slashes'[r].cut = slashes[r].cut,
             slashes[r].status # "accepted" /\ slashes'[r].status # "accepted",
             UNCHANGED <<book, file, job, staked, torn>>
      PROVE  Accounts'
  <2>1. \A q \in SlashIds \ {r} : slashes'[q] = slashes[q]
    BY <1>0, <1>6 DEF Slashes
  <2>2. ASSUME NEW s \in StakeIds PROVE Deducted(s)' = Deducted(s)
    <3>1. PICK rest \in Nat :
            /\ Deducted(s) = rest + Share(slashes, r, s) + IF Idle THEN 0 ELSE job.cut[s]
            /\ Deducted(s)' = rest + Share(slashes', r, s) + IF Idle' THEN 0 ELSE job'.cut[s]
      BY <1>0, <2>1, DeductedByOthers
    <3> QED
      BY <1>6, <3>1 DEF Share, Idle
  <2>3. AmountsAccounted'
    BY <1>b, <1>6, <2>2 DEF AmountsAccounted
  <2> QED
    BY <1>b, <1>6, <2>3 DEF Accounts, JobInv, SavedInv, LagInv, Saveable, Idle
<1>7. ASSUME NEW r \in SlashIds, NEW st \in {"expired", "rejected"},
             slashes' = [slashes EXCEPT ![r].status = st], slashes[r].status = "open",
             UNCHANGED <<book, file, job, staked, torn>>
      PROVE  Accounts'
  <2>1. slashes'[r].status = st /\ slashes'[r].cut = slashes[r].cut
        /\ slashes' = [slashes EXCEPT ![r] = slashes'[r]]
    BY <1>0, <1>7 DEF Slashes, Slash
  <2> QED
    BY <1>6, <1>7, <2>1
<1>8. ASSUME NEW r \in SlashIds, FileAppeal(r) PROVE Accounts'
  <2>1. slashes[r].status = "open" /\ UNCHANGED <<book, file, job, staked, torn>>
    BY <1>8 DEF FileAppeal, history
  <2>2. CASE slashes' = [slashes EXCEPT ![r].status = "expired"]
    BY <1>7, <2>1, <2>2
  <2>3. CASE slashes' = [slashes EXCEPT ![r].appealed = TRUE]
    <3>1. slashes'[r].status = "open" /\ slashes'[r].cut = slashes[r].cut
          /\ slashes' = [slashes EXCEPT ![r] = slashes'[r]]
      BY <1>0, <2>1, <2>3 DEF Slashes, Slash
    <3> QED
      BY <1>6, <2>1, <3>1
  <2> QED
    BY <1>8, <2>2, <2>3 DEF FileAppeal
<1>9. ASSUME NEW r \in SlashIds, DecideAppeal(r) PROVE Accounts'
  <2>1. /\ Idle /\ slashes[r].status = "open" /\ UNCHANGED <<job, staked, torn>>
    BY <1>9 DEF DecideAppeal, history
  <2>2. CASE AppealLapses(r) \/ RejectAppeal(r)
    <3>1. PICK st \in {"expired", "rejected"} : slashes' = [slashes EXCEPT ![r].status = st]
      BY <2>2 DEF AppealLapses, RejectAppeal
    <3>2. UNCHANGED <<book, file>>
      BY <2>2 DEF AppealLapses, RejectAppeal
    <3> QED
      BY <1>7, <2>1, <3>1, <3>2
  <2>3. CASE AcceptAppeal(r)
    <3> DEFINE cut == slashes[r].cut
               b == [s \in StakeIds |-> IF slashes[r].cut[s] = 0 THEN book[s]
                                        ELSE Restored(book[s], slashes[r].cut[s])]
    <3>1. Save(b) /\ slashes' = [slashes EXCEPT ![r].status = "accepted"]
      BY <2>3 DEF AcceptAppeal
    <3>2. cut \in [StakeIds -> Nat]
      BY <1>0 DEF Slashes, Slash
    <3>3. ASSUME NEW s \in StakeIds
          PROVE  /\ b[s] \in Stake /\ b[s].status = book[s].status
                 /\ b[s].amount \in {book[s].amount, book[s].amount + cut[s]}
                 /\ book[s].status \in {"active", "unstaking"} => b[s].amount = book[s].amount + cut[s]
                 /\ b[s] = book[s] \/ (cut[s] # 0 /\ b[s].big /\ b[s].amount = book[s].amount + cut[s])
      <4>1. book[s] \in Stake /\ cut[s] \in Nat
        BY <1>0, <3>2 DEF Books
      <4>2. CASE cut[s] = 0
        BY <4>1, <4>2 DEF Stake
      <4>3. CASE cut[s] # 0
        <5> DEFINE c == cut[s]
        <5>1. b[s] = Restored(book[s], c) /\ c \in Nat
          BY <4>1, <4>3
        <5>2. Restored(book[s], c) \in Stake /\ Restored(book[s], c).status = book[s].status
          BY <4>1, <5>1, RestoredStake
        <5>3. \/ Restored(book[s], c) = book[s] /\ book[s].status \notin {"active", "unstaking"}
              \/ Restored(book[s], c).big /\ Restored(book[s], c).amount = book[s].amount + c
          BY <4>1 DEF Restored, Stake
        <5> QED
          BY <4>3, <5>1, <5>2, <5>3
      <4> QED
        BY <4>2, <4>3
    <3>4. b \in Books
      BY <3>3 DEF Books
    <3>5. \A s \in StakeIds : cut[s] \in Nat
      BY <3>2
    <3>6. /\ slashes'[r].status = "accepted"
          /\ \A q \in SlashIds \ {r} : slashes'[q] = slashes[q]
      BY <1>0, <3>1 DEF Slashes, Slash
    <3> HIDE DEF b
    <3>7. ASSUME NEW s \in StakeIds PROVE Deducted(s) = Deducted(s)' + cut[s]
      <4>1. PICK rest \in Nat :
              /\ Deducted(s) = rest + Share(slashes, r, s) + IF Idle THEN 0 ELSE job.cut[s]
              /\ Deducted(s)' = rest + Share(slashes', r, s) + IF Idle' THEN 0 ELSE job'.cut[s]
        BY <1>0, <3>6, DeductedByOthers
      <4>2. Share(slashes, r, s) = cut[s] /\ Share(slashes', r, s) = 0 /\ Idle'
        BY <2>1, <3>6 DEF Share, Idle
      <4> QED
        BY <2>1, <3>5, <4>1, <4>2
    <3> HIDE DEF cut
    <3>8. \A s \in StakeIds : b[s].amount + Deducted(s)' <= staked'[s]
                             /\ file[s].amount + Deducted(s)' <= staked'[s]
      BY <1>a, <1>b, <2>1, <3>3, <3>5, <3>7
    <3>9. ~torn' => \A s \in StakeIds :
            b[s].status \in {"active", "unstaking"} => b[s].amount + Deducted(s)' = staked'[s]
      BY <1>a, <1>b, <2>1, <3>3, <3>5, <3>7
    <3>10. ~torn' => \A s \in StakeIds :
             file[s].amount <= b[s].amount /\ (b[s].big => file[s].amount < b[s].amount)
      BY <1>a, <1>b, <2>1, <3>3, <3>5 DEF LagInv
    <3>11. AmountsAccounted' /\ SavedInv' /\ LagInv'
      BY <1>0, <1>a, <3>1, <3>4, <3>8, <3>9, <3>10, SaveAccounts
    <3> QED
      BY <2>1, <3>11 DEF Accounts, JobInv, Idle
  <2> QED
    BY <1>9, <2>2, <2>3 DEF DecideAppeal
<1>10. CASE Tick \/ UNCHANGED vars
  <2>1. UNCHANGED <<book, file, slashes, job, staked, torn>>
    BY <1>10 DEF Tick, history, vars
  <2>2. \A s \in StakeIds : Deducted(s)' = Deducted(s)
    BY <2>1, DeductedSame
  <2>3. AmountsAccounted'
    BY <1>b, <2>1, <2>2 DEF AmountsAccounted
  <2> QED
    BY <1>b, <2>1, <2>3 DEF Accounts, JobInv, SavedInv, LagInv, Saveable, Idle
<1>11. ASSUME Crash PROVE Accounts'
  <2>1. /\ book' = file /\ Idle' /\ UNCHANGED <<file, slashes, staked>>
        /\ torn' = (torn \/ (\E s \in StakeIds : file[s].amount # book[s].amount)
                          \/ (~Idle /\ job.cut # NoCut))
    BY <1>11 DEF Crash, Idle
  <2>2. ASSUME NEW s \in StakeIds
        PROVE  /\ Deducted(s)' <= Deducted(s)
               /\ Idle \/ job.cut = NoCut => Deducted(s)' = Deducted(s)
    <3>1. Sum(Cuts(slashes, s), Stand(slashes)) \in Nat /\ (~Idle => job.cut[s] \in Nat)
      BY <1>0, SumOfSlashes DEF TypeOK, Idle, Job
    <3>2. job.cut = NoCut => job.cut[s] = 0
      BY DEF NoCut
    <3> QED
      BY <2>1, <3>1, <3>2, DeductedIs
  <2>3. ~torn' => file = book
    <3>1. SUFFICES ASSUME ~torn' PROVE Saveable(book)
      BY <1>b DEF SavedInv
    <3>2. ~torn /\ \A s \in StakeIds : file[s].amount = book[s].amount
      BY <1>0, <2>1, <3>1 DEF TypeOK
    <3> QED
      BY <1>a, <1>b, <3>2 DEF LagInv, Saveable
  <2>4. ~torn' => ~torn /\ (Idle \/ job.cut = NoCut)
    BY <1>0, <2>1 DEF TypeOK
  <2>5. AmountsAccounted'
    BY <1>a, <1>b, <2>1, <2>2, <2>3, <2>4 DEF AmountsAccounted
  <2>6. LagInv' /\ SavedInv' /\ JobInv'
    <3>1. \A s \in StakeIds : ~file[s].big
      BY <1>0 DEF TypeOK, Saveable
    <3> QED
      BY <1>a, <2>1, <3>1 DEF LagInv, SavedInv, JobInv
  <2> QED
    BY <2>5, <2>6 DEF Accounts
<1>12. CASE Staking
  BY <1>1, <1>2, <1>12 DEF Staking
<1>13. CASE Slashing
  BY <1>3, <1>4, <1>5, <1>8, <1>9, <1>13 DEF Slashing
<1> QED
  BY <1>10, <1>11, <1>12, <1>13 DEF Next

-----------------------------------------------------------------------------
\* The inductive invariant holds in every reachable state.
THEOREM Inductive == Spec => []IInv
BY InitIInv, NextIInv, PTL DEF Spec

\* Every reachable state is well typed: amounts are natural numbers, the file
\* can be read back, and a slash only has active stakes before it.
THEOREM TypeCorrect == Spec => []TypeOK
BY Inductive, PTL DEF IInv

\* Nothing an owner was told about a stake is undone by a failing save or a
\* restart.
THEOREM AnswersStand == Spec => []AnswersAreDurable
BY Inductive, PTL DEF IInv

\* Whatever slashes, appeals, withdrawals, failing saves and restarts come, in
\* whatever order, no stake is larger than what was put in less what stands deducted
\* from it, in memory or in the file; and while nothing was lost it is just that
\* (slashStake, restoreStake, createSlash, decideAppeal).
THEOREM AmountsStand == Spec => []AmountsAccounted
<1>1. Init => IInv /\ Accounts
  BY InitIInv, InitAccounts
<1>2. IInv /\ Accounts /\ [Next]_vars => (IInv /\ Accounts)'
  BY NextIInv, AccountsKept
<1> QED
  BY <1>1, <1>2, PTL DEF Spec, Accounts
=============================================================================
