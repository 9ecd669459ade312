--------------------------- MODULE AccountLaneProofs ---------------------------
(***************************************************************************)
(* Proofs about PortfolioLane, for any jobs, accounts, queue depth and     *)
(* number of crashes: one writer per account, no job forgotten, closes     *)
(* first, and nobody passed except an open by a close.  The queue of an    *)
(* account is a sequence in which a step inserts one job and from which it *)
(* takes the first; the lemmas of the first section say what that does,    *)
(* the invariant's proof needs little else.                                *)
(*                                                                         *)
(* Then about PaperExecution, the orders the lane runs, for any intents,   *)
(* kinds of authority and number of mishaps: the records tell the truth,   *)
(* reconciliation sees what is half done and nothing else, and guards what *)
(* opens.  The invariant says what an order has on the books at every step *)
(* of its handler (Booked, Authorised, Told), what is left of an order     *)
(* that is not running (Kept, Backed) and what each receipt says (Entry,   *)
(* Truth).  The steps of an open are all one OpenMove, the steps of        *)
(* everybody else but Begin and Finish are all Quiet.  Cash that was       *)
(* counted twice leaves a record (CashInv), which outlasts a reset.        *)
(***************************************************************************)
EXTENDS PortfolioLane, PaperExecution, FiniteSetTheorems, SequenceTheorems, TLAPS

States == {"new", "waiting", "running", "refused", "lost"} \cup Settled

Elements(q) == {q[i] : i \in DOMAIN q}
Distinct(q) == \A i, k \in DOMAIN q : q[i] = q[k] => i = k
ClosesBeforeOpens(q) ==
  \A i, k \in DOMAIN q : i < k /\ ActionOf[q[i]] = "open" => ActionOf[q[k]] = "open"

WaitingFor(a, jb) == {j \in Jobs : AccountOf[j] = a /\ jb[j] = "waiting"}

-----------------------------------------------------------------------------
(* Insertion and removal                                                   *)

\* What InsertedAt returns: a longer sequence, with the job at its place and
\* the others around it.
LEMMA InsertedSeq ==
  ASSUME NEW q \in Seq(Jobs), NEW j \in Jobs, NEW k \in 1..Len(q) + 1
  PROVE  /\ InsertedAt(q, j, k) \in Seq(Jobs)
         /\ Len(InsertedAt(q, j, k)) = Len(q) + 1
         /\ DOMAIN InsertedAt(q, j, k) = 1..Len(q) + 1
         /\ \A i \in 1..Len(q) + 1 :
              InsertedAt(q, j, k)[i] = IF i < k THEN q[i] ELSE IF i = k THEN j ELSE q[i - 1]
<1> DEFINE s == InsertedAt(q, j, k)
<1>1. /\ Len(q) \in Nat
      /\ q \in [1..Len(q) -> Jobs]
      /\ DOMAIN q = 1..Len(q)
  BY LenProperties
<1>2. s \in [1..Len(q) + 1 -> Jobs]
  <2> SUFFICES ASSUME NEW i \in 1..Len(q) + 1
               PROVE  (IF i < k THEN q[i] ELSE IF i = k THEN j ELSE q[i - 1]) \in Jobs
    BY DEF InsertedAt
  <2>1. CASE i < k
    BY <1>1, <2>1
  <2>2. CASE i = k
    BY <2>2
  <2>3. CASE i > k
    <3>1. i - 1 \in 1..Len(q)
      BY <1>1, <2>3
    <3> QED
      BY <1>1, <2>3, <3>1
  <2> QED
    BY <1>1, <2>1, <2>2, <2>3
<1>3. s \in Seq(Jobs)
  BY <1>1, <1>2, SeqDef
<1>4. Len(s) = Len(q) + 1
  BY <1>1, <1>2, <1>3, LenProperties
<1> QED
  BY <1>1, <1>2, <1>3, <1>4 DEF InsertedAt

\* Inserting a job that was not in a queue of distinct jobs.
LEMMA InsertedElements ==
  ASSUME NEW q \in Seq(Jobs), NEW j \in Jobs, NEW k \in 1..Len(q) + 1,
         Distinct(q), j \notin Elements(q)
  PROVE  /\ Elements(InsertedAt(q, j, k)) = Elements(q) \cup {j}
         /\ Distinct(InsertedAt(q, j, k))
<1> DEFINE s == InsertedAt(q, j, k)
           old(i) == IF i < k THEN i ELSE i - 1
<1>1. /\ Len(q) \in Nat
      /\ DOMAIN q = 1..Len(q)
  BY LenProperties
<1>2. /\ DOMAIN s = 1..Len(q) + 1
      /\ \A i \in 1..Len(q) + 1 :
           s[i] = IF i < k THEN q[i] ELSE IF i = k THEN j ELSE q[i - 1]
  BY InsertedSeq
<1>3. \A i \in 1..Len(q) + 1 : i # k => old(i) \in DOMAIN q /\ s[i] = q[old(i)]
  BY <1>1, <1>2
<1>4. s[k] = j
  BY <1>1, <1>2
<1>5. Elements(s) \subseteq Elements(q) \cup {j}
  BY <1>2, <1>3, <1>4 DEF Elements
<1>6. ASSUME NEW i \in DOMAIN q PROVE q[i] \in Elements(s)
  <2> DEFINE m == IF i < k THEN i ELSE i + 1
  <2>1. m \in 1..Len(q) + 1 /\ m # k /\ old(m) = i
    BY <1>1
  <2> QED
    BY <1>2, <1>3, <2>1 DEF Elements
<1>7. j \in Elements(s)
  BY <1>1, <1>2, <1>4 DEF Elements
<1>8. Elements(s) = Elements(q) \cup {j}
  BY <1>5, <1>6, <1>7 DEF Elements
<1>9. Distinct(s)
  <2> SUFFICES ASSUME NEW m \in DOMAIN s, NEW n \in DOMAIN s, s[m] = s[n] PROVE m = n
    BY DEF Distinct
  <2>1. m \in 1..Len(q) + 1 /\ n \in 1..Len(q) + 1
    BY <1>2
  <2>2. CASE m = k \/ n = k
    BY <1>3, <1>4, <2>1, <2>2 DEF Elements
  <2>3. CASE m # k /\ n # k
    <3>1. old(m) = old(n)
      BY <1>3, <2>1, <2>3 DEF Distinct
    <3> QED
      BY <1>1, <2>1, <2>3, <3>1
  <2> QED
    BY <2>2, <2>3
<1> QED
  BY <1>8, <1>9

\* The place IsPlace allows keeps closes before opens.
LEMMA InsertedSorted ==
  ASSUME NEW q \in Seq(Jobs), NEW j \in Jobs, NEW k \in 1..Len(q) + 1,
         IsPlace(q, j, k), ClosesBeforeOpens(q)
  PROVE  ClosesBeforeOpens(InsertedAt(q, j, k))
<1> DEFINE s == InsertedAt(q, j, k)
<1>1. /\ Len(q) \in Nat
      /\ q \in [1..Len(q) -> Jobs]
      /\ DOMAIN q = 1..Len(q)
  BY LenProperties
<1>2. /\ DOMAIN s = 1..Len(q) + 1
      /\ \A i \in 1..Len(q) + 1 :
           s[i] = IF i < k THEN q[i] ELSE IF i = k THEN j ELSE q[i - 1]
  BY InsertedSeq
<1>3. \A i \in Jobs : ActionOf[i] \in {"open", "close"}
  BY JobAssumption
<1> SUFFICES ASSUME NEW m \in DOMAIN s, NEW n \in DOMAIN s, m < n, ActionOf[s[m]] = "open"
             PROVE  ActionOf[s[n]] = "open"
  BY DEF ClosesBeforeOpens
<1>4. m \in 1..Len(q) + 1 /\ n \in 1..Len(q) + 1
  BY <1>2
<1>5. CASE ActionOf[j] = "open"
  <2>1. k = Len(q) + 1
    BY <1>5 DEF IsPlace
  <2>2. m \in DOMAIN q /\ s[m] = q[m]
    BY <1>1, <1>2, <1>4, <2>1
  <2>3. CASE n = k
    BY <1>2, <1>4, <1>5, <2>3
  <2>4. CASE n < k
    <3>1. n \in DOMAIN q /\ s[n] = q[n]
      BY <1>1, <1>2, <1>4, <2>4, <2>1
    <3> QED
      BY <2>2, <3>1 DEF ClosesBeforeOpens
  <2> QED
    BY <1>1, <1>4, <2>1, <2>3, <2>4
<1>6. CASE ActionOf[j] = "close"
  <2>1. /\ \A i \in 1..k - 1 : ActionOf[q[i]] = "close"
        /\ k <= Len(q) => ActionOf[q[k]] = "open"
    BY <1>6 DEF IsPlace
  <2>2. m > k
    <3>1. ~(m < k)
      BY <1>1, <1>2, <1>4, <2>1
    <3>2. m # k
      BY <1>2, <1>4, <1>6
    <3> QED
      BY <1>1, <1>4, <3>1, <3>2
  <2>3. /\ m - 1 \in DOMAIN q /\ n - 1 \in DOMAIN q /\ m - 1 < n - 1
        /\ s[m] = q[m - 1] /\ s[n] = q[n - 1]
    BY <1>1, <1>2, <1>4, <2>2
  <2> QED
    BY <2>3 DEF ClosesBeforeOpens
<1> QED
  BY <1>3, <1>5, <1>6

\* Taking the first of a queue.
LEMMA TailElements ==
  ASSUME NEW q \in Seq(Jobs), q # <<>>
  PROVE  /\ Head(q) \in Jobs /\ Head(q) = q[1]
         /\ Tail(q) \in Seq(Jobs)
         /\ Len(Tail(q)) = Len(q) - 1
         /\ DOMAIN Tail(q) = 1..Len(q) - 1
         /\ \A i \in DOMAIN Tail(q) : i + 1 \in DOMAIN q /\ Tail(q)[i] = q[i + 1]
         /\ Head(q) \in Elements(q)
         /\ Distinct(q) => Elements(Tail(q)) = Elements(q) \ {Head(q)} /\ Distinct(Tail(q))
         /\ ClosesBeforeOpens(q) => ClosesBeforeOpens(Tail(q))
<1>1. /\ Len(q) \in Nat \ {0}
      /\ q \in [1..Len(q) -> Jobs]
      /\ DOMAIN q = 1..Len(q)
  BY LenProperties, EmptySeq
<1>2. /\ Head(q) \in Jobs /\ Head(q) = q[1]
      /\ Tail(q) \in Seq(Jobs)
      /\ Len(Tail(q)) = Len(q) - 1
      /\ \A i \in 1..Len(Tail(q)) : Tail(q)[i] = q[i + 1]
  BY HeadTailProperties
<1>3. DOMAIN Tail(q) = 1..Len(q) - 1
  BY <1>2, LenProperties
<1>4. \A i \in DOMAIN Tail(q) : i + 1 \in DOMAIN q /\ Tail(q)[i] = q[i + 1]
  BY <1>1, <1>2, <1>3
<1>5. Head(q) \in Elements(q)
  BY <1>1, <1>2 DEF Elements
<1>6. ASSUME Distinct(q)
      PROVE  Elements(Tail(q)) = Elements(q) \ {Head(q)} /\ Distinct(Tail(q))
  <2>1. ASSUME NEW i \in DOMAIN Tail(q) PROVE Tail(q)[i] \in Elements(q) \ {Head(q)}
    <3>1. i + 1 # 1 /\ 1 \in DOMAIN q
      BY <1>1, <1>3
    <3> QED
      BY <1>2, <1>4, <1>6, <3>1 DEF Elements, Distinct
  <2>2. ASSUME NEW i \in DOMAIN q, q[i] # Head(q) PROVE q[i] \in Elements(Tail(q))
    <3>1. i - 1 \in DOMAIN Tail(q) /\ Tail(q)[i - 1] = q[i]
      BY <1>1, <1>2, <1>3, <1>4, <2>2
    <3> QED
      BY <3>1 DEF Elements
  <2>3. Distinct(Tail(q))
    BY <1>1, <1>3, <1>4, <1>6 DEF Distinct
  <2> QED
    BY <2>1, <2>2, <2>3 DEF Elements
<1>7. ASSUME ClosesBeforeOpens(q) PROVE ClosesBeforeOpens(Tail(q))
  BY <1>1, <1>3, <1>4, <1>7 DEF ClosesBeforeOpens
<1> QED
  BY <1>2, <1>3, <1>4, <1>5, <1>6, <1>7

-----------------------------------------------------------------------------
(* The inductive invariant                                                 *)

\* A job that runs has its lane's slot.
RunningActive == \A j \in Jobs : job[j] = "running" => active[AccountOf[j]]

QueuesSorted == \A a \in Accounts : ClosesBeforeOpens(queue[a])

IInv == TypeOK /\ OneWriter /\ NoneForgotten /\ RunningActive /\ QueuesSorted

\* NoneForgotten, lane by lane.
LaneHolds(a, q, jb) == Elements(q) = WaitingFor(a, jb) /\ Distinct(q)

LEMMA NoneForgottenByLane ==
  NoneForgotten <=>
    \A a \in Accounts : LaneHolds(a, queue[a], job) /\ (queue[a] # <<>> => active[a])
BY DEF NoneForgotten, LaneHolds, Elements, WaitingFor, Distinct

LEMMA InitIInv == Init => IInv
<1> SUFFICES ASSUME Init PROVE IInv
  OBVIOUS
<1>1. TypeOK
  BY BoundAssumption, EmptySeq DEF Init, TypeOK
<1>2. OneWriter /\ NoneForgotten /\ RunningActive /\ QueuesSorted
  BY DEF Init, OneWriter, NoneForgotten, RunningActive, QueuesSorted, ClosesBeforeOpens
<1> QED
  BY <1>1, <1>2 DEF IInv

\* drain, from a lane whose slot nobody uses: q is its queue and jb says how far
\* the jobs got.
LEMMA DrainKeeps ==
  ASSUME IInv, NEW a \in Accounts, NEW q \in Seq(Jobs), NEW jb \in [Jobs -> States],
         Len(q) <= MaxDepth, LaneHolds(a, q, jb), ClosesBeforeOpens(q),
         \A j \in Jobs : AccountOf[j] # a => jb[j] = job[j],
         \A j \in Jobs : AccountOf[j] = a => jb[j] # "running",
         Drain(a, q, jb), UNCHANGED crashes
  PROVE  IInv'
<1> USE JobAssumption
<1>1. \A b \in Accounts : b # a =>
        /\ queue'[b] = queue[b]
        /\ active'[b] = active[b]
        /\ \A j \in Jobs : AccountOf[j] = b => job'[j] = job[j]
  <2>1. CASE q = <<>>
    BY <2>1 DEF Drain, IInv, TypeOK
  <2>2. CASE q # <<>>
    <3>1. Head(q) \in Jobs /\ AccountOf[Head(q)] = a
      BY <2>2, TailElements DEF LaneHolds, WaitingFor
    <3> QED
      BY <2>2, <3>1 DEF Drain, IInv, TypeOK
  <2> QED
    BY <2>1, <2>2
<1>2. /\ job' \in [Jobs -> States]
      /\ active' \in [Accounts -> BOOLEAN]
      /\ queue' \in [Accounts -> Seq(Jobs)]
      /\ Len(queue'[a]) <= MaxDepth
      /\ LaneHolds(a, queue'[a], job')
      /\ ClosesBeforeOpens(queue'[a])
      /\ queue'[a] # <<>> => active'[a]
      /\ \A j \in Jobs : AccountOf[j] = a /\ job'[j] = "running" => active'[a] /\ q # <<>> /\ j = Head(q)
  <2>1. CASE q = <<>>
    BY <2>1 DEF Drain, IInv, TypeOK
  <2>2. CASE q # <<>>
    <3>1. /\ Head(q) \in Jobs /\ Head(q) \in Elements(q)
          /\ Tail(q) \in Seq(Jobs)
          /\ Len(Tail(q)) = Len(q) - 1
          /\ Elements(Tail(q)) = Elements(q) \ {Head(q)}
          /\ Distinct(Tail(q)) /\ ClosesBeforeOpens(Tail(q))
      BY <2>2, TailElements DEF LaneHolds
    <3>2. /\ active' = [active EXCEPT ![a] = TRUE]
          /\ queue' = [queue EXCEPT ![a] = Tail(q)]
          /\ job' = [jb EXCEPT ![Head(q)] = "running"]
      BY <2>2 DEF Drain
    <3>3. /\ job' \in [Jobs -> States]
          /\ active' \in [Accounts -> BOOLEAN] /\ active'[a]
          /\ queue' \in [Accounts -> Seq(Jobs)] /\ queue'[a] = Tail(q)
      BY <3>1, <3>2 DEF IInv, TypeOK, States
    <3>4. Len(q) \in Nat
      BY LenProperties
    <3>5. WaitingFor(a, job') = WaitingFor(a, jb) \ {Head(q)}
      BY <3>1, <3>2 DEF WaitingFor
    <3>6. \A j \in Jobs : AccountOf[j] = a /\ job'[j] = "running" => j = Head(q)
      BY <3>2
    <3> QED
      BY <2>2, <3>1, <3>3, <3>4, <3>5, <3>6, BoundAssumption DEF LaneHolds
  <2> QED
    BY <2>1, <2>2
<1>3. TypeOK'
  BY <1>1, <1>2 DEF IInv, TypeOK, States
<1>4. OneWriter'
  <2> SUFFICES ASSUME NEW i \in Jobs, NEW j \in Jobs,
                      job'[i] = "running", job'[j] = "running", AccountOf[i] = AccountOf[j]
               PROVE  i = j
    BY DEF OneWriter
  <2>1. CASE AccountOf[i] = a
    BY <1>2, <2>1
  <2>2. CASE AccountOf[i] # a
    <3>1. AccountOf[i] \in Accounts /\ job[i] = "running" /\ job[j] = "running"
      BY <1>1, <2>2
    <3> QED
      BY <3>1 DEF IInv, OneWriter
  <2> QED
    BY <2>1, <2>2
<1>5. NoneForgotten'
  <2>1. ASSUME NEW b \in Accounts, b # a
        PROVE  LaneHolds(b, queue'[b], job') /\ (queue'[b] # <<>> => active'[b])
    <3>1. WaitingFor(b, job') = WaitingFor(b, job)
      BY <1>1, <2>1 DEF WaitingFor
    <3> QED
      BY <1>1, <2>1, <3>1, NoneForgottenByLane DEF IInv, LaneHolds
  <2> QED
    BY <1>2, <2>1 DEF NoneForgotten, LaneHolds, Elements, WaitingFor, Distinct
<1>6. RunningActive'
  BY <1>1, <1>2 DEF IInv, RunningActive
<1>7. QueuesSorted'
  BY <1>1, <1>2 DEF IInv, QueuesSorted
<1> QED
  BY <1>3, <1>4, <1>5, <1>6, <1>7 DEF IInv

\* What a job's insertion makes of its lane, before anything is drained.
LEMMA InsertedLane ==
  ASSUME IInv, NEW j \in Jobs, job[j] = "new",
         NEW k \in 1..Len(queue[AccountOf[j]]) + 1, IsPlace(queue[AccountOf[j]], j, k)
  PROVE  LET q == InsertedAt(queue[AccountOf[j]], j, k)
             jb == [job EXCEPT ![j] = "waiting"]
         IN  /\ q \in Seq(Jobs) /\ Len(q) = Len(queue[AccountOf[j]]) + 1
             /\ jb \in [Jobs -> States]
             /\ LaneHolds(AccountOf[j], q, jb)
             /\ ClosesBeforeOpens(q)
<1> DEFINE a == AccountOf[j]
           q == InsertedAt(queue[a], j, k)
           jb == [job EXCEPT ![j] = "waiting"]
<1>1. /\ a \in Accounts /\ queue[a] \in Seq(Jobs)
      /\ LaneHolds(a, queue[a], job)
      /\ ClosesBeforeOpens(queue[a])
  BY JobAssumption, NoneForgottenByLane DEF IInv, TypeOK, QueuesSorted
<1>2. j \notin Elements(queue[a])
  BY <1>1 DEF LaneHolds, WaitingFor
<1>3. /\ q \in Seq(Jobs) /\ Len(q) = Len(queue[a]) + 1
      /\ Elements(q) = Elements(queue[a]) \cup {j} /\ Distinct(q)
      /\ ClosesBeforeOpens(q)
  BY <1>1, <1>2, InsertedSeq, InsertedElements, InsertedSorted DEF LaneHolds
<1>4. jb \in [Jobs -> States] /\ WaitingFor(a, jb) = WaitingFor(a, job) \cup {j}
  BY DEF IInv, TypeOK, States, WaitingFor
<1> QED
  BY <1>1, <1>3, <1>4 DEF LaneHolds

LEMMA SubmitKeeps == ASSUME IInv, NEW j \in Jobs, Submit(j) PROVE IInv'
<1> DEFINE a == AccountOf[j]
           jb == [job EXCEPT ![j] = "waiting"]
<1> USE JobAssumption
<1>1. PICK k \in 1..Len(queue[a]) + 1 :
        /\ IsPlace(queue[a], j, k)
        /\ IF active[a]
           THEN /\ queue' = [queue EXCEPT ![a] = InsertedAt(queue[a], j, k)]
                /\ job' = jb
                /\ UNCHANGED active
           ELSE Drain(a, InsertedAt(queue[a], j, k), jb)
  BY DEF Submit
<1> DEFINE q == InsertedAt(queue[a], j, k)
<1>2. /\ a \in Accounts /\ job[j] = "new" /\ Len(queue[a]) < MaxDepth /\ UNCHANGED crashes
      /\ queue[a] \in Seq(Jobs) /\ Len(queue[a]) \in Nat
  BY LenProperties DEF Submit, IInv, TypeOK
<1>3. /\ q \in Seq(Jobs) /\ Len(q) = Len(queue[a]) + 1 /\ q # <<>>
      /\ jb \in [Jobs -> States]
      /\ LaneHolds(a, q, jb)
      /\ ClosesBeforeOpens(q)
  <2>1. /\ q \in Seq(Jobs) /\ Len(q) = Len(queue[a]) + 1
        /\ jb \in [Jobs -> States]
        /\ LaneHolds(a, q, jb)
        /\ ClosesBeforeOpens(q)
    BY <1>1, <1>2, InsertedLane
  <2> QED
    BY <1>2, <2>1, EmptySeq
<1>4. Len(q) <= MaxDepth
  BY <1>2, <1>3, BoundAssumption
<1>5. \A i \in Jobs : AccountOf[i] # a => jb[i] = job[i]
  BY DEF IInv, TypeOK
<1>6. CASE ~active[a]
  <2>1. \A i \in Jobs : AccountOf[i] = a => jb[i] # "running"
    BY <1>6 DEF IInv, TypeOK, RunningActive
  <2>2. Drain(a, q, jb)
    BY <1>1, <1>6
  <2> HIDE DEF a, q, jb
  <2> QED
    BY <1>2, <1>3, <1>4, <1>5, <2>1, <2>2, DrainKeeps
<1>7. CASE active[a]
  <2>1. queue' = [queue EXCEPT ![a] = q] /\ job' = jb /\ active' = active
    BY <1>1, <1>7
  <2>2. TypeOK'
    BY <1>2, <1>3, <1>4, <2>1 DEF IInv, TypeOK, States
  <2>3. \A i \in Jobs : job'[i] = "running" <=> job[i] = "running"
    BY <1>2, <2>1 DEF IInv, TypeOK
  <2>4. OneWriter' /\ RunningActive'
    BY <2>1, <2>3 DEF IInv, OneWriter, RunningActive
  <2>5. NoneForgotten'
    <3>1. ASSUME NEW b \in Accounts
          PROVE  LaneHolds(b, queue'[b], job') /\ (queue'[b] # <<>> => active'[b])
      <4>1. CASE b = a
        BY <1>2, <1>3, <1>7, <2>1, <4>1 DEF IInv, TypeOK
      <4>2. CASE b # a
        <5>1. WaitingFor(b, job') = WaitingFor(b, job)
          BY <1>5, <2>1, <4>2 DEF WaitingFor
        <5> QED
          BY <2>1, <4>2, <5>1, NoneForgottenByLane DEF IInv, TypeOK, LaneHolds
      <4> QED
        BY <4>1, <4>2
    <3> QED
      BY <3>1 DEF NoneForgotten, LaneHolds, Elements, WaitingFor, Distinct
  <2>6. QueuesSorted'
    BY <1>2, <1>3, <2>1 DEF IInv, TypeOK, QueuesSorted
  <2> QED
    BY <2>2, <2>4, <2>5, <2>6 DEF IInv
<1> QED
  BY <1>6, <1>7

LEMMA ReleaseKeeps == ASSUME IInv, NEW a \in Accounts, Release(a) PROVE IInv'
<1>1. /\ queue[a] \in Seq(Jobs) /\ Len(queue[a]) <= MaxDepth
      /\ job \in [Jobs -> States]
      /\ LaneHolds(a, queue[a], job)
      /\ ClosesBeforeOpens(queue[a])
  BY NoneForgottenByLane DEF IInv, TypeOK, States, QueuesSorted
<1>2. /\ \A j \in Jobs : AccountOf[j] = a => job[j] # "running"
      /\ Drain(a, queue[a], job)
      /\ UNCHANGED crashes
  BY DEF Release
<1> QED
  BY <1>1, <1>2, DrainKeeps

LEMMA NextIInv == IInv /\ [Next]_vars => IInv'
<1> SUFFICES ASSUME IInv, [Next]_vars PROVE IInv'
  OBVIOUS
<1>1. ASSUME NEW j \in Jobs, Refuse(j) PROVE IInv'
  <2>1. \A i \in Jobs : /\ job'[i] = "waiting" <=> job[i] = "waiting"
                       /\ job'[i] = "running" <=> job[i] = "running"
    BY <1>1 DEF Refuse, IInv, TypeOK
  <2> QED
    BY <1>1, <2>1 DEF Refuse, IInv, TypeOK, Settled, OneWriter, NoneForgotten, RunningActive, QueuesSorted
<1>2. ASSUME NEW j \in Jobs, NEW outcome \in Settled, Settle(j, outcome) PROVE IInv'
  <2>1. \A i \in Jobs : /\ job'[i] = "waiting" <=> job[i] = "waiting"
                       /\ job'[i] = "running" => job[i] = "running"
    BY <1>2 DEF Settle, Settled, IInv, TypeOK
  <2> QED
    BY <1>2, <2>1 DEF Settle, IInv, TypeOK, Settled, OneWriter, NoneForgotten, RunningActive, QueuesSorted
<1>3. ASSUME Crash PROVE IInv'
  <2>1. \A i \in Jobs : job'[i] # "waiting" /\ job'[i] # "running"
    BY <1>3 DEF Crash, IInv, TypeOK
  <2>2. TypeOK'
    BY <1>3, EmptySeq, BoundAssumption DEF Crash, IInv, TypeOK
  <2>3. OneWriter' /\ RunningActive'
    BY <2>1 DEF OneWriter, RunningActive
  <2>4. NoneForgotten' /\ QueuesSorted'
    BY <1>3, <2>1 DEF Crash, NoneForgotten, QueuesSorted, ClosesBeforeOpens
  <2> QED
    BY <2>2, <2>3, <2>4 DEF IInv
<1>4. CASE UNCHANGED vars
  BY <1>4 DEF vars, IInv, TypeOK, OneWriter, NoneForgotten, RunningActive, QueuesSorted
<1> QED
  BY <1>1, <1>2, <1>3, <1>4, SubmitKeeps, ReleaseKeeps DEF Next, Working, Releasing

THEOREM Inductive == Spec => []IInv
<1> QED
  BY InitIInv, NextIInv, PTL DEF Spec

\* Every reachable state of the lane is well typed; in particular no queue is
\* ever longer than MAX_QUEUE_DEPTH.
THEOREM TypeCorrect == Spec => []TypeOK
<1>1. IInv => TypeOK
  BY DEF IInv
<1> QED
  BY <1>1, Inductive, PTL

\* No two operations of one account ever run at once (onePaperWriterPerAccount),
\* whatever is submitted between an operation's end and the lane's release.
THEOREM OneWriterAlways == Spec => []OneWriter
<1>1. IInv => OneWriter
  BY DEF IInv
<1> QED
  BY <1>1, Inductive, PTL

\* No job is lost from its queue, queued twice, or left waiting for a lane
\* whose slot is free.
THEOREM NobodyForgotten == Spec => []NoneForgotten
<1>1. IInv => NoneForgotten
  BY DEF IInv
<1> QED
  BY <1>1, Inductive, PTL

-----------------------------------------------------------------------------
(* What a step may do                                                      *)

\* drain starts at most the first of the queue, and nothing elsewhere.
LEMMA DrainStarts ==
  ASSUME NEW a \in Accounts, NEW q \in Seq(Jobs), NEW jb \in [Jobs -> States], Drain(a, q, jb),
         NEW o \in Jobs, job'[o] = "running"
  PROVE  jb[o] = "running" \/ (q # <<>> /\ o = Head(q))
<1>1. CASE q = <<>>
  BY <1>1 DEF Drain
<1>2. CASE q # <<>>
  <2>1. job' = [jb EXCEPT ![Head(q)] = "running"] /\ Head(q) \in Jobs
    BY <1>2, TailElements DEF Drain
  <2> QED
    BY <1>2, <2>1
<1> QED
  BY <1>1, <1>2

\* An open that a step starts leaves no close of its account waiting.
LEMMA StartsOpenLast ==
  ASSUME IInv, Next,
         NEW c \in Jobs, ActionOf[c] = "close", job[c] = "waiting", job'[c] = "waiting",
         NEW o \in Jobs, AccountOf[o] = AccountOf[c], ActionOf[o] = "open", job'[o] = "running"
  PROVE  job[o] = "running"
<1> DEFINE b == AccountOf[c]
<1> USE JobAssumption
<1>1. /\ b \in Accounts /\ queue[b] \in Seq(Jobs)
      /\ LaneHolds(b, queue[b], job) /\ ClosesBeforeOpens(queue[b])
      /\ queue[b] # <<>> => active[b]
      /\ job \in [Jobs -> States]
  BY NoneForgottenByLane DEF IInv, TypeOK, States, QueuesSorted
<1>2. PICK n \in DOMAIN queue[b] : queue[b][n] = c
  BY <1>1 DEF LaneHolds, WaitingFor, Elements
<1>3. active[b]
  BY <1>1, <1>2
<1>4. ASSUME NEW j \in Jobs, Submit(j) PROVE job[o] = "running"
  <2> DEFINE a == AccountOf[j]
             jb == [job EXCEPT ![j] = "waiting"]
  <2>1. PICK k \in 1..Len(queue[a]) + 1 :
          /\ IsPlace(queue[a], j, k)
          /\ IF active[a]
             THEN /\ queue' = [queue EXCEPT ![a] = InsertedAt(queue[a], j, k)]
                  /\ job' = jb
                  /\ UNCHANGED active
             ELSE Drain(a, InsertedAt(queue[a], j, k), jb)
    BY <1>4 DEF Submit
  <2>2. job[j] = "new" /\ a \in Accounts
    BY <1>4 DEF Submit
  <2>3. CASE active[a]
    BY <1>1, <2>1, <2>3
  <2>4. CASE ~active[a]
    <3> DEFINE q == InsertedAt(queue[a], j, k)
    <3>1. /\ q \in Seq(Jobs) /\ LaneHolds(a, q, jb) /\ jb \in [Jobs -> States]
      BY <2>1, <2>2, InsertedLane
    <3>2. Drain(a, q, jb)
      BY <2>1, <2>4
    <3>3. q # <<>> => AccountOf[Head(q)] = a
      BY <3>1, TailElements DEF LaneHolds, WaitingFor
    <3>4. a # b
      BY <1>3, <2>4
    <3> HIDE DEF q, a, jb
    <3>5. jb[o] = "running"
      BY <3>1, <3>2, <3>3, <3>4, <2>2, DrainStarts
    <3> QED
      BY <1>1, <3>5 DEF jb
  <2> QED
    BY <2>3, <2>4
<1>5. ASSUME NEW a \in Accounts, Release(a) PROVE job[o] = "running"
  <2>1. Drain(a, queue[a], job) /\ queue[a] \in Seq(Jobs) /\ LaneHolds(a, queue[a], job)
    BY <1>5, NoneForgottenByLane DEF Release, IInv, TypeOK
  <2> SUFFICES ASSUME queue[a] # <<>>, o = Head(queue[a]) PROVE FALSE
    BY <1>1, <2>1, DrainStarts
  <2>2. o = queue[a][1] /\ o \in Elements(queue[a])
    BY <2>1, TailElements
  <2>3. a = b
    BY <2>1, <2>2 DEF LaneHolds, WaitingFor
  <2>4. n # 1
    BY <1>2, <2>2, <2>3
  <2>5. n \in 1..Len(queue[b]) /\ Len(queue[b]) \in Nat /\ DOMAIN queue[b] = 1..Len(queue[b])
    BY <1>1, <1>2, LenProperties
  <2>6. 1 \in DOMAIN queue[b] /\ 1 < n
    BY <2>4, <2>5
  <2>7. ActionOf[queue[b][n]] = "open"
    BY <1>1, <2>2, <2>3, <2>6 DEF ClosesBeforeOpens
  <2> QED
    BY <1>2, <2>7
<1>6. ASSUME NEW j \in Jobs, Refuse(j) PROVE job[o] = "running"
  BY <1>1, <1>6 DEF Refuse
<1>7. ASSUME NEW j \in Jobs, NEW outcome \in Settled, Settle(j, outcome) PROVE job[o] = "running"
  BY <1>1, <1>7 DEF Settle, Settled
<1>8. CASE Crash
  BY <1>8 DEF Crash
<1> QED
  BY <1>4, <1>5, <1>6, <1>7, <1>8 DEF Next, Working, Releasing

\* No step starts an open while a close of the same account is kept waiting.
THEOREM ClosesStartFirst == Spec => ClosesFirst
<1>1. IInv /\ [Next]_vars =>
        [\A c \in Jobs :
           ActionOf[c] = "close" /\ job[c] = "waiting" /\ job'[c] = "waiting" =>
             \A o \in Jobs :
               /\ AccountOf[o] = AccountOf[c]
               /\ ActionOf[o] = "open"
               /\ job'[o] = "running"
               => job[o] = "running"]_vars
  BY StartsOpenLast
<1> QED
  BY <1>1, Inductive, PTL DEF Spec, ClosesFirst

-----------------------------------------------------------------------------
(* First in, first out                                                     *)

\* Nobody in q is passed in s, except an open by a close.
InTurn(q, s) ==
  \A k \in DOMAIN q : \A m, n \in DOMAIN s :
    s[n] = q[k] /\ m < n =>
      \/ \E i \in 1..k - 1 : s[m] = q[i]
      \/ ActionOf[q[k]] = "open" /\ ActionOf[s[m]] = "close"

LEMMA SameInTurn == ASSUME NEW q \in Seq(Jobs), Distinct(q) PROVE InTurn(q, q)
<1>1. DOMAIN q = 1..Len(q) /\ Len(q) \in Nat
  BY LenProperties
<1> QED
  BY <1>1 DEF InTurn, Distinct

LEMMA TailInTurn ==
  ASSUME NEW q \in Seq(Jobs), q # <<>>, Distinct(q)
  PROVE  InTurn(q, Tail(q))
<1>1. /\ DOMAIN q = 1..Len(q) /\ Len(q) \in Nat
      /\ DOMAIN Tail(q) = 1..Len(q) - 1
      /\ \A i \in DOMAIN Tail(q) : i + 1 \in DOMAIN q /\ Tail(q)[i] = q[i + 1]
  BY LenProperties, TailElements
<1> SUFFICES ASSUME NEW k \in DOMAIN q, NEW m \in DOMAIN Tail(q), NEW n \in DOMAIN Tail(q),
                    Tail(q)[n] = q[k], m < n
             PROVE  \E i \in 1..k - 1 : Tail(q)[m] = q[i]
  BY DEF InTurn
<1>2. n + 1 = k
  BY <1>1 DEF Distinct
<1>3. m + 1 \in 1..k - 1
  BY <1>1, <1>2
<1> QED
  BY <1>1, <1>3

LEMMA InsertedInTurn ==
  ASSUME NEW q \in Seq(Jobs), NEW j \in Jobs, NEW p \in 1..Len(q) + 1, IsPlace(q, j, p),
         Distinct(q), j \notin Elements(q), ClosesBeforeOpens(q)
  PROVE  InTurn(q, InsertedAt(q, j, p))
<1> DEFINE s == InsertedAt(q, j, p)
<1>1. /\ DOMAIN q = 1..Len(q) /\ Len(q) \in Nat
      /\ DOMAIN s = 1..Len(q) + 1
      /\ \A i \in 1..Len(q) + 1 :
           s[i] = IF i < p THEN q[i] ELSE IF i = p THEN j ELSE q[i - 1]
  BY LenProperties, InsertedSeq
<1> HIDE DEF s
<1> SUFFICES ASSUME NEW k \in DOMAIN q, NEW m \in DOMAIN s, NEW n \in DOMAIN s,
                    s[n] = q[k], m < n
             PROVE  \/ \E i \in 1..k - 1 : s[m] = q[i]
                    \/ ActionOf[q[k]] = "open" /\ ActionOf[s[m]] = "close"
  BY DEF InTurn, s
<1>2. m \in 1..Len(q) + 1 /\ n \in 1..Len(q) + 1 /\ k \in 1..Len(q)
  BY <1>1
<1>3. n # p
  BY <1>1, <1>2 DEF Elements
<1>4. k = IF n < p THEN n ELSE n - 1
  <2>1. CASE n < p
    <3>1. n \in DOMAIN q /\ q[n] = q[k]
      BY <1>1, <1>2, <2>1
    <3> QED
      BY <2>1, <3>1 DEF Distinct
  <2>2. CASE n > p
    <3>1. n - 1 \in DOMAIN q /\ q[n - 1] = q[k]
      BY <1>1, <1>2, <2>2
    <3> QED
      BY <1>2, <2>2, <3>1 DEF Distinct
  <2> QED
    BY <1>2, <1>3, <2>1, <2>2
<1>5. CASE m < p
  <2>1. m \in 1..k - 1 /\ s[m] = q[m]
    BY <1>1, <1>2, <1>3, <1>4, <1>5
  <2> QED
    BY <2>1
<1>6. CASE m > p
  <2>1. m - 1 \in 1..k - 1 /\ s[m] = q[m - 1]
    BY <1>1, <1>2, <1>3, <1>4, <1>6
  <2> QED
    BY <2>1
<1>7. CASE m = p
  <2>1. s[m] = j /\ p \in DOMAIN q /\ p <= k
    BY <1>1, <1>2, <1>3, <1>4, <1>7
  <2>2. ActionOf[j] = "close"
    <3>1. ActionOf[j] # "open"
      BY <1>1, <1>2, <2>1 DEF IsPlace
    <3> QED
      BY <3>1, JobAssumption
  <2>3. ActionOf[q[p]] = "open"
    BY <1>1, <1>2, <2>1, <2>2 DEF IsPlace
  <2>4. ActionOf[q[k]] = "open"
    BY <1>2, <2>1, <2>3 DEF ClosesBeforeOpens
  <2> QED
    BY <2>1, <2>2, <2>4
<1> QED
  BY <1>2, <1>5, <1>6, <1>7

\* What drain makes of the queue it is given, from a lane that had queue r.
LEMMA DrainedQueue ==
  ASSUME IInv, NEW a \in Accounts, NEW q \in Seq(Jobs), NEW jb, Drain(a, q, jb)
  PROVE  /\ queue'[a] = IF q = <<>> THEN q ELSE Tail(q)
         /\ \A b \in Accounts : b # a => queue'[b] = queue[b]
BY DEF Drain, IInv, TypeOK

LEMMA NextInTurn ==
  ASSUME IInv, Next, NEW b \in Accounts
  PROVE  InTurn(queue[b], queue'[b])
<1> USE JobAssumption
<1>1. \A a \in Accounts :
        /\ queue[a] \in Seq(Jobs) /\ Distinct(queue[a]) /\ ClosesBeforeOpens(queue[a])
        /\ Elements(queue[a]) = WaitingFor(a, job)
        /\ queue[a] # <<>> => active[a]
  BY NoneForgottenByLane DEF IInv, TypeOK, LaneHolds, QueuesSorted
<1>2. queue'[b] = queue[b] => InTurn(queue[b], queue'[b])
  BY <1>1, SameInTurn
<1>3. ASSUME NEW j \in Jobs, Submit(j) PROVE InTurn(queue[b], queue'[b])
  <2> DEFINE a == AccountOf[j]
             jb == [job EXCEPT ![j] = "waiting"]
  <2>1. PICK k \in 1..Len(queue[a]) + 1 :
          /\ IsPlace(queue[a], j, k)
          /\ IF active[a]
             THEN /\ queue' = [queue EXCEPT ![a] = InsertedAt(queue[a], j, k)]
                  /\ job' = jb
                  /\ UNCHANGED active
             ELSE Drain(a, InsertedAt(queue[a], j, k), jb)
    BY <1>3 DEF Submit
  <2>2. job[j] = "new" /\ a \in Accounts /\ j \notin Elements(queue[a])
    BY <1>1, <1>3 DEF Submit, WaitingFor
  <2>3. CASE active[a]
    <3>1. queue' = [queue EXCEPT ![a] = InsertedAt(queue[a], j, k)]
      BY <2>1, <2>3
    <3>2. InTurn(queue[a], InsertedAt(queue[a], j, k))
      BY <1>1, <2>1, <2>2, InsertedInTurn
    <3> QED
      BY <1>2, <3>1, <3>2 DEF IInv, TypeOK
  <2>4. CASE ~active[a]
    <3>1. b = a => DOMAIN queue[b] = {}
      BY <1>1, <2>2, <2>4
    <3>2. InsertedAt(queue[a], j, k) \in Seq(Jobs) /\ Drain(a, InsertedAt(queue[a], j, k), jb)
      BY <1>1, <2>1, <2>2, <2>4, InsertedSeq
    <3>3. b # a => queue'[b] = queue[b]
      BY <2>2, <3>2, DrainedQueue
    <3> QED
      BY <1>2, <3>1, <3>3 DEF InTurn
  <2> QED
    BY <2>3, <2>4
<1>4. ASSUME NEW a \in Accounts, Release(a) PROVE InTurn(queue[b], queue'[b])
  <2>1. /\ queue'[a] = IF queue[a] = <<>> THEN queue[a] ELSE Tail(queue[a])
        /\ b # a => queue'[b] = queue[b]
    BY <1>1, <1>4, DrainedQueue DEF Release
  <2> QED
    BY <1>1, <1>2, <2>1, TailInTurn
<1>5. ASSUME NEW j \in Jobs, Refuse(j) PROVE InTurn(queue[b], queue'[b])
  BY <1>2, <1>5 DEF Refuse
<1>6. ASSUME NEW j \in Jobs, NEW outcome \in Settled, Settle(j, outcome)
      PROVE  InTurn(queue[b], queue'[b])
  BY <1>2, <1>6 DEF Settle
<1>7. CASE Crash
  <2>1. DOMAIN queue'[b] = {}
    BY <1>7 DEF Crash
  <2> QED
    BY <2>1 DEF InTurn
<1> QED
  BY <1>3, <1>4, <1>5, <1>6, <1>7 DEF Next, Working, Releasing

\* Whoever waits is never passed by a later job, except an open by a close.
THEOREM FirstInFirstOut == Spec => PassedOnlyByCloses
<1>1. IInv /\ [Next]_vars =>
        [\A a \in Accounts : \A k \in DOMAIN queue[a] :
           \A m, n \in DOMAIN queue'[a] :
             queue'[a][n] = queue[a][k] /\ m < n =>
               \/ \E i \in 1..k - 1 : queue'[a][m] = queue[a][i]
               \/ ActionOf[queue[a][k]] = "open" /\ ActionOf[queue'[a][m]] = "close"]_vars
  <2>1. IInv /\ Next => \A a \in Accounts : InTurn(queue[a], queue'[a])
    BY NextInTurn
  <2> QED
    BY <2>1 DEF InTurn
<1> QED
  BY <1>1, Inductive, PTL DEF Spec, PassedOnlyByCloses

\* One operation runs, the others wait, each once (agent-portfolio-orchestrator.js).
THEOREM JobsAlwaysAccounted == Spec => []JobsAccounted
BY OneWriterAlways, NobodyForgotten, PTL DEF JobsAccounted

\* Closes first, and first in, first out among equals.
THEOREM OrderAlwaysKept == Spec => OrderKept
BY ClosesStartFirst, FirstInFirstOut DEF OrderKept

-----------------------------------------------------------------------------
(* Paper orders: the types                                                 *)

Stages == {"idle"} \cup Waiting \cup OpenStages \cup CloseStages \cup Ending
Runs == [at : Stages, intent : Intents \cup {NoIntent}, receipt : BOOLEAN]
Guards == [at : {"idle", "add", "mission", "receipt"}, position : Intents \cup {NoIntent}]
Records == [status : {"none", "pending", "succeeded", "failed"}, receipt : BOOLEAN]
OrderRecords == [action : {"open", "close"}, by : Authority, target : Intents \cup {NoIntent}]
Approvals == {"none", "approved", "consumed"}
MissionStates == {"none", "held", "committed", "closed", "released", "expired"}
Budgets == {"none", "held", "committed", "released"}
Positions == {"none", "open", "closed", "wiped"}
CashStates == {"balanced", "adrift", "off"}

Books ==
  /\ intent \in [Intents -> Records]
  /\ order \in [Intents -> OrderRecords]
  /\ approval \in [Intents -> Approvals]
  /\ mission \in [Intents -> MissionStates]
  /\ budget \in [Intents -> Budgets]
  /\ position \in [Intents -> Positions]
  /\ cash \in CashStates
  /\ receipts \subseteq Receipt
Hands == run \in Runs /\ guard \in Guards
Mishaps ==
  /\ faults \in Nat /\ deaths \in Nat /\ resets \in Nat /\ probes \in Nat
  /\ faults + deaths + resets + probes <= MaxMishaps

LEMMA ExecutionTypes == ExecutionTypeOK <=> Books /\ Hands /\ Mishaps
  BY DEF ExecutionTypeOK, Books, Hands, Mishaps, Stages, Runs, Guards, Records, OrderRecords, Approvals,
         MissionStates, Budgets, Positions, CashStates

\* The handlers' ways to change the active order.
LEMMA RunMoved ==
  ASSUME NEW r \in Runs, NEW stage \in Stages
  PROVE  /\ [r EXCEPT !.at = stage] \in Runs
         /\ [r EXCEPT !.at = stage].at = stage
         /\ [r EXCEPT !.at = stage].intent = r.intent
         /\ [r EXCEPT !.at = stage].receipt = r.receipt
         /\ [r EXCEPT !.at = stage, !.receipt = TRUE] \in Runs
         /\ [r EXCEPT !.at = stage, !.receipt = TRUE].at = stage
         /\ [r EXCEPT !.at = stage, !.receipt = TRUE].intent = r.intent
         /\ [r EXCEPT !.at = stage, !.receipt = TRUE].receipt = TRUE
  BY DEF Runs

LEMMA NoRunIsIdle == NoRun \in Runs /\ NoRun.at = "idle" /\ NoRun.intent = NoIntent /\ NoRun.receipt = FALSE
  BY DEF NoRun, Runs, Stages

LEMMA NoGuardIsIdle == NoGuard \in Guards /\ NoGuard.at = "idle"
  BY DEF NoGuard, Guards

\* Something going wrong once more.
LEMMA OneMore ==
  ASSUME Mishaps, MayGoWrong,
         \/ faults' = faults + 1 /\ UNCHANGED <<deaths, resets, probes>>
         \/ deaths' = deaths + 1 /\ UNCHANGED <<faults, resets, probes>>
         \/ resets' = resets + 1 /\ UNCHANGED <<faults, deaths, probes>>
         \/ probes' = probes + 1 /\ UNCHANGED <<faults, deaths, resets>>
  PROVE  Mishaps'
  BY MishapAssumption DEF Mishaps, MayGoWrong

LEMMA WrittenIsReceipt ==
  ASSUME Books, NEW i \in Intents, NEW outcome \in {"accepted", "rejected", "reversed"}
  PROVE  /\ Written(i, outcome) \in Receipt
         /\ Written(i, outcome).intent = i /\ Written(i, outcome).action = order[i].action
         /\ Written(i, outcome).outcome = outcome /\ ~Written(i, outcome).probe
         /\ order[i].action = "close" => Written(i, outcome).position = order[i].target
         /\ order[i].action = "open" /\ position[i] # "none" => Written(i, outcome).position = i
  <1>1. order[i] \in OrderRecords
    BY DEF Books
  <1> QED
    BY <1>1 DEF Written, Receipt, OrderRecords

\* What writing a receipt, and failing to, does.
LEMMA ReceiptStep ==
  ASSUME Books, Hands, Mishaps, NEW i \in Intents, NEW stage \in Stages,
         NEW outcome \in {"accepted", "rejected", "reversed"},
         UNCHANGED <<deaths, resets, probes>>,
         WriteReceipt(i, outcome, stage) \/ LoseReceipt(stage)
  PROVE  /\ receipts' \subseteq Receipt /\ run' \in Runs /\ Mishaps'
         /\ run'.at = stage /\ run'.intent = run.intent
         /\ \/ receipts' = receipts \cup {Written(i, outcome)} /\ run'.receipt = TRUE /\ faults' = faults
            \/ receipts' = receipts /\ run'.receipt = run.receipt /\ faults' = faults + 1
  <1>1. CASE WriteReceipt(i, outcome, stage)
    <2>1. run' = [run EXCEPT !.at = stage, !.receipt = TRUE] /\ receipts' = receipts \cup {Written(i, outcome)}
          /\ faults' = faults
      BY <1>1 DEF WriteReceipt
    <2>2. run' \in Runs /\ run'.at = stage /\ run'.intent = run.intent /\ run'.receipt = TRUE
      BY <2>1, RunMoved DEF Hands
    <2>3. receipts' \subseteq Receipt
      <3>1. receipts \subseteq Receipt /\ Written(i, outcome) \in Receipt
        BY WrittenIsReceipt DEF Books
      <3> QED
        BY <2>1, <3>1
    <2>4. Mishaps'
      BY <2>1 DEF Mishaps
    <2> QED
      BY <2>1, <2>2, <2>3, <2>4
  <1>2. CASE LoseReceipt(stage)
    <2>1. run' = [run EXCEPT !.at = stage] /\ receipts' = receipts /\ faults' = faults + 1 /\ MayGoWrong
      BY <1>2 DEF LoseReceipt, Goto
    <2>2. run' \in Runs /\ run'.at = stage /\ run'.intent = run.intent /\ run'.receipt = run.receipt
      BY <2>1, RunMoved DEF Hands
    <2>3. Mishaps'
      BY <2>1, OneMore
    <2> QED
      BY <2>1, <2>2, <2>3 DEF Books
  <1> QED
    BY <1>1, <1>2

\* Where a handler's next step is.
LEMMA GoneTo ==
  ASSUME Hands, NEW stage \in Stages, Goto(stage)
  PROVE  run' \in Runs /\ run'.at = stage /\ run'.intent = run.intent /\ run'.receipt = run.receipt
  BY RunMoved DEF Hands, Goto

LEMMA FreedOne ==
  ASSUME NEW S, {"released"} \subseteq S, NEW f \in [Intents -> S], NEW i \in Intents
  PROVE  /\ Freed(f, i) \in [Intents -> S]
         /\ Freed(f, i)[i] # "held" /\ Freed(f, i)[i] \in {f[i], "released"}
         /\ \A j \in Intents \ {i} : Freed(f, i)[j] = f[j]
  BY DEF Freed

LEMMA ClosedMission ==
  ASSUME mission \in [Intents -> MissionStates], NEW o \in Intents, MissionClosed(o)
  PROVE  /\ mission' \in [Intents -> MissionStates]
         /\ mission'[o] = mission[o] \/ (mission[o] = "committed" /\ mission'[o] = "closed")
         /\ \A j \in Intents \ {o} : mission'[j] = mission[j]
  BY DEF MissionClosed, MissionStates

LEMMA SettledCash ==
  ASSUME cash \in CashStates, NEW o, Settles(o)
  PROVE  cash' \in CashStates
  BY DEF Settles, CashStates

LEMMA ExecutionInitTypes == ExecutionInit => ExecutionTypeOK
  <1> SUFFICES ASSUME ExecutionInit PROVE Books /\ Hands /\ Mishaps
    BY ExecutionTypes
  <1>1. Books
    BY DEF ExecutionInit, Books, Records, OrderRecords, Approvals, MissionStates, Budgets, Positions, CashStates, Authority
  <1>2. Hands
    BY NoRunIsIdle, NoGuardIsIdle DEF ExecutionInit, Hands
  <1>3. Mishaps
    BY MishapAssumption DEF ExecutionInit, Mishaps
  <1> QED
    BY <1>1, <1>2, <1>3

\* The steps that say where the handler goes and leave the receipts alone.
LEMMA AuthorizingTypes ==
  ASSUME Books, Hands, Mishaps, NEW i \in Intents, Authorizing(i)
  PROVE  Books' /\ Hands' /\ Mishaps'
  <1>0. {"gate", "refuse", "mission", "approve", "place", "fail"} \subseteq Stages
    BY DEF Stages, OpenStages, Ending
  <1>1. CASE PreflightAllows(i) \/ PreflightDenies(i)
    <2>1. PICK stage \in Stages : Goto(stage)
      BY <1>0, <1>1 DEF PreflightAllows, PreflightDenies
    <2>2. run' \in Runs
      BY <2>1, GoneTo
    <2>3. UNCHANGED <<intent, order, ledgers, receipts, guard, mishaps>>
      BY <1>1 DEF PreflightAllows, PreflightDenies
    <2> QED
      BY <2>2, <2>3 DEF Books, Hands, Mishaps, ledgers, mishaps
  <1>2. CASE Approve(i)
    <2>1. run' \in Runs
      BY <1>0, <1>2, GoneTo DEF Approve
    <2>2. approval' \in [Intents -> Approvals]
      BY <1>2 DEF Approve, Books, Approvals
    <2> QED
      BY <1>2, <2>1, <2>2 DEF Approve, Books, Hands, Mishaps, mishaps
  <1>3. CASE ReserveMission(i)
    <2>1. run' \in Runs
      BY <1>0, <1>3, GoneTo DEF ReserveMission
    <2>2. mission' \in [Intents -> MissionStates]
      BY <1>3 DEF ReserveMission, Books, MissionStates
    <2> QED
      BY <1>3, <2>1, <2>2 DEF ReserveMission, Books, Hands, Mishaps, mishaps
  <1>4. CASE Gate(i)
    <2>1. run' \in Runs
      BY <1>0, <1>4, GoneTo DEF Gate
    <2>2. mission' \in [Intents -> MissionStates]
      <3>1. mission \in [Intents -> MissionStates] /\ {"released"} \subseteq MissionStates
        BY DEF Books, MissionStates
      <3>2. Freed(mission, i) \in [Intents -> MissionStates]
        BY <3>1, FreedOne
      <3> QED
        BY <1>4, <3>1, <3>2 DEF Gate
    <2>3. budget' \in [Intents -> Budgets]
      BY <1>4 DEF Gate, Books, Budgets
    <2> QED
      BY <1>4, <2>1, <2>2, <2>3 DEF Gate, Books, Hands, Mishaps, mishaps
  <1>5. CASE RefuseOrder(i)
    <2>1. receipts' \subseteq Receipt /\ run' \in Runs /\ Mishaps'
      BY <1>0, <1>5, ReceiptStep DEF RefuseOrder
    <2> QED
      BY <1>5, <2>1 DEF RefuseOrder, Books, Hands, ledgers
  <1> QED
    BY <1>1, <1>2, <1>3, <1>4, <1>5 DEF Authorizing

LEMMA ExecutingTypes ==
  ASSUME Books, Hands, Mishaps, NEW i \in Intents, Executing(i)
  PROVE  Books' /\ Hands' /\ Mishaps'
  <1>0. {"settle", "unplaced", "unwind", "unwound", "succeed", "fail", "attach", "accept", "reversed"} \subseteq Stages
    BY DEF Stages, OpenStages, Ending
  <1>1. /\ mission \in [Intents -> MissionStates] /\ budget \in [Intents -> Budgets] /\ position \in [Intents -> Positions]
        /\ {"released"} \subseteq MissionStates /\ {"released"} \subseteq Budgets
    BY DEF Books, MissionStates, Budgets
  <1>2. Freed(mission, i) \in [Intents -> MissionStates] /\ Freed(budget, i) \in [Intents -> Budgets]
    <2>1. Freed(mission, i) \in [Intents -> MissionStates]
      BY <1>1, FreedOne
    <2>2. Freed(budget, i) \in [Intents -> Budgets]
      BY <1>1, FreedOne
    <2> QED
      BY <2>1, <2>2
  <1>3. CASE Place(i)
    <2>1. run' \in Runs
      BY <1>0, <1>3, GoneTo DEF Place
    <2>2. position' \in [Intents -> Positions] /\ mission' \in [Intents -> MissionStates] /\ budget' \in [Intents -> Budgets]
      BY <1>1, <1>2, <1>3 DEF Place, Positions
    <2> QED
      BY <1>3, <2>1, <2>2 DEF Place, Books, Hands, Mishaps, mishaps
  <1>4. CASE PlaceThrows(i)
    <2>1. run' \in Runs
      BY <1>0, <1>4, GoneTo DEF PlaceThrows
    <2>2. Mishaps'
      BY <1>4, OneMore DEF PlaceThrows
    <2> QED
      BY <1>4, <2>1, <2>2 DEF PlaceThrows, Books, Hands, ledgers
  <1>5. CASE Unplaced(i) \/ Reversed(i) \/ Unwound(i)
    <2>1. receipts' \subseteq Receipt /\ run' \in Runs /\ Mishaps'
      <3>1. CASE Unplaced(i)
        <4>1. \/ WriteReceipt(i, "rejected", "succeed") \/ LoseReceipt("succeed")
              \/ WriteReceipt(i, "rejected", "unwind") \/ LoseReceipt("unwind")
          BY <3>1 DEF Unplaced
        <4> QED
          BY <1>0, <3>1, <4>1, ReceiptStep DEF Unplaced
      <3>2. CASE Reversed(i)
        <4>1. \/ WriteReceipt(i, "reversed", "fail") \/ LoseReceipt("fail")
              \/ WriteReceipt(i, "reversed", "unwind") \/ LoseReceipt("unwind")
          BY <3>2 DEF Reversed
        <4> QED
          BY <1>0, <3>2, <4>1, ReceiptStep DEF Reversed
      <3>3. CASE Unwound(i)
        BY <1>0, <3>3, ReceiptStep DEF Unwound
      <3> QED
        BY <1>5, <3>1, <3>2, <3>3
    <2> QED
      BY <1>5, <2>1 DEF Unplaced, Reversed, Unwound, Books, Hands, ledgers
  <1>6. CASE SettleSpend(i)
    <2>1. run' \in Runs
      <3>1. Goto("attach") \/ Goto("accept")
        BY <1>6 DEF SettleSpend
      <3> QED
        BY <1>0, <3>1, GoneTo
    <2>2. budget' \in [Intents -> Budgets]
      BY <1>1, <1>6 DEF SettleSpend, Budgets
    <2> QED
      BY <1>6, <2>1, <2>2 DEF SettleSpend, Books, Hands, Mishaps, mishaps
  <1>7. CASE Attach(i)
    <2>1. run' \in Runs
      BY <1>0, <1>7, GoneTo DEF Attach
    <2>2. mission' \in [Intents -> MissionStates]
      BY <1>1, <1>7 DEF Attach, MissionStates
    <2> QED
      BY <1>7, <2>1, <2>2 DEF Attach, Books, Hands, Mishaps, mishaps
  <1>8. CASE AttachThrows(i)
    <2>1. run' \in Runs /\ Mishaps'
      <3>1. run' \in Runs
        BY <1>0, <1>8, GoneTo DEF AttachThrows
      <3>2. Mishaps'
        BY <1>8, OneMore DEF AttachThrows
      <3> QED
        BY <3>1, <3>2
    <2>2. mission' \in [Intents -> MissionStates] /\ position' \in [Intents -> Positions]
      BY <1>1, <1>8 DEF AttachThrows, MissionStates, Positions
    <2> QED
      BY <1>8, <2>1, <2>2 DEF AttachThrows, Books, Hands
  <1>9. CASE Accept(i)
    <2>1. receipts' \subseteq Receipt /\ run' \in Runs /\ Mishaps'
      BY <1>0, <1>9, ReceiptStep DEF Accept
    <2> QED
      BY <1>9, <2>1 DEF Accept, Books, Hands, ledgers
  <1>10. CASE AcceptThrows(i)
    <2>1. run' \in Runs /\ receipts' = receipts
      BY <1>0, <1>10, GoneTo DEF AcceptThrows, LoseReceipt
    <2>2. mission' \in [Intents -> MissionStates] /\ position' \in [Intents -> Positions]
      BY <1>1, <1>10 DEF AcceptThrows, MissionStates, Positions
    <2>3. Mishaps'
      BY <1>10, OneMore DEF AcceptThrows, LoseReceipt
    <2> QED
      BY <1>10, <2>1, <2>2, <2>3 DEF AcceptThrows, Books, Hands
  <1>11. CASE Unwind(i)
    <2>1. run' \in Runs
      BY <1>0, <1>11, GoneTo DEF Unwind
    <2>2. mission' \in [Intents -> MissionStates] /\ budget' \in [Intents -> Budgets]
      BY <1>2, <1>11 DEF Unwind
    <2> QED
      BY <1>11, <2>1, <2>2 DEF Unwind, Books, Hands, Mishaps, mishaps
  <1> QED
    BY <1>3, <1>4, <1>5, <1>6, <1>7, <1>8, <1>9, <1>10, <1>11 DEF Executing

LEMMA ClosingTypes ==
  ASSUME Books, Hands, Mishaps, NEW i \in Intents, Closing(i)
  PROVE  Books' /\ Hands' /\ Mishaps'
  <1>0. {"closeMission", "closed", "succeed", "fail"} \subseteq Stages
    BY DEF Stages, CloseStages, Ending
  <1>1. mission \in [Intents -> MissionStates] /\ position \in [Intents -> Positions]
    BY DEF Books
  <1>2. CASE CloseFills(i)
    <2>1. run' \in Runs
      BY <1>0, <1>2, GoneTo DEF CloseFills
    <2>2. position' \in [Intents -> Positions]
      BY <1>1, <1>2 DEF CloseFills, Positions
    <2>3. cash' \in CashStates
      BY <1>2, SettledCash DEF CloseFills, Books
    <2> QED
      BY <1>2, <2>1, <2>2, <2>3 DEF CloseFills, Books, Hands, Mishaps, mishaps
  <1>3. CASE CloseMission(i)
    <2>1. run' \in Runs
      BY <1>0, <1>3, GoneTo DEF CloseMission
    <2>2. mission' \in [Intents -> MissionStates]
      BY <1>1, <1>3 DEF CloseMission, MissionClosed, MissionStates
    <2> QED
      BY <1>3, <2>1, <2>2 DEF CloseMission, Books, Hands, Mishaps, mishaps
  <1>4. CASE CloseReceipt(i)
    <2>1. receipts' \subseteq Receipt /\ run' \in Runs /\ Mishaps'
      <3>1. PICK stage \in {"succeed", "fail"}, outcome \in {"accepted", "rejected"} :
              WriteReceipt(i, outcome, stage) \/ LoseReceipt(stage)
        BY <1>4 DEF CloseReceipt
      <3> QED
        BY <1>0, <1>4, <3>1, ReceiptStep DEF CloseReceipt
    <2> QED
      BY <1>4, <2>1 DEF CloseReceipt, Books, Hands, ledgers
  <1> QED
    BY <1>2, <1>3, <1>4 DEF Closing

\* An order the lane takes up, and where its handler starts.
LEMMA OrderTaken ==
  ASSUME Books, NEW i \in Intents, NEW o \in Orders, Begin(i, o)
  PROVE  /\ o \in OrderRecords
         /\ o.action = "close" => o.target \in Intents /\ position[o.target] # "none"
         /\ run' \in Runs /\ run'.intent = i /\ run'.receipt = FALSE
         /\ o.action = "open" => run'.at = "preflight"
         /\ o.action = "close" => run'.at \in {"quote", "notFound"}
  <1>1. \/ o.action = "open" /\ o.by \in Authorities /\ o = [action |-> "open", by |-> o.by, target |-> NoIntent]
        \/ /\ o.action = "close" /\ o.target \in Intents /\ position[o.target] # "none"
           /\ o = [action |-> "close", by |-> "human", target |-> o.target]
    BY DEF Orders
  <1>2. o \in OrderRecords
    BY <1>1, AuthorityAssumption DEF OrderRecords, Authority
  <1>3. PICK stage \in {"preflight", "quote", "notFound"} :
          /\ run' = [at |-> stage, intent |-> i, receipt |-> FALSE]
          /\ o.action = "open" => stage = "preflight"
          /\ o.action = "close" => stage \in {"quote", "notFound"}
    BY <1>1 DEF Begin
  <1>4. {"preflight", "quote", "notFound"} \subseteq Stages
    BY DEF Stages, Waiting, CloseStages
  <1> QED
    BY <1>1, <1>2, <1>3, <1>4 DEF Runs

LEMMA BeginTypes ==
  ASSUME Books, Hands, Mishaps, NEW i \in Intents, NEW o \in Orders, Begin(i, o)
  PROVE  Books' /\ Hands' /\ Mishaps'
  <1>1. o \in OrderRecords /\ run' \in Runs
    BY OrderTaken
  <1>2. order' \in [Intents -> OrderRecords]
    BY <1>1 DEF Begin, Books
  <1>3. intent' \in [Intents -> Records]
    BY DEF Begin, Books, Records
  <1> QED
    BY <1>1, <1>2, <1>3 DEF Begin, Books, Hands, Mishaps, ledgers, mishaps

LEMMA EndingTypes ==
  ASSUME Books, Hands, Mishaps, NEW i \in Intents, Finish(i) \/ FinishUnsaved(i)
  PROVE  Books' /\ Hands' /\ Mishaps'
  <1>1. run' \in Runs
    BY NoRunIsIdle DEF Finish, FinishUnsaved
  <1>2. CASE Finish(i)
    <2>1. run.receipt \in BOOLEAN
      BY DEF Hands, Runs
    <2>2. intent' \in [Intents -> Records]
      BY <1>2, <2>1 DEF Finish, Books, Records
    <2> QED
      BY <1>1, <1>2, <2>2 DEF Finish, Books, Hands, Mishaps, ledgers, mishaps
  <1>3. CASE FinishUnsaved(i)
    <2>1. Mishaps'
      BY <1>3, OneMore DEF FinishUnsaved
    <2> QED
      BY <1>1, <1>3, <2>1 DEF FinishUnsaved, Books, Hands, ledgers
  <1> QED
    BY <1>2, <1>3

LEMMA OthersTypes ==
  ASSUME Books, Hands, Mishaps, Others
  PROVE  Books' /\ Hands' /\ Mishaps'
  <1>1. ASSUME NEW i \in Intents, OwnerApproves(i) \/ MissionExpires(i) \/ GuardianCloses(i) \/ AddBegins(i)
        PROVE  Books' /\ Hands' /\ Mishaps'
    <2>1. CASE OwnerApproves(i)
      <3>1. approval' \in [Intents -> Approvals]
        BY <2>1 DEF OwnerApproves, Books, Approvals
      <3> QED
        BY <2>1, <3>1 DEF OwnerApproves, Books, Hands, Mishaps, mishaps
    <2>2. CASE MissionExpires(i)
      <3>1. mission' \in [Intents -> MissionStates]
        BY <2>2 DEF MissionExpires, Books, MissionStates
      <3> QED
        BY <2>2, <3>1 DEF MissionExpires, Books, Hands, Mishaps, mishaps
    <2>3. CASE GuardianCloses(i)
      <3>1. position' \in [Intents -> Positions]
        BY <2>3 DEF GuardianCloses, Books, Positions
      <3>2. guard' \in Guards
        BY <2>3 DEF GuardianCloses, Guards
      <3>3. cash' \in CashStates
        BY <2>3, SettledCash DEF GuardianCloses, Books
      <3> QED
        BY <2>3, <3>1, <3>2, <3>3 DEF GuardianCloses, Books, Hands, Mishaps, mishaps
    <2>4. CASE AddBegins(i)
      <3>1. guard' \in Guards
        BY <2>4 DEF AddBegins, Guards
      <3> QED
        BY <2>4, <3>1 DEF AddBegins, Books, Hands, Mishaps, ledgers, mishaps
    <2> QED
      BY <1>1, <2>1, <2>2, <2>3, <2>4
  <1>2. ASSUME NEW i \in Intents, NEW action \in {"open", "close"}, Probe(i, action)
        PROVE  Books' /\ Hands' /\ Mishaps'
    <2>1. receipts' \subseteq Receipt
      <3> DEFINE r == [intent |-> i, action |-> action, outcome |-> "rejected", position |-> NoIntent, probe |-> TRUE]
      <3>1. r \in Receipt
        BY DEF Receipt
      <3>2. receipts \subseteq Receipt /\ receipts' = receipts \cup {r}
        BY <1>2 DEF Probe, Books
      <3> QED
        BY <3>1, <3>2
    <2>2. Mishaps'
      BY <1>2, OneMore DEF Probe
    <2> QED
      BY <1>2, <2>1, <2>2 DEF Probe, Books, Hands, ledgers
  <1>3. CASE GuardianMission
    <2>1. mission' \in [Intents -> MissionStates]
      BY <1>3 DEF GuardianMission, Books, MissionClosed, MissionStates
    <2>2. guard' \in Guards
      <3>1. [guard EXCEPT !.at = "receipt"] \in Guards
        BY DEF Guards, Hands
      <3> QED
        BY <1>3, <3>1, NoGuardIsIdle DEF GuardianMission
    <2> QED
      BY <1>3, <2>1, <2>2 DEF GuardianMission, Books, Hands, Mishaps, mishaps
  <1>4. CASE GuardianReceipt
    <2>1. receipts' \subseteq Receipt
      <3>1. guard.position \in Intents \cup {NoIntent}
        BY DEF Hands, Guards
      <3> DEFINE r == [intent |-> NoIntent, action |-> "close", outcome |-> "accepted",
                       position |-> guard.position, probe |-> FALSE]
      <3>2. r \in Receipt
        BY <3>1 DEF Receipt
      <3>3. receipts \subseteq Receipt /\ (receipts' = receipts \cup {r} \/ receipts' = receipts)
        BY <1>4 DEF GuardianReceipt, Books
      <3> QED
        BY <3>2, <3>3
    <2>2. Mishaps'
      <3>1. CASE UNCHANGED faults
        BY <1>4, <3>1 DEF GuardianReceipt, Mishaps
      <3>2. CASE MayGoWrong /\ faults' = faults + 1
        BY <1>4, <3>2, OneMore DEF GuardianReceipt
      <3> QED
        BY <1>4, <3>1, <3>2 DEF GuardianReceipt
    <2> QED
      BY <1>4, <2>1, <2>2, NoGuardIsIdle DEF GuardianReceipt, Books, Hands, ledgers
  <1>5. CASE Reset
    <2>1. position' \in [Intents -> Positions]
      BY <1>5 DEF Reset, Positions
    <2>2. Mishaps'
      BY <1>5, OneMore DEF Reset
    <2> QED
      BY <1>5, <2>1, <2>2 DEF Reset, Books, Hands, CashStates
  <1>6. CASE ProcessDies
    <2>1. Mishaps'
      BY <1>6, OneMore DEF ProcessDies
    <2> QED
      BY <1>6, <2>1, NoRunIsIdle, NoGuardIsIdle DEF ProcessDies, Books, Hands, ledgers
  <1>7. CASE AddFills
    <2>1. cash' \in CashStates
      BY <1>7, SettledCash DEF AddFills, Books
    <2> QED
      BY <1>7, <2>1, NoGuardIsIdle DEF AddFills, Books, Hands, Mishaps, mishaps
  <1> QED
    BY <1>1, <1>2, <1>3, <1>4, <1>5, <1>6, <1>7 DEF Others

\* Every step of the lane, of its orders and of everybody else.
LEMMA ExecutionStepTypes ==
  ASSUME Books, Hands, Mishaps, [ExecutionNext]_executionVars
  PROVE  Books' /\ Hands' /\ Mishaps'
  <1>1. ASSUME NEW i \in Intents, NEW o \in Orders, Begin(i, o)
        PROVE  Books' /\ Hands' /\ Mishaps'
    BY <1>1, BeginTypes
  <1>2. ASSUME NEW i \in Intents, Authorizing(i) \/ Executing(i) \/ Closing(i) \/ Finish(i) \/ FinishUnsaved(i)
        PROVE  Books' /\ Hands' /\ Mishaps'
    BY <1>2, AuthorizingTypes, ExecutingTypes, ClosingTypes, EndingTypes
  <1>3. CASE UNCHANGED executionVars
    BY <1>3 DEF executionVars, ledgers, mishaps, Books, Hands, Mishaps
  <1> QED
    BY <1>1, <1>2, <1>3, OthersTypes DEF ExecutionNext

\* The books, the active order and the guardian's hand have their types.
THEOREM ExecutionTyped == ExecutionSpec => []ExecutionTypeOK
  <1>1. ExecutionTypeOK /\ [ExecutionNext]_executionVars => ExecutionTypeOK'
    <2> SUFFICES ASSUME ExecutionTypeOK, [ExecutionNext]_executionVars PROVE ExecutionTypeOK'
      OBVIOUS
    <2>1. Books' /\ Hands' /\ Mishaps'
      BY ExecutionTypes, ExecutionStepTypes
    <2> QED
      BY <2>1 DEF ExecutionTypeOK, Books, Hands, Mishaps, Stages, Runs, Guards, Records, OrderRecords, Approvals,
                  MissionStates, Budgets, Positions, CashStates
  <1> QED
    BY <1>1, ExecutionInitTypes, PTL DEF ExecutionSpec

-----------------------------------------------------------------------------
(* Paper orders: what the books have at every step of a handler            *)

\* Nothing of an order's own is on the books yet; its receipt is not written;
\* nothing is reserved for it.
Fresh(i) == position[i] = "none" /\ budget[i] = "none" /\ mission[i] = "none"
Unwritten(i) == \A r \in receipts : ~r.probe => r.intent # i
Unheld(i) == budget[i] # "held" /\ mission[i] # "held"
Active(i) == run.at # "idle" /\ run.intent = i

\* The active order is the one its intent is pending for, its handler is the
\* one of its action, and the guardian only works while the lane waits.
LaneInv ==
  /\ run.at = "idle" <=> run.intent = NoIntent
  /\ run.at # "idle" => intent[run.intent].status = "pending"
  /\ run.at \in OpenStages \cup {"preflight"} => order[run.intent].action = "open"
  /\ run.at \in CloseStages \cup {"quote"} => order[run.intent].action = "close"
  /\ run.at \in {"closeMission", "closed"} => position[order[run.intent].target] \in {"closed", "wiped"}
  /\ ~Free => /\ run.at \in {"idle"} \cup Waiting
              /\ guard.position \in Intents /\ position[guard.position] = "closed"

\* What an open has on the books, by the step its handler is at.
Booked(i) ==
  /\ run.at \in {"preflight", "approve", "mission"} => Fresh(i)
  /\ run.at \in {"gate", "refuse", "place", "unplaced"} => position[i] = "none"
  /\ run.at \in {"settle", "attach", "accept"} => position[i] = "open"
  /\ run.at \in {"reversed", "unwind", "unwound"} => position[i] # "open"
  /\ run.at \in {"gate", "refuse"} => budget[i] = "none"
  /\ run.at \in {"place", "settle"} => budget[i] = IF IsAgent(i) THEN "held" ELSE "none"
  /\ run.at \in {"attach", "accept"} => budget[i] = IF IsAgent(i) THEN "committed" ELSE "none"
  /\ run.at \in {"gate", "place", "settle", "attach"} => mission[i] = IF OnMission(i) THEN "held" ELSE "none"
  /\ run.at = "accept" => mission[i] = IF OnMission(i) THEN "committed" ELSE "none"
  /\ run.at \in {"refuse", "unplaced", "reversed", "unwound"} \cup Ending => Unheld(i)

\* By what leave it got there.
Authorised(i) ==
  /\ run.at = "approve" => order[i].by = "supervised"
  /\ run.at \in {"mission", "attach"} => OnMission(i)
  /\ run.at \in {"mission", "gate", "place", "settle", "attach", "accept"} /\ order[i].by = "supervised"
       => approval[i] = "consumed"
Cleared(i) == run.at \in {"approve", "mission", "gate", "place"} /\ IsAgent(i) => ~Blocked(i)

\* What its receipt says of it.
Told(i) ==
  /\ run.at \notin Ending => Unwritten(i) /\ ~run.receipt
  /\ run.at \in Ending => /\ position[i] = "open" => Accepted(i)
                          /\ run.receipt \/ faults > 0

StageInv == \A i \in Intents : Active(i) => Booked(i) /\ Authorised(i) /\ Told(i)
ClearInv == \A i \in Intents : Active(i) => Cleared(i)

\* What is left of an order the lane is not running: nothing before it has
\* begun, nothing reserved and no untold fill once its intent is settled, and
\* an intent is left pending only by a failure or a crash.
Kept(i) ==
  /\ intent[i].status = "none" =>
       Fresh(i) /\ approval[i] # "consumed" /\ order[i].action = "open" /\ Unwritten(i)
  /\ intent[i].status \in {"succeeded", "failed"} =>
       Unheld(i) /\ (position[i] = "open" => Accepted(i)) /\ (intent[i].receipt \/ faults > 0)
  /\ intent[i].status = "pending" /\ run.intent # i => faults + deaths > 0
  /\ position[i] = "wiped" => resets > 0
  /\ order[i].action = "close" => Fresh(i) /\ order[i].target \in Intents /\ position[order[i].target] # "none"

\* An agent's open position is paid for and authorised.
Backed(i) == position[i] = "open" =>
  /\ IsAgent(i) => budget[i] \in {"held", "committed"}
  /\ order[i].by = "supervised" => approval[i] = "consumed"
  /\ OnMission(i) => mission[i] \in {"held", "committed"} \/ (intent[i].status = "pending" /\ run.intent # i)

BookInv == \A i \in Intents : Kept(i) /\ Backed(i)

\* A receipt names the intent and the position it is about and says what
\* became of them; no order but a stray key's has two.
Entry(r) ==
  /\ r.probe => r.outcome = "rejected" /\ probes > 0
  /\ ~r.probe =>
       /\ r.intent = NoIntent => r.action = "close" /\ r.outcome = "accepted"
       /\ r.intent # NoIntent => intent[r.intent].status # "none" /\ order[r.intent].action = r.action
       /\ r.action = "open" /\ r.outcome = "accepted" => r.position = r.intent
       /\ r.action = "close" /\ r.outcome = "accepted" => r.position \in Intents
Truth(r) == ~r.probe =>
  /\ r.action = "open" /\ r.outcome = "accepted" =>
       /\ position[r.intent] # "none"
       /\ IsAgent(r.intent) => budget[r.intent] = "committed"
       /\ OnMission(r.intent) => mission[r.intent] \in {"committed", "closed"}
  /\ r.action = "close" /\ r.outcome = "accepted" =>
       position[r.position] \in {"closed", "wiped"}
  /\ r.action = "open" /\ r.outcome # "accepted" => position[r.intent] # "open"
ReceiptInv == \A r \in receipts : Entry(r) /\ Truth(r)
SingleInv == \A r, s \in receipts :
  ~r.probe /\ ~s.probe /\ r.intent = s.intent /\ r.intent # NoIntent => r = s

TypesInv == Books /\ Hands /\ Mishaps
RecordsInv == TypesInv /\ LaneInv /\ StageInv /\ BookInv /\ ReceiptInv /\ SingleInv

-----------------------------------------------------------------------------
(* Paper orders: a step of an open                                         *)

\* A handler touches the books of its own order only, fills it at most once
\* and closes what it has filled, and ends with one true receipt or with a
\* failed write and nothing open.
OpenMove(i, outcome) ==
  /\ Active(i) /\ Free /\ run.at \in OpenStages \cup {"preflight"}
  /\ UNCHANGED <<intent, order, guard, deaths, resets, probes>>
  /\ faults' \in {faults, faults + 1}
  /\ \A j \in Intents \ {i} : /\ approval'[j] = approval[j] /\ mission'[j] = mission[j]
                              /\ budget'[j] = budget[j] /\ position'[j] = position[j]
  /\ \/ position'[i] = position[i]
     \/ position[i] = "none" /\ position'[i] = "open"
     \/ position[i] = "open" /\ position'[i] = "closed"
  /\ run'.intent = i /\ run'.at \in OpenStages \cup Ending
  /\ \/ /\ receipts' = receipts /\ run'.receipt = run.receipt
        /\ run'.at \in Ending => faults' = faults + 1 /\ position'[i] # "open"
     \/ /\ receipts' = receipts \cup {Written(i, outcome)} /\ run'.receipt = TRUE
        /\ run'.at \in Ending
        /\ outcome = "accepted" => /\ position[i] = "open" /\ position'[i] = "open"
                                   /\ IsAgent(i) => budget'[i] = "committed"
                                   /\ OnMission(i) => mission'[i] \in {"committed", "closed"}
        /\ outcome # "accepted" => position'[i] # "open"

Outcomes == {"accepted", "rejected", "reversed"}

\* What is known of the order an open handler runs.
LEMMA OpenActive ==
  ASSUME RecordsInv, NEW i \in Intents, Active(i), run.at \in OpenStages \cup {"preflight"}
  PROVE  /\ intent[i].status = "pending" /\ order[i].action = "open" /\ order[i] \in OrderRecords
         /\ Booked(i) /\ Authorised(i) /\ Unwritten(i) /\ run.receipt = FALSE
         /\ i # NoIntent /\ run.at \notin Ending
  <1>1. intent[i].status = "pending" /\ order[i].action = "open" /\ order[i] \in OrderRecords
    BY DEF RecordsInv, TypesInv, Books, LaneInv, Active
  <1>2. run.at \notin Ending
    BY DEF OpenStages, Ending
  <1>3. Booked(i) /\ Authorised(i) /\ Unwritten(i) /\ ~run.receipt
    BY <1>2 DEF RecordsInv, StageInv, Told
  <1>4. run.receipt \in BOOLEAN
    BY DEF RecordsInv, TypesInv, Hands, Runs
  <1> QED
    BY <1>1, <1>2, <1>3, <1>4, IntentAssumption

LEMMA OpenMoveWrites ==
  ASSUME RecordsInv, NEW i \in Intents, NEW outcome \in Outcomes, OpenMove(i, outcome)
  PROVE  /\ Written(i, outcome).intent = i /\ Written(i, outcome).action = "open"
         /\ Written(i, outcome).outcome = outcome /\ ~Written(i, outcome).probe
         /\ position[i] # "none" => Written(i, outcome).position = i
  <1>1. order[i].action = "open"
    BY OpenActive DEF OpenMove
  <1> QED
    BY <1>1 DEF Written

LEMMA OpenMoveLane ==
  ASSUME RecordsInv, NEW i \in Intents, NEW outcome \in Outcomes, OpenMove(i, outcome)
  PROVE  LaneInv'
  <1>1. intent[i].status = "pending" /\ order[i].action = "open" /\ i # NoIntent
    BY OpenActive DEF OpenMove
  <1>2. run'.at # "idle" /\ run'.intent = i /\ run'.at \notin CloseStages \cup {"quote"}
        /\ run'.at \notin {"closeMission", "closed"}
    BY DEF OpenMove, OpenStages, CloseStages, Ending
  <1> QED
    BY <1>1, <1>2 DEF OpenMove, LaneInv, Free

LEMMA OpenMoveTold ==
  ASSUME RecordsInv, NEW i \in Intents, NEW outcome \in Outcomes, OpenMove(i, outcome),
         NEW j \in Intents, Active(j)'
  PROVE  j = i /\ Told(j)'
  <1>1. j = i
    BY DEF OpenMove, Active
  <1>2. Unwritten(i) /\ run.receipt = FALSE
    BY OpenActive DEF OpenMove
  <1>3. CASE /\ receipts' = receipts /\ run'.receipt = run.receipt
             /\ run'.at \in Ending => faults' = faults + 1 /\ position'[i] # "open"
    <2>1. Unwritten(i)' /\ ~run'.receipt
      BY <1>2, <1>3 DEF Unwritten
    <2>2. run'.at \in Ending => position'[i] # "open" /\ faults' > 0
      BY <1>3 DEF RecordsInv, TypesInv, Mishaps
    <2> QED
      BY <1>1, <2>1, <2>2 DEF Told
  <1>4. CASE /\ receipts' = receipts \cup {Written(i, outcome)} /\ run'.receipt = TRUE /\ run'.at \in Ending
             /\ outcome # "accepted" => position'[i] # "open"
    <2>2. outcome = "accepted" => Accepted(i)'
      BY <1>4, OpenMoveWrites DEF Accepted
    <2> QED
      BY <1>1, <1>4, <2>2 DEF Told
  <1> QED
    BY <1>3, <1>4 DEF OpenMove

\* The books of the other orders, and what an open order's intent says of it.
LEMMA OpenMoveKept ==
  ASSUME RecordsInv, NEW i \in Intents, NEW outcome \in Outcomes, OpenMove(i, outcome), NEW j \in Intents
  PROVE  Kept(j)' /\ (j # i => Backed(j)')
  <1>1. intent[i].status = "pending" /\ order[i].action = "open" /\ i # NoIntent
    BY OpenActive DEF OpenMove
  <1>2. Kept(j) /\ Backed(j)
    BY DEF RecordsInv, BookInv
  <1>3. \A k \in Intents : position[k] # "none" => position'[k] # "none"
    BY DEF OpenMove
  <1>4. intent' = intent /\ order' = order /\ deaths' = deaths /\ resets' = resets /\ faults' \in {faults, faults + 1}
    BY DEF OpenMove
  <1>5. faults \in Nat /\ deaths \in Nat
    BY DEF RecordsInv, TypesInv, Mishaps
  <1>6. run.intent = i /\ run'.intent = i
    BY DEF OpenMove, Active
  <1>7. position'[j] = "wiped" => position[j] = "wiped"
    BY DEF OpenMove
  <1>8. CASE j = i
    BY <1>1, <1>2, <1>4, <1>6, <1>7, <1>8 DEF Kept
  <1>9. CASE j # i
    <2>1. mission'[j] = mission[j] /\ budget'[j] = budget[j] /\ position'[j] = position[j] /\ approval'[j] = approval[j]
      BY <1>9 DEF OpenMove
    <2>2. Fresh(j)' = Fresh(j) /\ Unheld(j)' = Unheld(j)
      BY <2>1 DEF Fresh, Unheld
    <2>3. Unwritten(j) => Unwritten(j)'
      <3>1. receipts' = receipts \/ receipts' = receipts \cup {Written(i, outcome)}
        BY DEF OpenMove
      <3>2. Written(i, outcome).intent = i
        BY DEF Written
      <3> QED
        BY <1>9, <3>1, <3>2 DEF Unwritten
    <2>4. Accepted(j) => Accepted(j)'
      BY DEF OpenMove, Accepted
    <2>5. Backed(j)'
      BY <1>2, <1>4, <1>6, <1>9, <2>1 DEF Backed, IsAgent, OnMission
    <2>6. Kept(j)'
      <3>1. intent'[j].status = "none" =>
              Fresh(j)' /\ approval'[j] # "consumed" /\ order'[j].action = "open" /\ Unwritten(j)'
        BY <1>2, <1>4, <2>1, <2>2, <2>3 DEF Kept
      <3>2. intent'[j].status \in {"succeeded", "failed"} =>
              Unheld(j)' /\ (position'[j] = "open" => Accepted(j)') /\ (intent'[j].receipt \/ faults' > 0)
        BY <1>2, <1>4, <1>5, <2>1, <2>2, <2>4 DEF Kept
      <3>3. intent'[j].status = "pending" /\ run'.intent # j => faults' + deaths' > 0
        <4>1. intent[j].status = "pending" => faults + deaths > 0
          BY <1>2, <1>6, <1>9 DEF Kept
        <4>2. deaths' = deaths /\ (faults' = faults \/ faults' = faults + 1)
          BY DEF OpenMove
        <4>3. faults + deaths > 0 => faults' + deaths' > 0
          BY <1>5, <4>2
        <4> QED
          BY <1>4, <4>1, <4>3
      <3>4. position'[j] = "wiped" => resets' > 0
        BY <1>2, <1>4, <1>7 DEF Kept
      <3>5. order'[j].action = "close" =>
              Fresh(j)' /\ order'[j].target \in Intents /\ position'[order'[j].target] # "none"
        BY <1>2, <1>3, <1>4, <2>2 DEF Kept
      <3> QED
        BY <3>1, <3>2, <3>3, <3>4, <3>5 DEF Kept
    <2> QED
      BY <2>5, <2>6
  <1> QED
    BY <1>8, <1>9

\* Its one receipt is true, and takes nothing from the truth of the others.
LEMMA OpenMoveReceipts ==
  ASSUME RecordsInv, NEW i \in Intents, NEW outcome \in Outcomes, OpenMove(i, outcome)
  PROVE  ReceiptInv' /\ SingleInv'
  <1>0. PICK w : w = Written(i, outcome)
    OBVIOUS
  <1>1. intent[i].status = "pending" /\ order[i].action = "open" /\ Unwritten(i) /\ i # NoIntent
    BY OpenActive DEF OpenMove
  <1>2. w.intent = i /\ w.action = "open" /\ w.outcome = outcome /\ ~w.probe
        /\ (position[i] # "none" => w.position = i)
    BY <1>0, OpenMoveWrites
  <1>3. intent' = intent /\ order' = order /\ probes' = probes
    BY DEF OpenMove
  <1>4. receipts' = receipts \/ receipts' = receipts \cup {w}
    BY <1>0 DEF OpenMove
  <1>5. SingleInv'
    BY <1>1, <1>2, <1>4 DEF RecordsInv, SingleInv, Unwritten
  <1>6. ASSUME NEW r \in receipts PROVE Entry(r)' /\ Truth(r)'
    <2>1. Entry(r) /\ Truth(r) /\ r \in Receipt
      BY DEF RecordsInv, ReceiptInv, TypesInv, Books
    <2>2. Entry(r)'
      BY <1>3, <2>1 DEF Entry
    <2>3. \A k \in Intents \ {i} : mission'[k] = mission[k] /\ budget'[k] = budget[k] /\ position'[k] = position[k]
      BY DEF OpenMove
    <2>4. position[i] \in {"closed", "wiped"} => position'[i] \in {"closed", "wiped"}
      BY DEF OpenMove
    <2>5. ~r.probe /\ r.action = "open" => r.intent \in Intents \ {i}
      BY <1>1, <2>1 DEF Entry, Unwritten, Receipt
    <2>6. ~r.probe /\ r.action = "close" /\ r.outcome = "accepted" => r.position \in Intents
      BY <2>1 DEF Entry
    <2>7. Truth(r)'
      BY <1>3, <2>1, <2>3, <2>4, <2>5, <2>6 DEF Truth, IsAgent, OnMission
    <2> QED
      BY <2>2, <2>7
  <1>7. ASSUME w \in receipts', w \notin receipts PROVE Entry(w)' /\ Truth(w)'
    <2>1. /\ outcome = "accepted" => /\ position[i] = "open" /\ position'[i] = "open"
                                     /\ IsAgent(i) => budget'[i] = "committed"
                                     /\ OnMission(i) => mission'[i] \in {"committed", "closed"}
          /\ outcome # "accepted" => position'[i] # "open"
      BY <1>0, <1>7 DEF OpenMove
    <2>2. Entry(w)'
      BY <1>1, <1>2, <1>3, <2>1 DEF Entry
    <2>3. Truth(w)'
      BY <1>2, <1>3, <2>1 DEF Truth, IsAgent, OnMission
    <2> QED
      BY <2>2, <2>3
  <1>8. \A r \in receipts' : r \in receipts \/ (r = w /\ w \notin receipts /\ w \in receipts')
    BY <1>4
  <1>9. ReceiptInv'
    BY <1>6, <1>7, <1>8 DEF ReceiptInv
  <1> QED
    BY <1>5, <1>9

\* Where an open handler is, and what it finds there.
LEMMA OpenAt ==
  ASSUME RecordsInv, NEW i \in Intents, NEW stage \in OpenStages \cup {"preflight"}, At(stage, i)
  PROVE  /\ Active(i) /\ Free /\ run.at = stage /\ run.at \in OpenStages \cup {"preflight"}
         /\ Booked(i) /\ Authorised(i) /\ Hands
         /\ mission \in [Intents -> MissionStates] /\ budget \in [Intents -> Budgets]
         /\ position \in [Intents -> Positions] /\ approval \in [Intents -> Approvals]
         /\ order[i].by \in Authority
  <1>1. run.at = stage /\ run.intent = i /\ Free
    BY DEF At
  <1>2. run.at # "idle"
    BY <1>1 DEF OpenStages
  <1>3. Active(i) /\ run.at \in OpenStages \cup {"preflight"}
    BY <1>1, <1>2 DEF Active
  <1>4. order[i] \in OrderRecords /\ Booked(i) /\ Authorised(i)
    BY <1>3, OpenActive
  <1> QED
    BY <1>1, <1>3, <1>4 DEF RecordsInv, TypesInv, Books, OrderRecords

\* What each step of an open leaves behind.
Opens(i) ==
  /\ \E outcome \in Outcomes : OpenMove(i, outcome)
  /\ Booked(i)' /\ Authorised(i)' /\ Backed(i)'

LEMMA PreflightAllowsOpens ==
  ASSUME RecordsInv, NEW i \in Intents, PreflightAllows(i)
  PROVE  Opens(i)
  <1>1. "preflight" \in OpenStages \cup {"preflight"} /\ {"approve", "mission", "gate"} \subseteq Stages \cap OpenStages
    BY DEF OpenStages, Stages
  <1>2. /\ Active(i) /\ Free /\ run.at = "preflight" /\ run.at \in OpenStages \cup {"preflight"}
        /\ Booked(i) /\ Authorised(i) /\ Hands
        /\ mission \in [Intents -> MissionStates] /\ budget \in [Intents -> Budgets]
        /\ position \in [Intents -> Positions] /\ approval \in [Intents -> Approvals]
        /\ order[i].by \in Authority
    <2>1. At("preflight", i)
      BY DEF PreflightAllows
    <2> QED
      BY <1>1, <2>1, OpenAt
  <1>3. run'.at \in {"approve", "mission", "gate"} /\ run'.intent = i /\ run'.receipt = run.receipt
    <2>1. PICK stage \in {"approve", "mission", "gate"} : Goto(stage)
      BY <1>2 DEF PreflightAllows, Authority
    <2> QED
      BY <1>1, <1>2, <2>1, GoneTo DEF Active
  <1>4. OpenMove(i, "rejected")
    BY <1>1, <1>2, <1>3 DEF PreflightAllows, OpenMove, mishaps, OpenStages, Ending, Booked, ledgers
  <1>5. Booked(i)' /\ Authorised(i)' /\ Backed(i)'
    BY <1>1, <1>2, <1>3 DEF PreflightAllows, mishaps, Goto, Booked, Authorised, Backed, Fresh, Unheld, IsAgent, OnMission, Authority, Ending, ledgers
  <1> QED
    BY <1>4, <1>5 DEF Opens, Outcomes

LEMMA PreflightDeniesOpens ==
  ASSUME RecordsInv, NEW i \in Intents, PreflightDenies(i)
  PROVE  Opens(i)
  <1>1. "preflight" \in OpenStages \cup {"preflight"} /\ {"refuse"} \subseteq Stages \cap OpenStages
    BY DEF OpenStages, Stages
  <1>2. /\ Active(i) /\ Free /\ run.at = "preflight" /\ run.at \in OpenStages \cup {"preflight"}
        /\ Booked(i) /\ Authorised(i) /\ Hands
        /\ mission \in [Intents -> MissionStates] /\ budget \in [Intents -> Budgets]
        /\ position \in [Intents -> Positions] /\ approval \in [Intents -> Approvals]
        /\ order[i].by \in Authority
    <2>1. At("preflight", i)
      BY DEF PreflightDenies
    <2> QED
      BY <1>1, <2>1, OpenAt
  <1>3. run'.at \in {"refuse"} /\ run'.intent = i /\ run'.receipt = run.receipt
    <2>1. PICK stage \in {"refuse"} : Goto(stage)
      BY <1>2 DEF PreflightDenies
    <2> QED
      BY <1>1, <1>2, <2>1, GoneTo DEF Active
  <1>4. OpenMove(i, "rejected")
    BY <1>1, <1>2, <1>3 DEF PreflightDenies, OpenMove, mishaps, OpenStages, Ending, Booked, ledgers
  <1>5. Booked(i)' /\ Authorised(i)' /\ Backed(i)'
    BY <1>1, <1>2, <1>3 DEF PreflightDenies, mishaps, Goto, Booked, Authorised, Backed, Fresh, Unheld, IsAgent, OnMission, Authority, Ending, ledgers
  <1> QED
    BY <1>4, <1>5 DEF Opens, Outcomes

LEMMA ApproveOpens ==
  ASSUME RecordsInv, NEW i \in Intents, Approve(i)
  PROVE  Opens(i)
  <1>1. "approve" \in OpenStages \cup {"preflight"} /\ {"mission", "refuse"} \subseteq Stages \cap OpenStages
    BY DEF OpenStages, Stages
  <1>2. /\ Active(i) /\ Free /\ run.at = "approve" /\ run.at \in OpenStages \cup {"preflight"}
        /\ Booked(i) /\ Authorised(i) /\ Hands
        /\ mission \in [Intents -> MissionStates] /\ budget \in [Intents -> Budgets]
        /\ position \in [Intents -> Positions] /\ approval \in [Intents -> Approvals]
        /\ order[i].by \in Authority
    <2>1. At("approve", i)
      BY DEF Approve
    <2> QED
      BY <1>1, <2>1, OpenAt
  <1>3. run'.at \in {"mission", "refuse"} /\ run'.intent = i /\ run'.receipt = run.receipt
    <2>1. PICK stage \in {"mission", "refuse"} : Goto(stage)
      BY <1>2 DEF Approve
    <2> QED
      BY <1>1, <1>2, <2>1, GoneTo DEF Active
  <1>4. OpenMove(i, "rejected")
    BY <1>1, <1>2, <1>3 DEF Approve, OpenMove, mishaps, OpenStages, Ending, Booked
  <1>5. Booked(i)' /\ Authorised(i)' /\ Backed(i)'
    <2>0. UNCHANGED <<intent, order, mission, budget, position>>
      BY DEF Approve
    <2>1. CASE Goto("mission") /\ approval' = [approval EXCEPT ![i] = "consumed"]
      <3>1. run'.at = "mission"
        BY <1>1, <1>2, <2>1, GoneTo
      <3>2. Booked(i)'
        BY <1>2, <2>0, <2>1, <3>1 DEF Booked, Authorised, Fresh, Unheld, IsAgent, OnMission, Ending, Authority, Freed
      <3>3. Authorised(i)'
        BY <1>2, <2>0, <2>1, <3>1 DEF Booked, Authorised, Fresh, IsAgent, OnMission, Authority
      <3>4. Backed(i)'
        BY <1>2, <1>3, <2>0, <2>1, <3>1 DEF Backed, Booked, Authorised, Fresh, IsAgent, OnMission, Authority, Freed
      <3> QED
        BY <3>2, <3>3, <3>4
    <2>2. CASE Goto("refuse") /\ UNCHANGED approval
      <3>1. run'.at = "refuse"
        BY <1>1, <1>2, <2>2, GoneTo
      <3>2. Booked(i)'
        BY <1>2, <2>0, <2>2, <3>1 DEF Booked, Authorised, Fresh, Unheld, IsAgent, OnMission, Ending, Authority, Freed
      <3>3. Authorised(i)'
        BY <1>2, <2>0, <2>2, <3>1 DEF Booked, Authorised, Fresh, IsAgent, OnMission, Authority
      <3>4. Backed(i)'
        BY <1>2, <1>3, <2>0, <2>2, <3>1 DEF Backed, Booked, Authorised, Fresh, IsAgent, OnMission, Authority, Freed
      <3> QED
        BY <3>2, <3>3, <3>4
    <2> QED
      BY <2>1, <2>2 DEF Approve
  <1> QED
    BY <1>4, <1>5 DEF Opens, Outcomes

LEMMA ReserveMissionOpens ==
  ASSUME RecordsInv, NEW i \in Intents, ReserveMission(i)
  PROVE  Opens(i)
  <1>1. "mission" \in OpenStages \cup {"preflight"} /\ {"gate", "refuse"} \subseteq Stages \cap OpenStages
    BY DEF OpenStages, Stages
  <1>2. /\ Active(i) /\ Free /\ run.at = "mission" /\ run.at \in OpenStages \cup {"preflight"}
        /\ Booked(i) /\ Authorised(i) /\ Hands
        /\ mission \in [Intents -> MissionStates] /\ budget \in [Intents -> Budgets]
        /\ position \in [Intents -> Positions] /\ approval \in [Intents -> Approvals]
        /\ order[i].by \in Authority
    <2>1. At("mission", i)
      BY DEF ReserveMission
    <2> QED
      BY <1>1, <2>1, OpenAt
  <1>3. run'.at \in {"gate", "refuse"} /\ run'.intent = i /\ run'.receipt = run.receipt
    <2>1. PICK stage \in {"gate", "refuse"} : Goto(stage)
      BY <1>2 DEF ReserveMission
    <2> QED
      BY <1>1, <1>2, <2>1, GoneTo DEF Active
  <1>4. OpenMove(i, "rejected")
    BY <1>1, <1>2, <1>3 DEF ReserveMission, OpenMove, mishaps, OpenStages, Ending, Booked
  <1>5. Booked(i)' /\ Authorised(i)' /\ Backed(i)'
    <2>0. UNCHANGED <<intent, order, approval, budget, position>>
      BY DEF ReserveMission
    <2>1. CASE Goto("gate") /\ mission' = [mission EXCEPT ![i] = "held"]
      <3>1. run'.at = "gate"
        BY <1>1, <1>2, <2>1, GoneTo
      <3>2. Booked(i)'
        BY <1>2, <2>0, <2>1, <3>1 DEF Booked, Authorised, Fresh, Unheld, IsAgent, OnMission, Ending, Authority, Freed
      <3>3. Authorised(i)'
        BY <1>2, <2>0, <2>1, <3>1 DEF Booked, Authorised, Fresh, IsAgent, OnMission, Authority
      <3>4. Backed(i)'
        BY <1>2, <1>3, <2>0, <2>1, <3>1 DEF Backed, Booked, Authorised, Fresh, IsAgent, OnMission, Authority, Freed
      <3> QED
        BY <3>2, <3>3, <3>4
    <2>2. CASE Goto("refuse") /\ UNCHANGED mission
      <3>1. run'.at = "refuse"
        BY <1>1, <1>2, <2>2, GoneTo
      <3>2. Booked(i)'
        BY <1>2, <2>0, <2>2, <3>1 DEF Booked, Authorised, Fresh, Unheld, IsAgent, OnMission, Ending, Authority, Freed
      <3>3. Authorised(i)'
        BY <1>2, <2>0, <2>2, <3>1 DEF Booked, Authorised, Fresh, IsAgent, OnMission, Authority
      <3>4. Backed(i)'
        BY <1>2, <1>3, <2>0, <2>2, <3>1 DEF Backed, Booked, Authorised, Fresh, IsAgent, OnMission, Authority, Freed
      <3> QED
        BY <3>2, <3>3, <3>4
    <2> QED
      BY <2>1, <2>2 DEF ReserveMission
  <1> QED
    BY <1>4, <1>5 DEF Opens, Outcomes

LEMMA GateOpens ==
  ASSUME RecordsInv, NEW i \in Intents, Gate(i)
  PROVE  Opens(i)
  <1>1. "gate" \in OpenStages \cup {"preflight"} /\ {"place", "refuse"} \subseteq Stages \cap OpenStages
    BY DEF OpenStages, Stages
  <1>2. /\ Active(i) /\ Free /\ run.at = "gate" /\ run.at \in OpenStages \cup {"preflight"}
        /\ Booked(i) /\ Authorised(i) /\ Hands
        /\ mission \in [Intents -> MissionStates] /\ budget \in [Intents -> Budgets]
        /\ position \in [Intents -> Positions] /\ approval \in [Intents -> Approvals]
        /\ order[i].by \in Authority
    <2>1. At("gate", i)
      BY DEF Gate
    <2> QED
      BY <1>1, <2>1, OpenAt
  <1>3. run'.at \in {"place", "refuse"} /\ run'.intent = i /\ run'.receipt = run.receipt
    <2>1. PICK stage \in {"place", "refuse"} : Goto(stage)
      BY <1>2 DEF Gate
    <2> QED
      BY <1>1, <1>2, <2>1, GoneTo DEF Active
  <1>4. OpenMove(i, "rejected")
    BY <1>1, <1>2, <1>3 DEF Gate, OpenMove, mishaps, OpenStages, Ending, Booked, Freed
  <1>5. Booked(i)' /\ Authorised(i)' /\ Backed(i)'
    <2>0. UNCHANGED <<intent, order, approval, position>>
      BY DEF Gate
    <2>1. CASE Goto("place") /\ budget' = (IF IsAgent(i) THEN [budget EXCEPT ![i] = "held"] ELSE budget) /\ UNCHANGED mission
      <3>1. run'.at = "place"
        BY <1>1, <1>2, <2>1, GoneTo
      <3>2. Booked(i)'
        BY <1>2, <2>0, <2>1, <3>1 DEF Booked, Authorised, Fresh, Unheld, IsAgent, OnMission, Ending, Authority, Freed
      <3>3. Authorised(i)'
        BY <1>2, <2>0, <2>1, <3>1 DEF Booked, Authorised, Fresh, IsAgent, OnMission, Authority
      <3>4. Backed(i)'
        BY <1>2, <1>3, <2>0, <2>1, <3>1 DEF Backed, Booked, Authorised, Fresh, IsAgent, OnMission, Authority, Freed
      <3> QED
        BY <3>2, <3>3, <3>4
    <2>2. CASE Goto("refuse") /\ mission' = Freed(mission, i) /\ UNCHANGED budget
      <3>1. run'.at = "refuse"
        BY <1>1, <1>2, <2>2, GoneTo
      <3>2. Booked(i)'
        BY <1>2, <2>0, <2>2, <3>1 DEF Booked, Authorised, Fresh, Unheld, IsAgent, OnMission, Ending, Authority, Freed
      <3>3. Authorised(i)'
        BY <1>2, <2>0, <2>2, <3>1 DEF Booked, Authorised, Fresh, IsAgent, OnMission, Authority
      <3>4. Backed(i)'
        BY <1>2, <1>3, <2>0, <2>2, <3>1 DEF Backed, Booked, Authorised, Fresh, IsAgent, OnMission, Authority, Freed
      <3> QED
        BY <3>2, <3>3, <3>4
    <2> QED
      BY <2>1, <2>2 DEF Gate
  <1> QED
    BY <1>4, <1>5 DEF Opens, Outcomes

LEMMA PlaceOpens ==
  ASSUME RecordsInv, NEW i \in Intents, Place(i)
  PROVE  Opens(i)
  <1>1. "place" \in OpenStages \cup {"preflight"} /\ {"settle", "unplaced"} \subseteq Stages \cap OpenStages
    BY DEF OpenStages, Stages
  <1>2. /\ Active(i) /\ Free /\ run.at = "place" /\ run.at \in OpenStages \cup {"preflight"}
        /\ Booked(i) /\ Authorised(i) /\ Hands
        /\ mission \in [Intents -> MissionStates] /\ budget \in [Intents -> Budgets]
        /\ position \in [Intents -> Positions] /\ approval \in [Intents -> Approvals]
        /\ order[i].by \in Authority
    <2>1. At("place", i)
      BY DEF Place
    <2> QED
      BY <1>1, <2>1, OpenAt
  <1>3. run'.at \in {"settle", "unplaced"} /\ run'.intent = i /\ run'.receipt = run.receipt
    <2>1. PICK stage \in {"settle", "unplaced"} : Goto(stage)
      BY <1>2 DEF Place
    <2> QED
      BY <1>1, <1>2, <2>1, GoneTo DEF Active
  <1>4. OpenMove(i, "rejected")
    BY <1>1, <1>2, <1>3 DEF Place, OpenMove, mishaps, OpenStages, Ending, Booked, Freed
  <1>5. Booked(i)' /\ Authorised(i)' /\ Backed(i)'
    <2>0. UNCHANGED <<intent, order, approval>>
      BY DEF Place
    <2>1. CASE Goto("settle") /\ position' = [position EXCEPT ![i] = "open"] /\ UNCHANGED <<mission, budget>>
      <3>1. run'.at = "settle"
        BY <1>1, <1>2, <2>1, GoneTo
      <3>2. Booked(i)'
        BY <1>2, <2>0, <2>1, <3>1 DEF Booked, Authorised, Fresh, Unheld, IsAgent, OnMission, Ending, Authority, Freed
      <3>3. Authorised(i)'
        BY <1>2, <2>0, <2>1, <3>1 DEF Booked, Authorised, Fresh, IsAgent, OnMission, Authority
      <3>4. Backed(i)'
        BY <1>2, <1>3, <2>0, <2>1, <3>1 DEF Backed, Booked, Authorised, Fresh, IsAgent, OnMission, Authority, Freed
      <3> QED
        BY <3>2, <3>3, <3>4
    <2>2. CASE Goto("unplaced") /\ budget' = Freed(budget, i) /\ mission' = Freed(mission, i) /\ UNCHANGED position
      <3>1. run'.at = "unplaced"
        BY <1>1, <1>2, <2>2, GoneTo
      <3>2. Booked(i)'
        BY <1>2, <2>0, <2>2, <3>1 DEF Booked, Authorised, Fresh, Unheld, IsAgent, OnMission, Ending, Authority, Freed
      <3>3. Authorised(i)'
        BY <1>2, <2>0, <2>2, <3>1 DEF Booked, Authorised, Fresh, IsAgent, OnMission, Authority
      <3>4. Backed(i)'
        BY <1>2, <1>3, <2>0, <2>2, <3>1 DEF Backed, Booked, Authorised, Fresh, IsAgent, OnMission, Authority, Freed
      <3> QED
        BY <3>2, <3>3, <3>4
    <2> QED
      BY <2>1, <2>2 DEF Place
  <1> QED
    BY <1>4, <1>5 DEF Opens, Outcomes

LEMMA SettleSpendOpens ==
  ASSUME RecordsInv, NEW i \in Intents, SettleSpend(i)
  PROVE  Opens(i)
  <1>1. "settle" \in OpenStages \cup {"preflight"} /\ {"attach", "accept"} \subseteq Stages \cap OpenStages
    BY DEF OpenStages, Stages
  <1>2. /\ Active(i) /\ Free /\ run.at = "settle" /\ run.at \in OpenStages \cup {"preflight"}
        /\ Booked(i) /\ Authorised(i) /\ Hands
        /\ mission \in [Intents -> MissionStates] /\ budget \in [Intents -> Budgets]
        /\ position \in [Intents -> Positions] /\ approval \in [Intents -> Approvals]
        /\ order[i].by \in Authority
    <2>1. At("settle", i)
      BY DEF SettleSpend
    <2> QED
      BY <1>1, <2>1, OpenAt
  <1>3. run'.at \in {"attach", "accept"} /\ run'.intent = i /\ run'.receipt = run.receipt
    <2>1. PICK stage \in {"attach", "accept"} : Goto(stage)
      BY <1>2 DEF SettleSpend
    <2> QED
      BY <1>1, <1>2, <2>1, GoneTo DEF Active
  <1>4. OpenMove(i, "rejected")
    BY <1>1, <1>2, <1>3 DEF SettleSpend, OpenMove, mishaps, OpenStages, Ending, Booked
  <1>5. Booked(i)' /\ Authorised(i)' /\ Backed(i)'
    BY <1>1, <1>2, <1>3 DEF SettleSpend, mishaps, Goto, Booked, Authorised, Backed, Fresh, Unheld, IsAgent, OnMission, Authority, Ending
  <1> QED
    BY <1>4, <1>5 DEF Opens, Outcomes

LEMMA AttachOpens ==
  ASSUME RecordsInv, NEW i \in Intents, Attach(i)
  PROVE  Opens(i)
  <1>1. "attach" \in OpenStages \cup {"preflight"} /\ {"accept"} \subseteq Stages \cap OpenStages
    BY DEF OpenStages, Stages
  <1>2. /\ Active(i) /\ Free /\ run.at = "attach" /\ run.at \in OpenStages \cup {"preflight"}
        /\ Booked(i) /\ Authorised(i) /\ Hands
        /\ mission \in [Intents -> MissionStates] /\ budget \in [Intents -> Budgets]
        /\ position \in [Intents -> Positions] /\ approval \in [Intents -> Approvals]
        /\ order[i].by \in Authority
    <2>1. At("attach", i)
      BY DEF Attach
    <2> QED
      BY <1>1, <2>1, OpenAt
  <1>3. run'.at \in {"accept"} /\ run'.intent = i /\ run'.receipt = run.receipt
    <2>1. PICK stage \in {"accept"} : Goto(stage)
      BY <1>2 DEF Attach
    <2> QED
      BY <1>1, <1>2, <2>1, GoneTo DEF Active
  <1>4. OpenMove(i, "rejected")
    BY <1>1, <1>2, <1>3 DEF Attach, OpenMove, mishaps, OpenStages, Ending, Booked
  <1>5. Booked(i)' /\ Authorised(i)' /\ Backed(i)'
    BY <1>1, <1>2, <1>3 DEF Attach, mishaps, Goto, Booked, Authorised, Backed, Fresh, Unheld, IsAgent, OnMission, Authority, Ending
  <1> QED
    BY <1>4, <1>5 DEF Opens, Outcomes

LEMMA AttachThrowsOpens ==
  ASSUME RecordsInv, NEW i \in Intents, AttachThrows(i)
  PROVE  Opens(i)
  <1>1. "attach" \in OpenStages \cup {"preflight"} /\ {"reversed"} \subseteq Stages \cap OpenStages
    BY DEF OpenStages, Stages
  <1>2. /\ Active(i) /\ Free /\ run.at = "attach" /\ run.at \in OpenStages \cup {"preflight"}
        /\ Booked(i) /\ Authorised(i) /\ Hands
        /\ mission \in [Intents -> MissionStates] /\ budget \in [Intents -> Budgets]
        /\ position \in [Intents -> Positions] /\ approval \in [Intents -> Approvals]
        /\ order[i].by \in Authority
    <2>1. At("attach", i)
      BY DEF AttachThrows
    <2> QED
      BY <1>1, <2>1, OpenAt
  <1>3. run'.at \in {"reversed"} /\ run'.intent = i /\ run'.receipt = run.receipt
    <2>1. PICK stage \in {"reversed"} : Goto(stage)
      BY <1>2 DEF AttachThrows
    <2> QED
      BY <1>1, <1>2, <2>1, GoneTo DEF Active
  <1>4. OpenMove(i, "rejected")
    BY <1>1, <1>2, <1>3 DEF AttachThrows, OpenMove, mishaps, OpenStages, Ending, Booked
  <1>5. Booked(i)' /\ Authorised(i)' /\ Backed(i)'
    BY <1>1, <1>2, <1>3 DEF AttachThrows, mishaps, Goto, Booked, Authorised, Backed, Fresh, Unheld, IsAgent, OnMission, Authority, Ending
  <1> QED
    BY <1>4, <1>5 DEF Opens, Outcomes

LEMMA PlaceThrowsOpens ==
  ASSUME RecordsInv, NEW i \in Intents, PlaceThrows(i)
  PROVE  Opens(i)
  <1>1. "place" \in OpenStages \cup {"preflight"} /\ {"unwind"} \subseteq Stages \cap OpenStages
    BY DEF OpenStages, Stages
  <1>2. /\ Active(i) /\ Free /\ run.at = "place" /\ run.at \in OpenStages \cup {"preflight"}
        /\ Booked(i) /\ Authorised(i) /\ Hands
        /\ mission \in [Intents -> MissionStates] /\ budget \in [Intents -> Budgets]
        /\ position \in [Intents -> Positions] /\ approval \in [Intents -> Approvals]
        /\ order[i].by \in Authority
    <2>1. At("place", i)
      BY DEF PlaceThrows
    <2> QED
      BY <1>1, <2>1, OpenAt
  <1>3. run'.at \in {"unwind"} /\ run'.intent = i /\ run'.receipt = run.receipt
    <2>1. PICK stage \in {"unwind"} : Goto(stage)
      BY <1>2 DEF PlaceThrows
    <2> QED
      BY <1>1, <1>2, <2>1, GoneTo DEF Active
  <1>4. OpenMove(i, "rejected")
    BY <1>1, <1>2, <1>3 DEF PlaceThrows, OpenMove, mishaps, OpenStages, Ending, Booked, ledgers
  <1>5. Booked(i)' /\ Authorised(i)' /\ Backed(i)'
    BY <1>1, <1>2, <1>3 DEF PlaceThrows, mishaps, Goto, Booked, Authorised, Backed, Fresh, Unheld, IsAgent, OnMission, Authority, Ending, ledgers
  <1> QED
    BY <1>4, <1>5 DEF Opens, Outcomes

LEMMA UnwindOpens ==
  ASSUME RecordsInv, NEW i \in Intents, Unwind(i)
  PROVE  Opens(i)
  <1>1. "unwind" \in OpenStages \cup {"preflight"} /\ {"unwound"} \subseteq Stages \cap OpenStages
    BY DEF OpenStages, Stages
  <1>2. /\ Active(i) /\ Free /\ run.at = "unwind" /\ run.at \in OpenStages \cup {"preflight"}
        /\ Booked(i) /\ Authorised(i) /\ Hands
        /\ mission \in [Intents -> MissionStates] /\ budget \in [Intents -> Budgets]
        /\ position \in [Intents -> Positions] /\ approval \in [Intents -> Approvals]
        /\ order[i].by \in Authority
    <2>1. At("unwind", i)
      BY DEF Unwind
    <2> QED
      BY <1>1, <2>1, OpenAt
  <1>3. run'.at \in {"unwound"} /\ run'.intent = i /\ run'.receipt = run.receipt
    <2>1. PICK stage \in {"unwound"} : Goto(stage)
      BY <1>2 DEF Unwind
    <2> QED
      BY <1>1, <1>2, <2>1, GoneTo DEF Active
  <1>4. OpenMove(i, "rejected")
    BY <1>1, <1>2, <1>3 DEF Unwind, OpenMove, mishaps, OpenStages, Ending, Booked, Freed
  <1>5. Booked(i)' /\ Authorised(i)' /\ Backed(i)'
    BY <1>1, <1>2, <1>3 DEF Unwind, mishaps, Goto, Booked, Authorised, Backed, Fresh, Unheld, IsAgent, OnMission, Authority, Ending, Freed
  <1> QED
    BY <1>4, <1>5 DEF Opens, Outcomes

LEMMA RefuseOrderOpens ==
  ASSUME RecordsInv, NEW i \in Intents, RefuseOrder(i)
  PROVE  Opens(i)
  <1>1. "refuse" \in OpenStages \cup {"preflight"} /\ {"fail"} \subseteq Stages
    BY DEF OpenStages, Stages, Ending
  <1>2. /\ Active(i) /\ Free /\ run.at = "refuse" /\ run.at \in OpenStages \cup {"preflight"}
        /\ Booked(i) /\ Authorised(i) /\ Hands
        /\ mission \in [Intents -> MissionStates] /\ budget \in [Intents -> Budgets]
        /\ position \in [Intents -> Positions] /\ approval \in [Intents -> Approvals]
        /\ order[i].by \in Authority
    <2>1. At("refuse", i)
      BY DEF RefuseOrder
    <2> QED
      BY <1>1, <2>1, OpenAt
  <1>3. CASE WriteReceipt(i, "rejected", "fail")
    <2>0. UNCHANGED <<intent, order, ledgers, guard, deaths, resets, probes>>
      BY DEF RefuseOrder
    <2>1. receipts' = receipts \cup {Written(i, "rejected")} /\ run' = [run EXCEPT !.at = "fail", !.receipt = TRUE]
          /\ faults' = faults
      BY <1>3 DEF WriteReceipt
    <2>2. run'.at = "fail" /\ run'.intent = i /\ run'.receipt = TRUE
      BY <1>1, <1>2, <2>1, RunMoved DEF Hands, Active
    <2>3. OpenMove(i, "rejected")
      BY <1>1, <1>2, <2>0, <2>1, <2>2 DEF OpenMove, ledgers, OpenStages, Ending, Booked
    <2>4. Booked(i)' /\ Authorised(i)' /\ Backed(i)'
      BY <1>1, <1>2, <2>0, <2>2 DEF ledgers, Booked, Authorised, Backed, Fresh, Unheld, IsAgent, OnMission, Authority, Ending
    <2> QED
      BY <2>3, <2>4 DEF Opens, Outcomes
  <1>4. CASE LoseReceipt("fail")
    <2>0. UNCHANGED <<intent, order, ledgers, guard, deaths, resets, probes>>
      BY DEF RefuseOrder
    <2>1. receipts' = receipts /\ Goto("fail") /\ faults' = faults + 1
      BY <1>4 DEF LoseReceipt
    <2>2. run'.at = "fail" /\ run'.intent = i /\ run'.receipt = run.receipt
      BY <1>1, <1>2, <2>1, GoneTo DEF Active
    <2>3. OpenMove(i, "rejected")
      BY <1>1, <1>2, <2>0, <2>1, <2>2 DEF OpenMove, ledgers, OpenStages, Ending, Booked
    <2>4. Booked(i)' /\ Authorised(i)' /\ Backed(i)'
      BY <1>1, <1>2, <2>0, <2>2 DEF ledgers, Booked, Authorised, Backed, Fresh, Unheld, IsAgent, OnMission, Authority, Ending
    <2> QED
      BY <2>3, <2>4 DEF Opens, Outcomes
  <1> QED
    BY <1>3, <1>4 DEF RefuseOrder

LEMMA UnplacedOpens ==
  ASSUME RecordsInv, NEW i \in Intents, Unplaced(i)
  PROVE  Opens(i)
  <1>1. "unplaced" \in OpenStages \cup {"preflight"} /\ {"succeed", "unwind"} \subseteq Stages
    BY DEF OpenStages, Stages, Ending
  <1>2. /\ Active(i) /\ Free /\ run.at = "unplaced" /\ run.at \in OpenStages \cup {"preflight"}
        /\ Booked(i) /\ Authorised(i) /\ Hands
        /\ mission \in [Intents -> MissionStates] /\ budget \in [Intents -> Budgets]
        /\ position \in [Intents -> Positions] /\ approval \in [Intents -> Approvals]
        /\ order[i].by \in Authority
    <2>1. At("unplaced", i)
      BY DEF Unplaced
    <2> QED
      BY <1>1, <2>1, OpenAt
  <1>3. CASE WriteReceipt(i, "rejected", "succeed")
    <2>0. UNCHANGED <<intent, order, ledgers, guard, deaths, resets, probes>>
      BY DEF Unplaced
    <2>1. receipts' = receipts \cup {Written(i, "rejected")} /\ run' = [run EXCEPT !.at = "succeed", !.receipt = TRUE]
          /\ faults' = faults
      BY <1>3 DEF WriteReceipt
    <2>2. run'.at = "succeed" /\ run'.intent = i /\ run'.receipt = TRUE
      BY <1>1, <1>2, <2>1, RunMoved DEF Hands, Active
    <2>3. OpenMove(i, "rejected")
      BY <1>1, <1>2, <2>0, <2>1, <2>2 DEF OpenMove, ledgers, OpenStages, Ending, Booked
    <2>4. Booked(i)' /\ Authorised(i)' /\ Backed(i)'
      BY <1>1, <1>2, <2>0, <2>2 DEF ledgers, Booked, Authorised, Backed, Fresh, Unheld, IsAgent, OnMission, Authority, Ending
    <2> QED
      BY <2>3, <2>4 DEF Opens, Outcomes
  <1>4. CASE LoseReceipt("unwind")
    <2>0. UNCHANGED <<intent, order, ledgers, guard, deaths, resets, probes>>
      BY DEF Unplaced
    <2>1. receipts' = receipts /\ Goto("unwind") /\ faults' = faults + 1
      BY <1>4 DEF LoseReceipt
    <2>2. run'.at = "unwind" /\ run'.intent = i /\ run'.receipt = run.receipt
      BY <1>1, <1>2, <2>1, GoneTo DEF Active
    <2>3. OpenMove(i, "rejected")
      BY <1>1, <1>2, <2>0, <2>1, <2>2 DEF OpenMove, ledgers, OpenStages, Ending, Booked
    <2>4. Booked(i)' /\ Authorised(i)' /\ Backed(i)'
      BY <1>1, <1>2, <2>0, <2>2 DEF ledgers, Booked, Authorised, Backed, Fresh, Unheld, IsAgent, OnMission, Authority, Ending
    <2> QED
      BY <2>3, <2>4 DEF Opens, Outcomes
  <1> QED
    BY <1>3, <1>4 DEF Unplaced

LEMMA ReversedOpens ==
  ASSUME RecordsInv, NEW i \in Intents, Reversed(i)
  PROVE  Opens(i)
  <1>1. "reversed" \in OpenStages \cup {"preflight"} /\ {"fail", "unwind"} \subseteq Stages
    BY DEF OpenStages, Stages, Ending
  <1>2. /\ Active(i) /\ Free /\ run.at = "reversed" /\ run.at \in OpenStages \cup {"preflight"}
        /\ Booked(i) /\ Authorised(i) /\ Hands
        /\ mission \in [Intents -> MissionStates] /\ budget \in [Intents -> Budgets]
        /\ position \in [Intents -> Positions] /\ approval \in [Intents -> Approvals]
        /\ order[i].by \in Authority
    <2>1. At("reversed", i)
      BY DEF Reversed
    <2> QED
      BY <1>1, <2>1, OpenAt
  <1>3. CASE WriteReceipt(i, "reversed", "fail")
    <2>0. UNCHANGED <<intent, order, ledgers, guard, deaths, resets, probes>>
      BY DEF Reversed
    <2>1. receipts' = receipts \cup {Written(i, "reversed")} /\ run' = [run EXCEPT !.at = "fail", !.receipt = TRUE]
          /\ faults' = faults
      BY <1>3 DEF WriteReceipt
    <2>2. run'.at = "fail" /\ run'.intent = i /\ run'.receipt = TRUE
      BY <1>1, <1>2, <2>1, RunMoved DEF Hands, Active
    <2>3. OpenMove(i, "reversed")
      BY <1>1, <1>2, <2>0, <2>1, <2>2 DEF OpenMove, ledgers, OpenStages, Ending, Booked
    <2>4. Booked(i)' /\ Authorised(i)' /\ Backed(i)'
      BY <1>1, <1>2, <2>0, <2>2 DEF ledgers, Booked, Authorised, Backed, Fresh, Unheld, IsAgent, OnMission, Authority, Ending
    <2> QED
      BY <2>3, <2>4 DEF Opens, Outcomes
  <1>4. CASE LoseReceipt("unwind")
    <2>0. UNCHANGED <<intent, order, ledgers, guard, deaths, resets, probes>>
      BY DEF Reversed
    <2>1. receipts' = receipts /\ Goto("unwind") /\ faults' = faults + 1
      BY <1>4 DEF LoseReceipt
    <2>2. run'.at = "unwind" /\ run'.intent = i /\ run'.receipt = run.receipt
      BY <1>1, <1>2, <2>1, GoneTo DEF Active
    <2>3. OpenMove(i, "rejected")
      BY <1>1, <1>2, <2>0, <2>1, <2>2 DEF OpenMove, ledgers, OpenStages, Ending, Booked
    <2>4. Booked(i)' /\ Authorised(i)' /\ Backed(i)'
      BY <1>1, <1>2, <2>0, <2>2 DEF ledgers, Booked, Authorised, Backed, Fresh, Unheld, IsAgent, OnMission, Authority, Ending
    <2> QED
      BY <2>3, <2>4 DEF Opens, Outcomes
  <1> QED
    BY <1>3, <1>4 DEF Reversed

LEMMA UnwoundOpens ==
  ASSUME RecordsInv, NEW i \in Intents, Unwound(i)
  PROVE  Opens(i)
  <1>1. "unwound" \in OpenStages \cup {"preflight"} /\ {"fail"} \subseteq Stages
    BY DEF OpenStages, Stages, Ending
  <1>2. /\ Active(i) /\ Free /\ run.at = "unwound" /\ run.at \in OpenStages \cup {"preflight"}
        /\ Booked(i) /\ Authorised(i) /\ Hands
        /\ mission \in [Intents -> MissionStates] /\ budget \in [Intents -> Budgets]
        /\ position \in [Intents -> Positions] /\ approval \in [Intents -> Approvals]
        /\ order[i].by \in Authority
    <2>1. At("unwound", i)
      BY DEF Unwound
    <2> QED
      BY <1>1, <2>1, OpenAt
  <1>3. CASE WriteReceipt(i, "rejected", "fail")
    <2>0. UNCHANGED <<intent, order, ledgers, guard, deaths, resets, probes>>
      BY DEF Unwound
    <2>1. receipts' = receipts \cup {Written(i, "rejected")} /\ run' = [run EXCEPT !.at = "fail", !.receipt = TRUE]
          /\ faults' = faults
      BY <1>3 DEF WriteReceipt
    <2>2. run'.at = "fail" /\ run'.intent = i /\ run'.receipt = TRUE
      BY <1>1, <1>2, <2>1, RunMoved DEF Hands, Active
    <2>3. OpenMove(i, "rejected")
      BY <1>1, <1>2, <2>0, <2>1, <2>2 DEF OpenMove, ledgers, OpenStages, Ending, Booked
    <2>4. Booked(i)' /\ Authorised(i)' /\ Backed(i)'
      BY <1>1, <1>2, <2>0, <2>2 DEF ledgers, Booked, Authorised, Backed, Fresh, Unheld, IsAgent, OnMission, Authority, Ending
    <2> QED
      BY <2>3, <2>4 DEF Opens, Outcomes
  <1>4. CASE LoseReceipt("fail")
    <2>0. UNCHANGED <<intent, order, ledgers, guard, deaths, resets, probes>>
      BY DEF Unwound
    <2>1. receipts' = receipts /\ Goto("fail") /\ faults' = faults + 1
      BY <1>4 DEF LoseReceipt
    <2>2. run'.at = "fail" /\ run'.intent = i /\ run'.receipt = run.receipt
      BY <1>1, <1>2, <2>1, GoneTo DEF Active
    <2>3. OpenMove(i, "rejected")
      BY <1>1, <1>2, <2>0, <2>1, <2>2 DEF OpenMove, ledgers, OpenStages, Ending, Booked
    <2>4. Booked(i)' /\ Authorised(i)' /\ Backed(i)'
      BY <1>1, <1>2, <2>0, <2>2 DEF ledgers, Booked, Authorised, Backed, Fresh, Unheld, IsAgent, OnMission, Authority, Ending
    <2> QED
      BY <2>3, <2>4 DEF Opens, Outcomes
  <1> QED
    BY <1>3, <1>4 DEF Unwound

LEMMA AcceptOpens ==
  ASSUME RecordsInv, NEW i \in Intents, Accept(i)
  PROVE  Opens(i)
  <1>1. "accept" \in OpenStages \cup {"preflight"} /\ {"succeed"} \subseteq Stages
    BY DEF OpenStages, Stages, Ending
  <1>2. /\ Active(i) /\ Free /\ run.at = "accept" /\ run.at \in OpenStages \cup {"preflight"}
        /\ Booked(i) /\ Authorised(i) /\ Hands
        /\ mission \in [Intents -> MissionStates] /\ budget \in [Intents -> Budgets]
        /\ position \in [Intents -> Positions] /\ approval \in [Intents -> Approvals]
        /\ order[i].by \in Authority
    <2>1. At("accept", i)
      BY DEF Accept
    <2> QED
      BY <1>1, <2>1, OpenAt
  <1>3. CASE WriteReceipt(i, "accepted", "succeed")
    <2>0. UNCHANGED <<intent, order, ledgers, guard, deaths, resets, probes>>
      BY DEF Accept
    <2>1. receipts' = receipts \cup {Written(i, "accepted")} /\ run' = [run EXCEPT !.at = "succeed", !.receipt = TRUE]
          /\ faults' = faults
      BY <1>3 DEF WriteReceipt
    <2>2. run'.at = "succeed" /\ run'.intent = i /\ run'.receipt = TRUE
      BY <1>1, <1>2, <2>1, RunMoved DEF Hands, Active
    <2>3. OpenMove(i, "accepted")
      BY <1>1, <1>2, <2>0, <2>1, <2>2 DEF OpenMove, ledgers, OpenStages, Ending, Booked
    <2>4. Booked(i)' /\ Authorised(i)' /\ Backed(i)'
      BY <1>1, <1>2, <2>0, <2>2 DEF ledgers, Booked, Authorised, Backed, Fresh, Unheld, IsAgent, OnMission, Authority, Ending
    <2> QED
      BY <2>3, <2>4 DEF Opens, Outcomes
  <1> QED
    BY <1>3 DEF Accept

LEMMA AcceptThrowsOpens ==
  ASSUME RecordsInv, NEW i \in Intents, AcceptThrows(i)
  PROVE  Opens(i)
  <1>1. "accept" \in OpenStages \cup {"preflight"} /\ {"unwind"} \subseteq Stages
    BY DEF OpenStages, Stages, Ending
  <1>2. /\ Active(i) /\ Free /\ run.at = "accept" /\ run.at \in OpenStages \cup {"preflight"}
        /\ Booked(i) /\ Authorised(i) /\ Hands
        /\ mission \in [Intents -> MissionStates] /\ budget \in [Intents -> Budgets]
        /\ position \in [Intents -> Positions] /\ approval \in [Intents -> Approvals]
        /\ order[i].by \in Authority
    <2>1. At("accept", i)
      BY DEF AcceptThrows
    <2> QED
      BY <1>1, <2>1, OpenAt
  <1>3. CASE LoseReceipt("unwind")
    <2>0. UNCHANGED <<intent, order, approval, budget, guard, deaths, resets, probes>>
      BY DEF AcceptThrows
    <2>1. receipts' = receipts /\ Goto("unwind") /\ faults' = faults + 1
      BY <1>3 DEF LoseReceipt
    <2>2. run'.at = "unwind" /\ run'.intent = i /\ run'.receipt = run.receipt
      BY <1>1, <1>2, <2>1, GoneTo DEF Active
    <2>9. /\ position' = [position EXCEPT ![i] = "closed"]
          /\ mission' = IF mission[i] = "committed" THEN [mission EXCEPT ![i] = "closed"] ELSE mission
      BY DEF AcceptThrows
    <2>3. OpenMove(i, "rejected")
      BY <1>1, <1>2, <2>0, <2>1, <2>2, <2>9 DEF OpenMove, ledgers, OpenStages, Ending, Booked
    <2>4. Booked(i)' /\ Authorised(i)' /\ Backed(i)'
      BY <1>1, <1>2, <2>0, <2>2, <2>9 DEF ledgers, Booked, Authorised, Backed, Fresh, Unheld, IsAgent, OnMission, Authority, Ending
    <2> QED
      BY <2>3, <2>4 DEF Opens, Outcomes
  <1> QED
    BY <1>3 DEF AcceptThrows

LEMMA OrdersOpen ==
  ASSUME RecordsInv, NEW i \in Intents, Authorizing(i) \/ Executing(i)
  PROVE  Opens(i)
  <1>1. CASE Authorizing(i)
    BY <1>1, PreflightAllowsOpens, PreflightDeniesOpens, ApproveOpens, ReserveMissionOpens, GateOpens, RefuseOrderOpens
       DEF Authorizing
  <1>2. CASE Executing(i)
    BY <1>2, PlaceOpens, PlaceThrowsOpens, UnplacedOpens, SettleSpendOpens, AttachOpens, AttachThrowsOpens,
       ReversedOpens, AcceptOpens, AcceptThrowsOpens, UnwindOpens, UnwoundOpens DEF Executing
  <1> QED
    BY <1>1, <1>2

\* So every step of an open keeps the records.
LEMMA OpenKeeps ==
  ASSUME RecordsInv, NEW i \in Intents, Authorizing(i) \/ Executing(i)
  PROVE  RecordsInv'
  <1>1. TypesInv'
    BY AuthorizingTypes, ExecutingTypes DEF RecordsInv, TypesInv
  <1>2. Opens(i)
    BY OrdersOpen
  <1>3. PICK outcome \in Outcomes : OpenMove(i, outcome)
    BY <1>2 DEF Opens
  <1>4. LaneInv'
    BY <1>3, OpenMoveLane
  <1>5. StageInv'
    <2> SUFFICES ASSUME NEW j \in Intents, Active(j)' PROVE Booked(j)' /\ Authorised(j)' /\ Told(j)'
      BY DEF StageInv
    <2>1. j = i /\ Told(j)'
      BY <1>3, OpenMoveTold
    <2> QED
      BY <1>2, <2>1 DEF Opens
  <1>6. BookInv'
    <2> SUFFICES ASSUME NEW j \in Intents PROVE Kept(j)' /\ Backed(j)'
      BY DEF BookInv
    <2>1. Kept(j)' /\ (j # i => Backed(j)')
      BY <1>3, OpenMoveKept
    <2> QED
      BY <1>2, <2>1 DEF Opens
  <1>7. ReceiptInv' /\ SingleInv'
    BY <1>3, OpenMoveReceipts
  <1> QED
    BY <1>1, <1>4, <1>5, <1>6, <1>7 DEF RecordsInv

-----------------------------------------------------------------------------
(* Paper orders: the steps that close, and everybody else's                *)

\* A receipt that fits the chain.
News(r) ==
  /\ Entry(r)' /\ Truth(r)'
  /\ ~r.probe /\ r.intent # NoIntent => Unwritten(r.intent) /\ intent[r.intent].status # "none"

\* What a step that opens nothing, reserves nothing and settles no intent may
\* do to the books.
Quiet(r) ==
  /\ UNCHANGED <<intent, order, budget>>
  /\ \A j \in Intents :
       /\ approval'[j] = approval[j] \/ (approval[j] = "none" /\ approval'[j] = "approved")
       /\ \/ position'[j] = position[j]
          \/ position[j] = "open" /\ position'[j] = "closed"
          \/ position[j] # "none" /\ position'[j] = "wiped" /\ resets' > 0
       /\ \/ mission'[j] = mission[j]
          \/ mission[j] = "committed" /\ mission'[j] = "closed" /\ position[j] # "open"
          \/ mission[j] = "held" /\ mission'[j] = "expired" /\ run.intent # j
  /\ receipts' = receipts \/ (receipts' = receipts \cup {r} /\ News(r))
  /\ run'.intent = run.intent \/ (run'.intent = NoIntent /\ faults' + deaths' > 0)
  /\ faults' \in {faults, faults + 1} /\ deaths' \in {deaths, deaths + 1}
  /\ resets' \in {resets, resets + 1} /\ probes' \in {probes, probes + 1}

LEMMA QuietKeepsBooks ==
  ASSUME RecordsInv, NEW r, Quiet(r)
  PROVE  BookInv'
  <1> SUFFICES ASSUME NEW j \in Intents PROVE Kept(j)' /\ Backed(j)'
    BY DEF BookInv
  <1>1. Kept(j) /\ Backed(j)
    BY DEF RecordsInv, BookInv
  <1>2. intent' = intent /\ order' = order /\ budget' = budget
    BY DEF Quiet
  <1>3. /\ approval'[j] = approval[j] \/ (approval[j] = "none" /\ approval'[j] = "approved")
        /\ \/ position'[j] = position[j]
           \/ position[j] = "open" /\ position'[j] = "closed"
           \/ position[j] # "none" /\ position'[j] = "wiped" /\ resets' > 0
        /\ \/ mission'[j] = mission[j]
           \/ mission[j] = "committed" /\ mission'[j] = "closed" /\ position[j] # "open"
           \/ mission[j] = "held" /\ mission'[j] = "expired" /\ run.intent # j
    BY DEF Quiet
  <1>4. (Fresh(j) => Fresh(j)') /\ (Unheld(j) => Unheld(j)')
    BY <1>2, <1>3 DEF Fresh, Unheld
  <1>5. intent[j].status = "none" => (Unwritten(j) => Unwritten(j)')
    <2>1. receipts' = receipts \/ (receipts' = receipts \cup {r} /\ News(r))
      BY DEF Quiet
    <2> QED
      BY <2>1, IntentAssumption DEF News, Unwritten
  <1>6. Accepted(j) => Accepted(j)'
    BY DEF Quiet, Accepted
  <1>7. \A k \in Intents : position[k] # "none" => position'[k] # "none"
    BY DEF Quiet
  <1>8. j # NoIntent
    BY IntentAssumption
  <1>9. faults \in Nat /\ deaths \in Nat /\ resets \in Nat
    BY DEF RecordsInv, TypesInv, Mishaps
  <1>10. /\ faults' \in {faults, faults + 1} /\ deaths' \in {deaths, deaths + 1}
         /\ resets' \in {resets, resets + 1}
    BY DEF Quiet
  <1>11. /\ faults > 0 => faults' > 0
         /\ resets > 0 => resets' > 0
         /\ faults + deaths > 0 => faults' + deaths' > 0
    <2>1. (faults' = faults \/ faults' = faults + 1) /\ (deaths' = deaths \/ deaths' = deaths + 1)
          /\ (resets' = resets \/ resets' = resets + 1)
      BY <1>10
    <2>2. (faults > 0 => faults' > 0) /\ (resets > 0 => resets' > 0)
      BY <1>9, <2>1
    <2>3. faults + deaths > 0 => faults' + deaths' > 0
      BY <1>9, <2>1
    <2> QED
      BY <2>2, <2>3
  <1>12. run'.intent = run.intent \/ (run'.intent = NoIntent /\ faults' + deaths' > 0)
    BY DEF Quiet
  <1>13. Kept(j)'
    <2>1. intent'[j].status = "none" =>
            Fresh(j)' /\ approval'[j] # "consumed" /\ order'[j].action = "open" /\ Unwritten(j)'
      BY <1>1, <1>2, <1>3, <1>4, <1>5 DEF Kept
    <2>2. intent'[j].status \in {"succeeded", "failed"} =>
            Unheld(j)' /\ (position'[j] = "open" => Accepted(j)') /\ (intent'[j].receipt \/ faults' > 0)
      BY <1>1, <1>2, <1>3, <1>4, <1>6, <1>11 DEF Kept
    <2>3. intent'[j].status = "pending" /\ run'.intent # j => faults' + deaths' > 0
      <3>1. intent[j].status = "pending" /\ run.intent # j => faults + deaths > 0
        BY <1>1 DEF Kept
      <3> QED
        BY <1>2, <1>11, <1>12, <3>1
    <2>4. position'[j] = "wiped" => resets' > 0
      BY <1>1, <1>3, <1>11 DEF Kept
    <2>5. order'[j].action = "close" =>
            Fresh(j)' /\ order'[j].target \in Intents /\ position'[order'[j].target] # "none"
      BY <1>1, <1>2, <1>4, <1>7 DEF Kept
    <2> QED
      BY <2>1, <2>2, <2>3, <2>4, <2>5 DEF Kept
  <1>14. Backed(j)'
    <2> SUFFICES ASSUME position'[j] = "open" PROVE Backed(j)'
      BY DEF Backed
    <2>1. position[j] = "open"
      BY <1>3
    <2>2. (IsAgent(j) => budget[j] \in {"held", "committed"})
          /\ (order[j].by = "supervised" => approval[j] = "consumed")
      BY <1>1, <2>1 DEF Backed
    <2>3. OnMission(j) => mission[j] \in {"held", "committed"} \/ (intent[j].status = "pending" /\ run.intent # j)
      BY <1>1, <2>1 DEF Backed
    <2>4. mission[j] = "held" => intent[j].status = "pending"
      <3>1. intent[j] \in Records
        BY DEF RecordsInv, TypesInv, Books
      <3> QED
        BY <1>1, <3>1 DEF Kept, Fresh, Unheld, Records
    <2>5. OnMission(j) => mission'[j] \in {"held", "committed"} \/ (intent[j].status = "pending" /\ run'.intent # j)
      BY <1>3, <1>8, <1>12, <2>1, <2>3, <2>4
    <2> QED
      BY <1>2, <1>3, <2>2, <2>5 DEF Backed, IsAgent, OnMission
  <1> QED
    BY <1>13, <1>14

LEMMA QuietKeepsReceipts ==
  ASSUME RecordsInv, NEW r, Quiet(r)
  PROVE  ReceiptInv' /\ SingleInv'
  <1>1. receipts' = receipts \/ (receipts' = receipts \cup {r} /\ News(r))
    BY DEF Quiet
  <1>2. SingleInv'
    BY <1>1 DEF RecordsInv, SingleInv, News, Unwritten
  <1>3. intent' = intent /\ order' = order /\ budget' = budget
    BY DEF Quiet
  <1>4. probes > 0 => probes' > 0
    BY DEF Quiet, RecordsInv, TypesInv, Mishaps
  <1>5. ASSUME NEW s \in receipts PROVE Entry(s)' /\ Truth(s)'
    <2>1. Entry(s) /\ Truth(s) /\ s \in Receipt
      BY DEF RecordsInv, ReceiptInv, TypesInv, Books
    <2>2. Entry(s)'
      BY <1>3, <1>4, <2>1 DEF Entry
    <2>3. \A j \in Intents :
            /\ position[j] # "none" => position'[j] # "none"
            /\ position[j] # "open" => position'[j] # "open"
            /\ position[j] \in {"closed", "wiped"} => position'[j] \in {"closed", "wiped"}
            /\ mission[j] \in {"committed", "closed"} => mission'[j] \in {"committed", "closed"}
      BY DEF Quiet
    <2>4. ~s.probe /\ s.action = "open" => s.intent \in Intents
      BY <2>1 DEF Entry, Receipt
    <2>5. ~s.probe /\ s.action = "close" /\ s.outcome = "accepted" => s.position \in Intents
      BY <2>1 DEF Entry
    <2>6. Truth(s)'
      BY <1>3, <2>1, <2>3, <2>4, <2>5 DEF Truth, IsAgent, OnMission
    <2> QED
      BY <2>2, <2>6
  <1>6. \A s \in receipts' : s \in receipts \/ (s = r /\ News(r))
    BY <1>1
  <1>7. ReceiptInv'
    BY <1>5, <1>6 DEF ReceiptInv, News
  <1> QED
    BY <1>2, <1>7

\* While the lane waits, what the others do leaves the active order's own
\* books alone.
LEMMA QuietWhileWaiting ==
  ASSUME RecordsInv, TypesInv', NEW r, Quiet(r), run' = run, run.at \in {"idle"} \cup Waiting,
         receipts' = receipts \/ r.probe \/ r.intent = NoIntent,
         ~Free' => guard'.position \in Intents /\ position'[guard'.position] = "closed"
  PROVE  RecordsInv'
  <1>1. intent' = intent /\ order' = order
    BY DEF Quiet
  <1>2. LaneInv'
    BY <1>1 DEF RecordsInv, LaneInv, Free, OpenStages, CloseStages, Waiting
  <1>3. StageInv'
    <2> SUFFICES ASSUME NEW j \in Intents, Active(j)' PROVE Booked(j)' /\ Authorised(j)' /\ Told(j)'
      BY DEF StageInv
    <2>1. Active(j) /\ run.at \in Waiting
      BY DEF Active
    <2>2. Booked(j) /\ Told(j)
      BY <2>1 DEF RecordsInv, StageInv
    <2>3. Fresh(j) => Fresh(j)'
      BY DEF Quiet, Fresh
    <2>4. Booked(j)'
      BY <2>1, <2>2, <2>3 DEF Booked, Waiting, Ending
    <2>5. Authorised(j)'
      BY <2>1 DEF Authorised, Waiting
    <2>6. Unwritten(j) => Unwritten(j)'
      BY IntentAssumption DEF Quiet, Unwritten
    <2>7. Told(j)'
      BY <2>1, <2>2, <2>6 DEF Told, Waiting, Ending
    <2> QED
      BY <2>4, <2>5, <2>7
  <1> QED
    BY <1>2, <1>3, QuietKeepsBooks, QuietKeepsReceipts DEF RecordsInv

\* What is known of a closing order.
LEMMA CloseActive ==
  ASSUME RecordsInv, NEW i \in Intents, Active(i), run.at \in CloseStages \cup {"quote"}
  PROVE  /\ intent[i].status = "pending" /\ order[i].action = "close" /\ i # NoIntent
         /\ order[i].target \in Intents /\ order[i].target # i /\ position[order[i].target] # "none"
         /\ Fresh(i) /\ Unwritten(i) /\ ~run.receipt
         /\ run.at \in {"closeMission", "closed"} => position[order[i].target] \in {"closed", "wiped"}
  <1>1. intent[i].status = "pending" /\ order[i].action = "close"
        /\ (run.at \in {"closeMission", "closed"} => position[order[i].target] \in {"closed", "wiped"})
    BY DEF RecordsInv, LaneInv, Active
  <1>2. Fresh(i) /\ order[i].target \in Intents /\ position[order[i].target] # "none"
    BY <1>1 DEF RecordsInv, BookInv, Kept
  <1>3. Unwritten(i) /\ ~run.receipt
    <2>1. run.at \notin Ending
      BY DEF CloseStages, Ending
    <2> QED
      BY <2>1 DEF RecordsInv, StageInv, Told
  <1> QED
    BY <1>1, <1>2, <1>3, IntentAssumption DEF Fresh

LEMMA ClosingKeeps ==
  ASSUME RecordsInv, NEW i \in Intents, Closing(i)
  PROVE  RecordsInv'
  <1>1. TypesInv'
    BY ClosingTypes DEF RecordsInv, TypesInv
  <1>2. /\ Active(i) /\ Free /\ run.intent = i
        /\ run.at \in CloseStages \cup {"quote"}
    BY DEF Closing, CloseFills, CloseMission, CloseReceipt, At, Active, CloseStages
  <1>3. PICK o \in Intents : o = order[i].target
    BY <1>2, CloseActive
  <1>4. /\ intent[i].status = "pending" /\ order[i].action = "close" /\ i # NoIntent
        /\ o # i /\ position[o] # "none"
        /\ Fresh(i) /\ Unwritten(i) /\ ~run.receipt
        /\ run.at \in {"closeMission", "closed"} => position[o] \in {"closed", "wiped"}
    BY <1>2, <1>3, CloseActive
  <1>5. /\ mission \in [Intents -> MissionStates] /\ position \in [Intents -> Positions] /\ Hands /\ Books
        /\ faults \in Nat /\ deaths \in Nat /\ resets \in Nat /\ probes \in Nat
    BY DEF RecordsInv, TypesInv, Books, Mishaps
  <1>6. CASE CloseFills(i)
    <2>1. "closeMission" \in Stages
      BY DEF Stages, CloseStages
    <2>2. run'.at = "closeMission" /\ run'.intent = i /\ run'.receipt = run.receipt
      BY <1>2, <1>5, <1>6, <2>1, GoneTo DEF CloseFills
    <2>3. position' = [position EXCEPT ![o] = IF @ = "open" THEN "closed" ELSE @]
          /\ UNCHANGED <<intent, order, approval, mission, budget, receipts, guard, mishaps>>
      BY <1>3, <1>6 DEF CloseFills
    <2>4. position'[o] \in {"closed", "wiped"}
      BY <1>4, <1>5, <2>3 DEF Positions
    <2>5. Quiet(NoIntent)
      BY <1>2, <1>5, <2>2, <2>3 DEF Quiet, mishaps
    <2>6. LaneInv'
      BY <1>2, <1>3, <1>4, <2>2, <2>3, <2>4 DEF LaneInv, Free, OpenStages, CloseStages
    <2>7. StageInv'
      <3> SUFFICES ASSUME NEW j \in Intents, Active(j)' PROVE Booked(j)' /\ Authorised(j)' /\ Told(j)'
        BY DEF StageInv
      <3>1. j = i
        BY <2>2 DEF Active
      <3>2. Unwritten(i)'
        BY <1>4, <2>3 DEF Unwritten
      <3> QED
        BY <1>4, <2>2, <3>1, <3>2 DEF Booked, Authorised, Told, Ending
    <2> QED
      BY <1>1, <2>5, <2>6, <2>7, QuietKeepsBooks, QuietKeepsReceipts DEF RecordsInv
  <1>7. CASE CloseMission(i)
    <2>1. "closed" \in Stages
      BY DEF Stages, CloseStages
    <2>2. run'.at = "closed" /\ run'.intent = i /\ run'.receipt = run.receipt /\ run.at = "closeMission"
      BY <1>2, <1>5, <1>7, <2>1, GoneTo DEF CloseMission, At
    <2>3. MissionClosed(o) /\ UNCHANGED <<intent, order, approval, budget, position, receipts, guard, mishaps>>
      BY <1>3, <1>7 DEF CloseMission
    <2>4. position[o] \in {"closed", "wiped"}
      BY <1>4, <2>2
    <2>5. Quiet(NoIntent)
      <3>1. \A j \in Intents : mission'[j] = mission[j]
                                 \/ (mission[j] = "committed" /\ mission'[j] = "closed" /\ position[j] # "open")
        BY <1>5, <2>3, <2>4, ClosedMission
      <3> QED
        BY <1>2, <1>5, <2>2, <2>3, <3>1 DEF Quiet, mishaps
    <2>6. LaneInv'
      BY <1>2, <1>3, <1>4, <2>2, <2>3, <2>4 DEF LaneInv, Free, OpenStages, CloseStages
    <2>7. StageInv'
      <3> SUFFICES ASSUME NEW j \in Intents, Active(j)' PROVE Booked(j)' /\ Authorised(j)' /\ Told(j)'
        BY DEF StageInv
      <3>1. j = i
        BY <2>2 DEF Active
      <3>2. Unwritten(i)'
        BY <1>4, <2>3 DEF Unwritten
      <3> QED
        BY <1>4, <2>2, <3>1, <3>2 DEF Booked, Authorised, Told, Ending
    <2> QED
      BY <1>1, <2>5, <2>6, <2>7, QuietKeepsBooks, QuietKeepsReceipts DEF RecordsInv
  <1>8. CASE CloseReceipt(i)
    <2>1. PICK stage \in Ending, outcome \in {"accepted", "rejected"} :
            /\ WriteReceipt(i, outcome, stage) \/ LoseReceipt(stage)
            /\ outcome = "accepted" => run.at = "closed"
      BY <1>8 DEF CloseReceipt, At, Ending
    <2>2. PICK r : r = Written(i, outcome)
      OBVIOUS
    <2>3. stage \in Stages /\ outcome \in {"accepted", "rejected", "reversed"}
      BY DEF Stages
    <2>4. UNCHANGED <<intent, order, ledgers, guard, deaths, resets, probes>>
      BY <1>8 DEF CloseReceipt
    <2>5. /\ run'.at = stage /\ run'.intent = i
          /\ \/ receipts' = receipts \cup {r} /\ run'.receipt = TRUE /\ faults' = faults
             \/ receipts' = receipts /\ run'.receipt = run.receipt /\ faults' = faults + 1
      <3>1. Mishaps /\ UNCHANGED <<deaths, resets, probes>>
        BY <2>4 DEF RecordsInv, TypesInv
      <3>2. run'.at = stage /\ run'.intent = run.intent
        BY <1>5, <2>1, <2>3, <3>1, ReceiptStep
      <3>3. \/ receipts' = receipts \cup {r} /\ run'.receipt = TRUE /\ faults' = faults
            \/ receipts' = receipts /\ run'.receipt = run.receipt /\ faults' = faults + 1
        <4>1. CASE WriteReceipt(i, outcome, stage)
          BY <1>5, <2>2, <2>3, <4>1, RunMoved DEF WriteReceipt, Hands
        <4>2. CASE LoseReceipt(stage)
          BY <1>5, <2>3, <4>2, GoneTo DEF LoseReceipt
        <4> QED
          BY <2>1, <4>1, <4>2
      <3> QED
        BY <1>2, <3>2, <3>3
    <2>6. r.intent = i /\ r.action = "close" /\ r.outcome = outcome /\ ~r.probe /\ r.position = o
      BY <1>3, <1>4, <2>2 DEF Written
    <2>7. News(r)
      <3>1. outcome = "accepted" => position'[o] \in {"closed", "wiped"}
        BY <1>4, <2>1, <2>4 DEF ledgers
      <3>2. Entry(r)'
        BY <1>4, <2>4, <2>6 DEF Entry
      <3>3. Truth(r)'
        BY <2>6, <3>1 DEF Truth
      <3> QED
        BY <1>4, <2>6, <3>2, <3>3 DEF News
    <2>8. Quiet(r)
      BY <1>2, <1>5, <2>4, <2>5, <2>7 DEF Quiet, ledgers
    <2>9. stage # "idle" /\ stage \notin OpenStages \cup CloseStages \cup {"preflight", "quote", "closeMission", "closed"}
      BY DEF Ending, OpenStages, CloseStages
    <2>10. LaneInv'
      BY <1>2, <1>4, <2>4, <2>5, <2>9 DEF LaneInv, Free
    <2>11. StageInv'
      <3> SUFFICES ASSUME NEW j \in Intents, Active(j)' PROVE Booked(j)' /\ Authorised(j)' /\ Told(j)'
        BY DEF StageInv
      <3>1. j = i
        BY <2>5 DEF Active
      <3>2. position'[i] = "none" /\ Unheld(i)'
        BY <1>4, <2>4 DEF ledgers, Fresh, Unheld
      <3>3. Booked(i)' /\ Authorised(i)'
        BY <2>5, <2>9, <3>2 DEF Booked, Authorised, Ending
      <3>4. run'.receipt \/ faults' > 0
        BY <1>5, <2>5
      <3>5. Told(i)'
        BY <2>5, <3>2, <3>4 DEF Told
      <3> QED
        BY <3>1, <3>3, <3>5
    <2> QED
      BY <1>1, <2>8, <2>10, <2>11, QuietKeepsBooks, QuietKeepsReceipts DEF RecordsInv
  <1> QED
    BY <1>6, <1>7, <1>8 DEF Closing

LEMMA OthersKeep ==
  ASSUME RecordsInv, Others
  PROVE  RecordsInv'
  <1>1. TypesInv'
    BY OthersTypes DEF RecordsInv, TypesInv
  <1>2. /\ approval \in [Intents -> Approvals] /\ mission \in [Intents -> MissionStates]
        /\ position \in [Intents -> Positions] /\ run \in Runs /\ guard \in Guards
        /\ faults \in Nat /\ deaths \in Nat /\ resets \in Nat /\ probes \in Nat
    BY DEF RecordsInv, TypesInv, Books, Mishaps, Hands
  <1>3. ~Free => /\ run.at \in {"idle"} \cup Waiting
                 /\ guard.position \in Intents /\ position[guard.position] = "closed"
    BY DEF RecordsInv, LaneInv
  <1>4. ASSUME NEW i \in Intents, OwnerApproves(i) PROVE RecordsInv'
    <2>1. Idle /\ approval[i] = "none" /\ approval' = [approval EXCEPT ![i] = "approved"]
          /\ UNCHANGED <<intent, order, mission, budget, position, receipts, run, guard, mishaps>>
      BY <1>4 DEF OwnerApproves
    <2>2. Quiet(NoIntent)
      BY <1>2, <2>1 DEF Quiet, mishaps
    <2> QED
      BY <1>1, <1>3, <2>1, <2>2, QuietWhileWaiting DEF Idle, Free
  <1>5. ASSUME NEW i \in Intents, MissionExpires(i) PROVE RecordsInv'
    <2>1. Idle /\ run.intent # i /\ mission[i] = "held" /\ mission' = [mission EXCEPT ![i] = "expired"]
          /\ UNCHANGED <<intent, order, approval, budget, position, receipts, run, guard, mishaps>>
      BY <1>5 DEF MissionExpires
    <2>2. Quiet(NoIntent)
      BY <1>2, <2>1 DEF Quiet, mishaps
    <2> QED
      BY <1>1, <1>3, <2>1, <2>2, QuietWhileWaiting DEF Idle, Free
  <1>6. ASSUME NEW i \in Intents, GuardianCloses(i) PROVE RecordsInv'
    <2>1. /\ Idle /\ position[i] = "open" /\ position' = [position EXCEPT ![i] = "closed"]
          /\ guard' = [at |-> "mission", position |-> i]
          /\ UNCHANGED <<intent, order, approval, mission, budget, receipts, run, mishaps>>
      BY <1>6 DEF GuardianCloses
    <2>2. Quiet(NoIntent)
      BY <1>2, <2>1 DEF Quiet, mishaps
    <2>3. guard'.position \in Intents /\ position'[guard'.position] = "closed"
      BY <1>2, <2>1
    <2> QED
      BY <1>1, <2>1, <2>2, <2>3, QuietWhileWaiting DEF Idle
  <1>7. ASSUME NEW i \in Intents, NEW action \in {"open", "close"}, Probe(i, action) PROVE RecordsInv'
    <2>1. PICK r : r = [intent |-> i, action |-> action, outcome |-> "rejected", position |-> NoIntent, probe |-> TRUE]
      OBVIOUS
    <2>2. /\ Idle /\ probes' = probes + 1 /\ receipts' = receipts \cup {r}
          /\ UNCHANGED <<intent, order, ledgers, run, guard, faults, deaths, resets>>
      BY <1>7, <2>1 DEF Probe
    <2>3. r.probe /\ r.outcome = "rejected"
      BY <2>1
    <2>4. News(r)
      BY <1>2, <2>2, <2>3 DEF News, Entry, Truth
    <2>5. Quiet(r)
      BY <1>2, <2>2, <2>4 DEF Quiet, ledgers
    <2> QED
      BY <1>1, <1>3, <2>2, <2>3, <2>5, QuietWhileWaiting DEF Idle, Free, ledgers
  <1>8. CASE GuardianMission
    <2>1. /\ guard.at = "mission" /\ MissionClosed(guard.position)
          /\ guard' \in {[guard EXCEPT !.at = "receipt"], NoGuard}
          /\ UNCHANGED <<intent, order, approval, budget, position, receipts, run, mishaps>>
      BY <1>8 DEF GuardianMission
    <2>2. run.at \in {"idle"} \cup Waiting /\ guard.position \in Intents /\ position[guard.position] = "closed"
      BY <1>3, <2>1 DEF Free
    <2>3. Quiet(NoIntent)
      <3>1. \A j \in Intents : mission'[j] = mission[j]
                                 \/ (mission[j] = "committed" /\ mission'[j] = "closed" /\ position[j] # "open")
        BY <1>2, <2>1, <2>2, ClosedMission
      <3> QED
        BY <1>2, <2>1, <3>1 DEF Quiet, mishaps
    <2>4. ~Free' => guard'.position = guard.position
      BY <1>2, <2>1, NoGuardIsIdle DEF Guards, Free
    <2> QED
      BY <1>1, <2>1, <2>2, <2>3, <2>4, QuietWhileWaiting
  <1>9. CASE GuardianReceipt
    <2>1. PICK r : r = [intent |-> NoIntent, action |-> "close", outcome |-> "accepted",
                        position |-> guard.position, probe |-> FALSE]
      OBVIOUS
    <2>2. /\ guard.at = "receipt" /\ guard' = NoGuard
          /\ receipts' = receipts \cup {r} \/ receipts' = receipts
          /\ faults' \in {faults, faults + 1}
          /\ UNCHANGED <<intent, order, ledgers, run, deaths, resets, probes>>
      BY <1>9, <2>1 DEF GuardianReceipt
    <2>3. r.intent = NoIntent /\ r.action = "close" /\ r.outcome = "accepted" /\ r.position = guard.position /\ ~r.probe
      BY <2>1
    <2>4. run.at \in {"idle"} \cup Waiting /\ guard.position \in Intents /\ position[guard.position] = "closed"
      BY <1>3, <2>2 DEF Free
    <2>5. News(r)
      BY <2>2, <2>3, <2>4 DEF News, Entry, Truth, ledgers
    <2>6. Quiet(r)
      BY <1>2, <2>2, <2>5 DEF Quiet, ledgers
    <2> QED
      BY <1>1, <2>2, <2>3, <2>4, <2>6, NoGuardIsIdle, QuietWhileWaiting DEF Free
  <1>10. CASE Reset
    <2>1. /\ Idle /\ resets' = resets + 1
          /\ position' = [o \in Intents |-> IF position[o] = "none" THEN "none" ELSE "wiped"]
          /\ UNCHANGED <<intent, order, approval, mission, budget, receipts, run, guard, faults, deaths, probes>>
      BY <1>10 DEF Reset
    <2>2. Quiet(NoIntent)
      BY <1>2, <2>1 DEF Quiet
    <2>3. Free /\ Free'
      BY <2>1 DEF Idle, Free
    <2> QED
      BY <1>1, <2>1, <2>2, <2>3, QuietWhileWaiting DEF Idle
  <1>11. CASE ProcessDies
    <2>1. /\ deaths' = deaths + 1 /\ run' = NoRun /\ guard' = NoGuard
          /\ UNCHANGED <<intent, order, ledgers, receipts, faults, resets, probes>>
      BY <1>11 DEF ProcessDies
    <2>2. Quiet(NoIntent)
      <3>1. faults' + deaths' > 0
        BY <1>2, <2>1
      <3> QED
        BY <1>2, <2>1, <3>1, NoRunIsIdle DEF Quiet, ledgers
    <2>3. LaneInv' /\ StageInv'
      BY <2>1, NoRunIsIdle, NoGuardIsIdle DEF LaneInv, Free, StageInv, Active, OpenStages, CloseStages
    <2> QED
      BY <1>1, <2>2, <2>3, QuietKeepsBooks, QuietKeepsReceipts DEF RecordsInv
  <1>12. ASSUME NEW i \in Intents, AddBegins(i) PROVE RecordsInv'
    <2>1. /\ Idle /\ guard' = [at |-> "add", position |-> i]
          /\ UNCHANGED <<intent, order, ledgers, receipts, run, mishaps>>
      BY <1>12 DEF AddBegins
    <2>2. Quiet(NoIntent)
      BY <1>2, <2>1 DEF Quiet, ledgers, mishaps
    <2> QED
      BY <1>1, <2>1, <2>2, QuietWhileWaiting DEF Idle, Free
  <1>13. CASE AddFills
    <2>1. /\ Idle /\ guard' = NoGuard
          /\ UNCHANGED <<intent, order, approval, mission, budget, position, receipts, run, mishaps>>
      BY <1>13 DEF AddFills
    <2>2. Quiet(NoIntent)
      BY <1>2, <2>1 DEF Quiet, mishaps
    <2> QED
      BY <1>1, <2>1, <2>2, NoGuardIsIdle, QuietWhileWaiting DEF Idle, Free
  <1> QED
    BY <1>4, <1>5, <1>6, <1>7, <1>8, <1>9, <1>10, <1>11, <1>12, <1>13 DEF Others

LEMMA BeginKeeps ==
  ASSUME RecordsInv, NEW i \in Intents, NEW o \in Orders, Begin(i, o)
  PROVE  RecordsInv'
  <1>1. TypesInv'
    BY BeginTypes DEF RecordsInv, TypesInv
  <1>2. /\ o \in OrderRecords
        /\ o.action = "close" => o.target \in Intents /\ position[o.target] # "none"
        /\ run'.intent = i /\ run'.receipt = FALSE
        /\ o.action = "open" => run'.at = "preflight"
        /\ o.action = "close" => run'.at \in {"quote", "notFound"}
    BY OrderTaken DEF RecordsInv, TypesInv
  <1>3. /\ run.at = "idle" /\ intent[i].status = "none" /\ Free
        /\ order' = [order EXCEPT ![i] = o]
        /\ intent' = [intent EXCEPT ![i].status = "pending"]
        /\ UNCHANGED <<ledgers, receipts, guard, mishaps>>
    BY DEF Begin, Idle
  <1>4. intent \in [Intents -> Records] /\ order \in [Intents -> OrderRecords]
    BY DEF RecordsInv, TypesInv, Books
  <1>5. /\ intent'[i].status = "pending" /\ order'[i] = o
        /\ \A j \in Intents \ {i} : intent'[j] = intent[j] /\ order'[j] = order[j]
    <2>1. intent'[i] = [intent[i] EXCEPT !.status = "pending"]
      BY <1>3, <1>4
    <2>2. intent[i] \in Records
      BY <1>4
    <2>3. intent'[i].status = "pending"
      BY <2>1, <2>2 DEF Records
    <2> QED
      BY <1>3, <1>4, <2>3
  <1>6. Fresh(i) /\ approval[i] # "consumed" /\ Unwritten(i)
    BY <1>3 DEF RecordsInv, BookInv, Kept
  <1>7. run.intent = NoIntent /\ i # NoIntent
    BY <1>3, IntentAssumption DEF RecordsInv, LaneInv
  <1>8. LaneInv'
    <2>1. o.action \in {"open", "close"}
      BY <1>2 DEF OrderRecords
    <2> QED
      BY <1>2, <1>3, <1>5, <1>7, <2>1 DEF LaneInv, Free, OpenStages, CloseStages
  <1>9. StageInv'
    <2> SUFFICES ASSUME NEW j \in Intents, Active(j)' PROVE Booked(j)' /\ Authorised(j)' /\ Told(j)'
      BY DEF StageInv
    <2>1. j = i /\ run'.at \in {"preflight", "quote", "notFound"}
      BY <1>2 DEF Active, OrderRecords
    <2>2. Fresh(i)' /\ Unwritten(i)'
      BY <1>3, <1>6 DEF ledgers, Fresh, Unwritten
    <2> QED
      BY <1>2, <2>1, <2>2 DEF Booked, Authorised, Told, Ending
  <1>10. BookInv'
    <2> SUFFICES ASSUME NEW j \in Intents PROVE Kept(j)' /\ Backed(j)'
      BY DEF BookInv
    <2>1. Kept(j) /\ Backed(j)
      BY DEF RecordsInv, BookInv
    <2>2. CASE j = i
      <3>1. Fresh(i)' /\ position'[i] = "none"
        BY <1>3, <1>6 DEF ledgers, Fresh
      <3>2. Kept(i)'
        BY <1>2, <1>3, <1>5, <3>1 DEF Kept, ledgers
      <3> QED
        BY <2>2, <3>1, <3>2 DEF Backed
    <2>3. CASE j # i
      <3>1. (Fresh(j)' <=> Fresh(j)) /\ (Unheld(j)' <=> Unheld(j)) /\ (Unwritten(j)' <=> Unwritten(j))
            /\ (Accepted(j)' <=> Accepted(j))
        BY <1>3 DEF ledgers, Fresh, Unheld, Unwritten, Accepted
      <3>2. intent'[j] = intent[j] /\ order'[j] = order[j]
            /\ UNCHANGED <<approval, mission, budget, position, faults, deaths, resets>>
        BY <1>3, <1>5, <2>3 DEF ledgers, mishaps
      <3>3. Kept(j)'
        <4>1. intent[j].status = "pending" => faults + deaths > 0
          BY <1>7, <2>1, IntentAssumption DEF Kept
        <4> QED
          BY <2>1, <3>1, <3>2, <4>1 DEF Kept
      <3>4. Backed(j)'
        BY <1>2, <2>1, <2>3, <3>2 DEF Backed, IsAgent, OnMission
      <3> QED
        BY <3>3, <3>4
    <2> QED
      BY <2>2, <2>3
  <1>11. ReceiptInv'
    <2> SUFFICES ASSUME NEW r \in receipts PROVE Entry(r)' /\ Truth(r)'
      BY <1>3 DEF ReceiptInv
    <2>1. Entry(r) /\ Truth(r) /\ r \in Receipt
      BY DEF RecordsInv, ReceiptInv, TypesInv, Books
    <2>2. ~r.probe => r.intent # i
      BY <1>6 DEF Unwritten
    <2>3. Entry(r)'
      BY <1>3, <1>5, <2>1, <2>2 DEF Entry, Receipt, mishaps
    <2>4. ~r.probe /\ r.action = "open" => r.intent \in Intents
      BY <2>1 DEF Entry, Receipt
    <2>5. Truth(r)'
      BY <1>3, <1>5, <2>1, <2>2, <2>4 DEF Truth, IsAgent, OnMission, ledgers
    <2> QED
      BY <2>3, <2>5
  <1>12. SingleInv'
    BY <1>3 DEF RecordsInv, SingleInv
  <1> QED
    BY <1>1, <1>8, <1>9, <1>10, <1>11, <1>12 DEF RecordsInv

\* The lane goes idle; the intent has its outcome, or stays pending.
LEMMA EndingKeeps ==
  ASSUME RecordsInv, NEW i \in Intents, Finish(i) \/ FinishUnsaved(i)
  PROVE  RecordsInv'
  <1>1. TypesInv'
    BY EndingTypes DEF RecordsInv, TypesInv
  <1>2. /\ Active(i) /\ run.intent = i /\ run.at \in Ending /\ Free /\ run' = NoRun
        /\ UNCHANGED <<order, ledgers, receipts, guard>>
    BY DEF Finish, FinishUnsaved, Active, Ending
  <1>3. Booked(i) /\ Told(i) /\ intent[i].status = "pending"
    BY <1>2 DEF RecordsInv, StageInv, LaneInv, Active
  <1>4. i # NoIntent /\ run'.at = "idle" /\ run'.intent = NoIntent
    BY <1>2, NoRunIsIdle, IntentAssumption
  <1>5. LaneInv' /\ StageInv'
    BY <1>2, <1>4 DEF LaneInv, Free, StageInv, Active, OpenStages, CloseStages
  <1>6. CASE Finish(i)
    <2>1. intent \in [Intents -> Records] /\ UNCHANGED mishaps
      BY <1>6 DEF RecordsInv, TypesInv, Books, Finish
    <2>2. intent' = [intent EXCEPT ![i] =
            [status |-> IF run.at = "succeed" THEN "succeeded" ELSE "failed", receipt |-> run.receipt]]
      BY <1>6 DEF Finish
    <2>3. /\ intent'[i].status \in {"succeeded", "failed"} /\ (intent'[i].receipt <=> run.receipt)
          /\ \A j \in Intents \ {i} : intent'[j] = intent[j]
      BY <2>1, <2>2
    <2>4. BookInv'
      <3> SUFFICES ASSUME NEW j \in Intents PROVE Kept(j)' /\ Backed(j)'
        BY DEF BookInv
      <3>1. Kept(j) /\ Backed(j)
        BY DEF RecordsInv, BookInv
      <3>2. (Fresh(j)' <=> Fresh(j)) /\ (Unheld(j)' <=> Unheld(j)) /\ (Unwritten(j)' <=> Unwritten(j))
            /\ (Accepted(j)' <=> Accepted(j))
        BY <1>2 DEF ledgers, Fresh, Unheld, Unwritten, Accepted
      <3>3. UNCHANGED <<order, approval, mission, budget, position, faults, deaths, resets>>
        BY <1>2, <2>1 DEF ledgers, mishaps
      <3>4. CASE j = i
        <4>1. Unheld(i) /\ (position[i] = "open" => Accepted(i)) /\ (run.receipt \/ faults > 0)
          BY <1>2, <1>3 DEF Booked, Told
        <4>2. Kept(i)'
          BY <2>3, <3>1, <3>2, <3>3, <3>4, <4>1 DEF Kept
        <4>3. Backed(i)'
          BY <1>2, <3>1, <3>3, <3>4 DEF Backed, IsAgent, OnMission
        <4> QED
          BY <3>4, <4>2, <4>3
      <3>5. CASE j # i
        <4>1. intent[j].status = "pending" => faults + deaths > 0
          BY <1>2, <3>1, <3>5 DEF Kept
        <4>2. intent'[j] = intent[j]
          BY <2>3, <3>5
        <4>3. Kept(j)'
          BY <3>1, <3>2, <3>3, <4>1, <4>2 DEF Kept
        <4>4. Backed(j)'
          BY <1>4, <3>1, <3>3, <4>2, IntentAssumption DEF Backed, IsAgent, OnMission
        <4> QED
          BY <4>3, <4>4
      <3> QED
        BY <3>4, <3>5
    <2>5. ReceiptInv'
      <3> SUFFICES ASSUME NEW r \in receipts PROVE Entry(r)' /\ Truth(r)'
        BY <1>2 DEF ReceiptInv
      <3>1. Entry(r) /\ Truth(r) /\ r \in Receipt
        BY DEF RecordsInv, ReceiptInv, TypesInv, Books
      <3>2. Entry(r)'
        BY <1>2, <2>1, <2>3, <3>1 DEF Entry, Receipt, mishaps
      <3>3. Truth(r)'
        BY <1>2, <3>1 DEF Truth, IsAgent, OnMission, ledgers
      <3> QED
        BY <3>2, <3>3
    <2>6. SingleInv'
      BY <1>2 DEF RecordsInv, SingleInv
    <2> QED
      BY <1>1, <1>5, <2>4, <2>5, <2>6 DEF RecordsInv
  <1>7. CASE FinishUnsaved(i)
    <2>1. faults' = faults + 1 /\ UNCHANGED <<intent, deaths, resets, probes>>
      BY <1>7 DEF FinishUnsaved
    <2>2. faults \in Nat /\ deaths \in Nat /\ resets \in Nat /\ probes \in Nat
      BY DEF RecordsInv, TypesInv, Mishaps
    <2>3. faults' + deaths' > 0
      BY <2>1, <2>2
    <2>4. Quiet(NoIntent)
      BY <1>2, <1>4, <2>1, <2>2, <2>3 DEF Quiet, ledgers
    <2> QED
      BY <1>1, <1>5, <2>4, QuietKeepsBooks, QuietKeepsReceipts DEF RecordsInv
  <1> QED
    BY <1>6, <1>7

LEMMA RecordsInit == ExecutionInit => RecordsInv
  <1> SUFFICES ASSUME ExecutionInit PROVE RecordsInv
    OBVIOUS
  <1>1. TypesInv
    BY ExecutionInitTypes, ExecutionTypes DEF TypesInv
  <1>2. run.at = "idle" /\ run.intent = NoIntent /\ guard.at = "idle" /\ receipts = {}
    BY NoRunIsIdle, NoGuardIsIdle DEF ExecutionInit
  <1>3. LaneInv /\ StageInv
    BY <1>2 DEF LaneInv, Free, StageInv, Active, OpenStages, CloseStages
  <1>4. BookInv
    BY <1>2 DEF ExecutionInit, BookInv, Kept, Backed, Fresh, Unwritten
  <1> QED
    BY <1>1, <1>2, <1>3, <1>4 DEF RecordsInv, ReceiptInv, SingleInv

LEMMA RecordsKept ==
  ASSUME RecordsInv, [ExecutionNext]_executionVars
  PROVE  RecordsInv'
  <1>1. ASSUME NEW i \in Intents, NEW o \in Orders, Begin(i, o) PROVE RecordsInv'
    BY <1>1, BeginKeeps
  <1>2. ASSUME NEW i \in Intents, Authorizing(i) \/ Executing(i) PROVE RecordsInv'
    BY <1>2, OpenKeeps
  <1>3. ASSUME NEW i \in Intents, Closing(i) PROVE RecordsInv'
    BY <1>3, ClosingKeeps
  <1>4. ASSUME NEW i \in Intents, Finish(i) \/ FinishUnsaved(i) PROVE RecordsInv'
    BY <1>4, EndingKeeps
  <1>5. CASE Others
    BY <1>5, OthersKeep
  <1>6. CASE UNCHANGED executionVars
    <2>1. UNCHANGED <<intent, order, approval, mission, budget, position, cash, receipts, run, guard,
                      faults, deaths, resets, probes>>
      BY <1>6 DEF executionVars, ledgers, mishaps
    <2>2. TypesInv' /\ LaneInv'
      BY <2>1 DEF RecordsInv, TypesInv, Books, Hands, Mishaps, LaneInv, Free
    <2>3. StageInv'
      BY <2>1 DEF RecordsInv, StageInv, Active, Booked, Authorised, Told, Fresh, Unheld, Unwritten, Accepted,
                  IsAgent, OnMission
    <2>4. BookInv'
      BY <2>1 DEF RecordsInv, BookInv, Kept, Backed, Fresh, Unheld, Unwritten, Accepted, IsAgent, OnMission
    <2>5. ReceiptInv' /\ SingleInv'
      BY <2>1 DEF RecordsInv, ReceiptInv, SingleInv, Entry, Truth, IsAgent, OnMission
    <2> QED
      BY <2>2, <2>3, <2>4, <2>5 DEF RecordsInv
  <1> QED
    BY <1>1, <1>2, <1>3, <1>4, <1>5, <1>6 DEF ExecutionNext

\* What a receipt says is what happened, and what is open is backed or was
\* cut off.
LEMMA RecordsTellTheTruth == RecordsInv => RecordsAreTrue
  <1> SUFFICES ASSUME RecordsInv PROVE RecordsAreTrue
    OBVIOUS
  <1>1. ReceiptsAreTrue
    BY DEF RecordsInv, ReceiptInv, Truth, ReceiptsAreTrue
  <1>2. PositionsAreBacked
    BY DEF RecordsInv, BookInv, Backed, PositionsAreBacked, UnknownOutcome
  <1> QED
    BY <1>1, <1>2 DEF RecordsAreTrue

THEOREM RecordsHold == ExecutionSpec => []RecordsAreTrue
  BY RecordsInit, RecordsKept, RecordsTellTheTruth, PTL DEF ExecutionSpec

-----------------------------------------------------------------------------
(* Paper orders: what reconciliation sees                                  *)

\* An order has one receipt that is not a stray key's, so never two that count.
LEMMA NoDuplicate ==
  ASSUME RecordsInv, NEW i \in Intents
  PROVE  ~Duplicate(i)
  <1> DEFINE counted == {r \in receipts : r.intent = i /\ r.outcome \in {"accepted", "reversed"}}
  <1>1. \A r, s \in counted : r = s
    <2> SUFFICES ASSUME NEW r \in counted, NEW s \in counted PROVE r = s
      OBVIOUS
    <2>1. Entry(r) /\ Entry(s) /\ r \in receipts /\ s \in receipts
      BY DEF RecordsInv, ReceiptInv
    <2>2. ~r.probe /\ ~s.probe
      BY <2>1 DEF Entry
    <2> QED
      BY <2>1, <2>2, IntentAssumption DEF RecordsInv, SingleInv
  <1>2. CASE counted = {}
    BY <1>2, FS_EmptySet DEF Duplicate
  <1>3. CASE counted # {}
    <2>1. PICK r : r \in counted
      BY <1>3
    <2>2. counted = {r}
      BY <1>1, <2>1
    <2>3. Cardinality(counted) = 1
      BY <2>2, FS_Singleton
    <2> QED
      BY <2>3 DEF Duplicate
  <1> QED
    BY <1>2, <1>3

\* A lost position was wiped.
LEMMA LostIsWiped ==
  ASSUME RecordsInv, NEW r \in receipts, OpenLost(r) \/ CloseLost(r)
  PROVE  r.position \in Intents /\ position[r.position] = "wiped"
  <1>1. Entry(r) /\ Truth(r) /\ r \in Receipt
    BY DEF RecordsInv, ReceiptInv, TypesInv, Books
  <1>2. r.outcome = "accepted" /\ ~r.probe
    BY <1>1 DEF Entry, OpenLost, CloseLost
  <1>3. CASE OpenLost(r)
    <2>1. r.position = r.intent /\ r.intent \in Intents
      BY <1>1, <1>2, <1>3 DEF Entry, Receipt, OpenLost
    <2> QED
      BY <1>1, <1>2, <1>3, <2>1 DEF Truth, OpenLost
  <1>4. CASE CloseLost(r)
    BY <1>1, <1>2, <1>4 DEF Truth, Entry, CloseLost
  <1> QED
    BY <1>3, <1>4

LEMMA HalfDoneBlocks == RecordsInv => FailsClosed
  <1> SUFFICES ASSUME RecordsInv, run.at = "idle", NEW o \in Intents, HalfDone(o) PROVE Blocked(NoIntent)
    BY DEF FailsClosed
  <1>1. intent[o] \in Records /\ Kept(o)
    BY DEF RecordsInv, TypesInv, Books, BookInv
  <1>2. intent[o].status = "pending"
    BY <1>1 DEF HalfDone, Kept, Fresh, Unheld, Records
  <1> QED
    BY <1>2, IntentAssumption DEF Blocked, Damaged, RecordDamage, UnknownOutcome

LEMMA UndisturbedIsQuiet == RecordsInv => NoFalseAlarm
  <1> SUFFICES ASSUME RecordsInv, Undisturbed, run.at \in {"idle", "preflight"}, cash = "balanced"
               PROVE  ~Blocked(run.intent)
    BY DEF NoFalseAlarm, Alarm
  <1>0. /\ ~(faults > 0) /\ ~(faults + deaths > 0) /\ ~(resets > 0) /\ ~(probes > 0)
    BY DEF Undisturbed
  <1>1. ASSUME NEW i \in Intents \ {run.intent} PROVE ~UnknownOutcome(i) /\ ~NoReceipt(i)
    <2>1. Kept(i)
      BY DEF RecordsInv, BookInv
    <2> QED
      BY <1>0, <2>1 DEF Kept, UnknownOutcome, NoReceipt
  <1>2. ASSUME NEW r \in receipts PROVE ~OpenLost(r) /\ ~CloseLost(r)
    <2>1. OpenLost(r) \/ CloseLost(r) => r.position \in Intents /\ position[r.position] = "wiped"
      BY LostIsWiped
    <2>2. \A o \in Intents : position[o] # "wiped"
      BY <1>0 DEF RecordsInv, BookInv, Kept
    <2> QED
      BY <2>1, <2>2
  <1>3. ASSUME NEW r \in receipts PROVE ~Stray(r, run.intent)
    <2>1. Entry(r) /\ r \in Receipt
      BY DEF RecordsInv, ReceiptInv, TypesInv, Books
    <2>2. ~r.probe
      BY <1>0, <2>1 DEF Entry
    <2>3. r.intent # NoIntent => r.intent # run.intent
      <3>1. CASE run.at = "idle"
        BY <3>1 DEF RecordsInv, LaneInv
      <3>2. CASE run.at = "preflight"
        <4> SUFFICES ASSUME r.intent # NoIntent, r.intent = run.intent PROVE FALSE
          OBVIOUS
        <4>1. run.intent \in Intents /\ Active(run.intent)
          BY <2>1, <3>2 DEF Receipt, Active
        <4>2. Told(run.intent)
          BY <4>1 DEF RecordsInv, StageInv
        <4> QED
          BY <2>2, <3>2, <4>2 DEF Told, Ending, Unwritten
      <3> QED
        BY <3>1, <3>2
    <2> QED
      BY <2>1, <2>2, <2>3 DEF Stray, Entry
  <1> QED
    BY <1>1, <1>2, <1>3, NoDuplicate DEF Blocked, Damaged, RecordDamage, CashMismatch

\* Reconciliation blocks what is half done, and of what went undisturbed only
\* the account whose cash differs from its journal.
THEOREM AlarmIsRight == ExecutionSpec => []AlarmIsExact
  <1>1. RecordsInv => AlarmIsExact
    BY HalfDoneBlocks, UndisturbedIsQuiet DEF AlarmIsExact
  <1> QED
    BY <1>1, RecordsInit, RecordsKept, PTL DEF ExecutionSpec

\* What no step undoes: the record of an intent that is not running, a
\* receipt, a wiped position.
LEMMA NothingIsUndone ==
  ASSUME RecordsInv, [ExecutionNext]_executionVars
  PROVE  /\ \A i \in Intents : intent[i].status # "none" /\ i # run.intent =>
                                 intent'[i] = intent[i] /\ i # run'.intent
         /\ \A o \in Intents : position[o] = "wiped" => position'[o] = "wiped"
         /\ receipts \subseteq receipts'
  <1> DEFINE Lasting ==
        /\ \A i \in Intents : intent[i].status # "none" /\ i # run.intent =>
                                intent'[i] = intent[i] /\ i # run'.intent
        /\ \A o \in Intents : position[o] = "wiped" => position'[o] = "wiped"
        /\ receipts \subseteq receipts'
  <1>1. /\ intent \in [Intents -> Records] /\ position \in [Intents -> Positions] /\ run \in Runs
    BY DEF RecordsInv, TypesInv, Books, Hands
  <1>2. ASSUME NEW i \in Intents, NEW o \in Orders, Begin(i, o) PROVE Lasting
    <2>1. run'.intent = i /\ intent[i].status = "none" /\ intent' = [intent EXCEPT ![i].status = "pending"]
          /\ UNCHANGED <<position, receipts>>
      BY <1>2 DEF Begin, ledgers
    <2> QED
      BY <1>1, <2>1
  <1>3. ASSUME NEW i \in Intents, Authorizing(i) \/ Executing(i) PROVE Lasting
    <2>1. PICK outcome \in Outcomes : OpenMove(i, outcome)
      BY <1>3, OrdersOpen DEF Opens
    <2> QED
      BY <2>1 DEF OpenMove, Active
  <1>4. ASSUME NEW i \in Intents, Closing(i) PROVE Lasting
    <2>1. /\ run'.intent = run.intent /\ intent' = intent
      BY <1>1, <1>4 DEF Closing, CloseFills, CloseMission, CloseReceipt, Goto, WriteReceipt, LoseReceipt, Runs
    <2>2. receipts \subseteq receipts' /\ \A o \in Intents : position[o] = "wiped" => position'[o] = "wiped"
      BY <1>1, <1>4 DEF Closing, CloseFills, CloseMission, CloseReceipt, WriteReceipt, LoseReceipt, ledgers
    <2> QED
      BY <2>1, <2>2
  <1>5. ASSUME NEW i \in Intents, Finish(i) \/ FinishUnsaved(i) PROVE Lasting
    <2>1. run.intent = i /\ run'.intent = NoIntent /\ UNCHANGED <<position, receipts>>
          /\ \A j \in Intents \ {i} : intent'[j] = intent[j]
      BY <1>1, <1>5, NoRunIsIdle DEF Finish, FinishUnsaved, ledgers
    <2> QED
      BY <2>1, IntentAssumption
  <1>6. CASE Others
    <2>1. intent' = intent /\ (run' = run \/ run' = NoRun)
      BY <1>6 DEF Others, OwnerApproves, MissionExpires, GuardianCloses, AddBegins, AddFills, GuardianMission, GuardianReceipt, Reset,
                  Probe, ProcessDies
    <2>2. receipts \subseteq receipts'
      BY <1>6 DEF Others, OwnerApproves, MissionExpires, GuardianCloses, AddBegins, AddFills, GuardianMission, GuardianReceipt, Reset,
                  Probe, ProcessDies
    <2>3. \A o \in Intents : position[o] = "wiped" => position'[o] = "wiped"
      BY <1>1, <1>6 DEF Others, OwnerApproves, MissionExpires, GuardianCloses, AddBegins, AddFills, GuardianMission, GuardianReceipt, Reset,
                  Probe, ProcessDies, ledgers
    <2> QED
      BY <2>1, <2>2, <2>3, NoRunIsIdle, IntentAssumption
  <1>7. CASE UNCHANGED executionVars
    BY <1>7 DEF executionVars, ledgers
  <1> QED
    BY <1>2, <1>3, <1>4, <1>5, <1>6, <1>7 DEF ExecutionNext

\* An order whose fill the records vouch for, or will not call settled.
Recorded(o) == Accepted(o) \/ (intent[o].status = "pending" /\ o # run.intent)

\* Only what the records show can be settled twice, and only that brings the
\* cash off.
CashInv ==
  /\ run.at = "quote" => Recorded(order[run.intent].target)
  /\ guard.at = "add" => guard.position \in Intents /\ Recorded(guard.position)
  /\ cash = "off" => \E o \in Intents : Recorded(o)

LEMMA StaysRecorded ==
  ASSUME RecordsInv, [ExecutionNext]_executionVars, NEW o \in Intents, Recorded(o)
  PROVE  Recorded(o)'
  <1>1. /\ \A i \in Intents : intent[i].status # "none" /\ i # run.intent =>
                                intent'[i] = intent[i] /\ i # run'.intent
        /\ receipts \subseteq receipts'
    BY NothingIsUndone
  <1> QED
    BY <1>1 DEF Recorded, Accepted

\* What is open while the thread is free was told of, or cut off.
LEMMA OpenIsRecorded ==
  ASSUME RecordsInv, Idle, NEW o \in Intents, position[o] = "open"
  PROVE  Recorded(o)
  <1>1. intent[o] \in Records /\ Kept(o)
    BY DEF RecordsInv, TypesInv, Books, BookInv
  <1>2. o # run.intent
    <2> SUFFICES ASSUME o = run.intent PROVE FALSE
      OBVIOUS
    <2>1. run.at \in Waiting
      BY IntentAssumption DEF Idle, RecordsInv, LaneInv
    <2>2. CASE run.at = "preflight"
      BY <2>2 DEF RecordsInv, StageInv, Active, Booked, Fresh
    <2>3. CASE run.at = "quote"
      BY <1>1, <2>3 DEF RecordsInv, LaneInv, Kept, Fresh
    <2> QED
      BY <2>1, <2>2, <2>3 DEF Waiting
  <1> QED
    BY <1>1, <1>2 DEF Kept, Fresh, Records, Recorded

\* The steps that touch the cash.
LEMMA CashSteps ==
  ASSUME [ExecutionNext]_executionVars
  PROVE  \/ cash' = cash
         \/ \E i \in Intents : CloseFills(i) \/ GuardianCloses(i)
         \/ AddFills \/ Reset
  <1>1. ASSUME NEW i \in Intents, Authorizing(i) PROVE cash' = cash
    BY <1>1 DEF Authorizing, PreflightAllows, PreflightDenies, Approve, ReserveMission, Gate, RefuseOrder, ledgers
  <1>2. ASSUME NEW i \in Intents, Executing(i) PROVE cash' = cash
    BY <1>2 DEF Executing, Place, PlaceThrows, Unplaced, SettleSpend, Attach, AttachThrows, Reversed, Accept,
                AcceptThrows, Unwind, Unwound, ledgers
  <1>3. ASSUME NEW i \in Intents, CloseMission(i) \/ CloseReceipt(i) \/ Finish(i) \/ FinishUnsaved(i)
        PROVE  cash' = cash
    BY <1>3 DEF CloseMission, CloseReceipt, Finish, FinishUnsaved, ledgers
  <1>4. ASSUME NEW i \in Intents, NEW o \in Orders, Begin(i, o) PROVE cash' = cash
    BY <1>4 DEF Begin, ledgers
  <1>5. ASSUME NEW i \in Intents, \/ OwnerApproves(i) \/ MissionExpires(i) \/ AddBegins(i)
                                  \/ \E action \in {"open", "close"} : Probe(i, action)
        PROVE  cash' = cash
    BY <1>5 DEF OwnerApproves, MissionExpires, AddBegins, Probe, ledgers
  <1>6. CASE GuardianMission \/ GuardianReceipt \/ ProcessDies
    BY <1>6 DEF GuardianMission, GuardianReceipt, ProcessDies, ledgers
  <1>7. CASE UNCHANGED executionVars
    BY <1>7 DEF executionVars, ledgers
  <1> QED
    BY <1>1, <1>2, <1>3, <1>4, <1>5, <1>6, <1>7 DEF ExecutionNext, Closing, Others

\* How a close comes to wait for its quote.
LEMMA QuoteSteps ==
  ASSUME RecordsInv, [ExecutionNext]_executionVars, run'.at = "quote"
  PROVE  \/ run' = run /\ order' = order
         \/ \E i \in Intents, o \in Orders : Begin(i, o)
  <1>0. run \in Runs
    BY DEF RecordsInv, TypesInv, Hands
  <1>1. ASSUME NEW i \in Intents, Authorizing(i) \/ Executing(i) PROVE FALSE
    <2>1. PICK outcome \in Outcomes : OpenMove(i, outcome)
      BY <1>1, OrdersOpen DEF Opens
    <2> QED
      BY <2>1 DEF OpenMove, OpenStages, Ending
  <1>2. ASSUME NEW i \in Intents, Closing(i) PROVE FALSE
    <2>1. PICK stage \in {"closeMission", "closed", "succeed", "fail"} :
            run' = [run EXCEPT !.at = stage] \/ run' = [run EXCEPT !.at = stage, !.receipt = TRUE]
      BY <1>2 DEF Closing, CloseFills, CloseMission, CloseReceipt, Goto, WriteReceipt, LoseReceipt
    <2> QED
      BY <1>0, <2>1 DEF Runs
  <1>3. ASSUME NEW i \in Intents, Finish(i) \/ FinishUnsaved(i) PROVE FALSE
    BY <1>3, NoRunIsIdle DEF Finish, FinishUnsaved
  <1>4. CASE Others
    BY <1>4, NoRunIsIdle DEF Others, OwnerApproves, MissionExpires, GuardianCloses, AddBegins, AddFills,
                             GuardianMission, GuardianReceipt, Reset, Probe, ProcessDies
  <1>5. CASE UNCHANGED executionVars
    BY <1>5 DEF executionVars
  <1> QED
    BY <1>1, <1>2, <1>3, <1>4, <1>5 DEF ExecutionNext

\* How the sweep comes to wait for a quote.
LEMMA AddSteps ==
  ASSUME RecordsInv, [ExecutionNext]_executionVars, guard'.at = "add"
  PROVE  guard' = guard \/ \E o \in Intents : AddBegins(o)
  <1>0. guard \in Guards
    BY DEF RecordsInv, TypesInv, Hands
  <1>1. ASSUME NEW i \in Intents, Authorizing(i) \/ Executing(i) PROVE guard' = guard
    <2>1. PICK outcome \in Outcomes : OpenMove(i, outcome)
      BY <1>1, OrdersOpen DEF Opens
    <2> QED
      BY <2>1 DEF OpenMove
  <1>2. ASSUME NEW i \in Intents, Closing(i) \/ Finish(i) \/ FinishUnsaved(i) PROVE guard' = guard
    BY <1>2 DEF Closing, CloseFills, CloseMission, CloseReceipt, Finish, FinishUnsaved
  <1>3. ASSUME NEW i \in Intents, NEW o \in Orders, Begin(i, o) PROVE guard' = guard
    BY <1>3 DEF Begin
  <1>4. CASE Others
    BY <1>0, <1>4, NoGuardIsIdle DEF Others, OwnerApproves, MissionExpires, GuardianCloses, AddFills,
       GuardianMission, GuardianReceipt, Reset, Probe, ProcessDies, Guards
  <1>5. CASE UNCHANGED executionVars
    BY <1>5 DEF executionVars
  <1> QED
    BY <1>1, <1>2, <1>3, <1>4, <1>5 DEF ExecutionNext

LEMMA CashKept ==
  ASSUME RecordsInv, CashInv, [ExecutionNext]_executionVars
  PROVE  CashInv'
  <1>0. \A o \in Intents : Recorded(o) => Recorded(o)'
    BY StaysRecorded
  <1>1. run'.at = "quote" => Recorded(order[run.intent].target)'
    <2> SUFFICES ASSUME run'.at = "quote" PROVE Recorded(order[run.intent].target)'
      OBVIOUS
    <2>1. CASE run' = run /\ order' = order
      <3>1. run.intent \in Intents
        BY <2>1 DEF RecordsInv, TypesInv, Hands, Runs, LaneInv
      <3>2. order[run.intent].target \in Intents
        BY <2>1, <3>1 DEF RecordsInv, LaneInv, BookInv, Kept
      <3>3. Recorded(order[run.intent].target)
        BY <2>1 DEF CashInv
      <3> QED
        BY <1>0, <2>1, <3>2, <3>3 DEF Recorded, Accepted
    <2>2. CASE \E i \in Intents, o \in Orders : Begin(i, o)
      <3>1. PICK i \in Intents, o \in Orders : Begin(i, o)
        BY <2>2
      <3>2. /\ o.action = "close" => o.target \in Intents
            /\ run'.intent = i /\ (o.action = "open" => run'.at = "preflight") /\ o \in OrderRecords
        BY <3>1, OrderTaken DEF RecordsInv, TypesInv
      <3>3. o.action = "close" /\ o.target \in Intents /\ position[o.target] = "open" /\ Idle
        BY <3>1, <3>2 DEF Begin, OrderRecords
      <3>4. Recorded(o.target)'
        BY <1>0, <3>3, OpenIsRecorded
      <3>5. order'[i] = o
        BY <3>1 DEF Begin, RecordsInv, TypesInv, Books
      <3> QED
        BY <3>2, <3>4, <3>5 DEF Recorded, Accepted
    <2> QED
      BY <2>1, <2>2, QuoteSteps
  <1>2. guard'.at = "add" => guard'.position \in Intents /\ Recorded(guard.position)'
    <2> SUFFICES ASSUME guard'.at = "add" PROVE guard'.position \in Intents /\ Recorded(guard.position)'
      OBVIOUS
    <2>1. PICK o \in Intents : guard'.position = o /\ Recorded(o)
      <3>1. CASE guard' = guard
        BY <3>1 DEF CashInv
      <3>2. ASSUME NEW o \in Intents, AddBegins(o) PROVE guard'.position = o /\ Recorded(o)
        BY <3>2, OpenIsRecorded DEF AddBegins
      <3> QED
        BY <3>1, <3>2, AddSteps
    <2>2. Recorded(o)'
      BY <1>0, <2>1
    <2> QED
      BY <2>1, <2>2 DEF Recorded, Accepted
  <1>3. cash' = "off" => \E o \in Intents : Recorded(o)'
    <2> SUFFICES ASSUME cash' = "off", cash # "off" PROVE \E o \in Intents : Recorded(o)
      BY <1>0 DEF CashInv
    <2>1. ASSUME NEW i \in Intents, CloseFills(i) PROVE \E o \in Intents : Recorded(o)
      <3>1. Active(i) /\ run.at = "quote" /\ run.intent = i
        BY <2>1 DEF CloseFills, At, Active
      <3>2. order[i].target \in Intents
        BY <3>1, CloseActive
      <3> QED
        BY <3>1, <3>2 DEF CashInv
    <2>2. ASSUME NEW i \in Intents, GuardianCloses(i) PROVE FALSE
      BY <2>2 DEF GuardianCloses, Settles
    <2>3. CASE AddFills
      BY <2>3 DEF AddFills, CashInv
    <2>4. CASE Reset
      BY <2>4 DEF Reset
    <2> QED
      BY <2>1, <2>2, <2>3, <2>4, CashSteps
  <1> QED
    BY <1>1, <1>2, <1>3 DEF CashInv

\* Reconciliation keeps seeing what it has seen in the records.
LEMMA RecordDamageKept ==
  ASSUME RecordsInv, [ExecutionNext]_executionVars, RecordDamage(run.intent)
  PROVE  RecordDamage(run.intent)'
  <1>1. /\ \A i \in Intents : intent[i].status # "none" /\ i # run.intent =>
                                intent'[i] = intent[i] /\ i # run'.intent
        /\ \A o \in Intents : position[o] = "wiped" => position'[o] = "wiped"
        /\ receipts \subseteq receipts'
    BY NothingIsUndone
  <1>2. CASE \E i \in Intents \ {run.intent} : UnknownOutcome(i) \/ NoReceipt(i)
    <2>1. PICK i \in Intents \ {run.intent} : UnknownOutcome(i) \/ NoReceipt(i)
      BY <1>2
    <2>2. intent'[i] = intent[i] /\ i # run'.intent
      BY <1>1, <2>1 DEF UnknownOutcome, NoReceipt
    <2> QED
      BY <2>1, <2>2 DEF RecordDamage, UnknownOutcome, NoReceipt
  <1>3. CASE \E r \in receipts : OpenLost(r) \/ CloseLost(r)
    <2>1. PICK r \in receipts : OpenLost(r) \/ CloseLost(r)
      BY <1>3
    <2>2. position'[r.position] = "wiped" /\ r \in receipts'
      BY <1>1, <2>1, LostIsWiped
    <2> QED
      BY <2>1, <2>2 DEF RecordDamage, OpenLost, CloseLost
  <1> QED
    BY <1>2, <1>3, NoDuplicate DEF RecordDamage

\* A reset, which makes the cash right, leaves the receipts of what it wiped.
LEMMA ResetShows ==
  ASSUME RecordsInv, Reset, NEW o \in Intents, Recorded(o)
  PROVE  RecordDamage(run.intent)'
  <1>1. /\ position' = [p \in Intents |-> IF position[p] = "none" THEN "none" ELSE "wiped"]
        /\ UNCHANGED <<intent, receipts, run>>
    BY DEF Reset
  <1>2. CASE Accepted(o)
    <2>1. PICK r \in receipts : r.intent = o /\ r.action = "open" /\ r.outcome = "accepted"
      BY <1>2 DEF Accepted
    <2>2. Entry(r) /\ Truth(r)
      BY DEF RecordsInv, ReceiptInv
    <2>3. r.position = o /\ position[o] # "none"
      BY <2>1, <2>2, IntentAssumption DEF Entry, Truth
    <2>4. r \in receipts' /\ position'[r.position] = "wiped"
      BY <1>1, <2>3
    <2> QED
      BY <2>1, <2>4 DEF RecordDamage, OpenLost
  <1>3. CASE intent[o].status = "pending" /\ o # run.intent
    BY <1>1, <1>3 DEF RecordDamage, UnknownOutcome
  <1> QED
    BY <1>2, <1>3 DEF Recorded

LEMMA DamageKept ==
  ASSUME RecordsInv, CashInv, [ExecutionNext]_executionVars, LastingDamage
  PROVE  LastingDamage'
  <1>1. CASE RecordDamage(run.intent)
    BY <1>1, RecordDamageKept DEF LastingDamage
  <1>2. CASE cash = "off"
    <2>1. CASE Reset
      <3>1. PICK o \in Intents : Recorded(o)
        BY <1>2 DEF CashInv
      <3> QED
        BY <2>1, <3>1, ResetShows DEF LastingDamage
    <2>2. CASE ~Reset
      <3>1. cash' = "off"
        BY <1>2, <2>2, CashSteps DEF CloseFills, GuardianCloses, AddFills, Settles
      <3> QED
        BY <3>1 DEF LastingDamage
    <2> QED
      BY <2>1, <2>2
  <1> QED
    BY <1>1, <1>2 DEF LastingDamage

\* What an agent's order was cleared by is still there when it is placed.
LEMMA BlockedSame ==
  ASSUME UNCHANGED <<intent, order, position, cash, receipts>>, NEW i
  PROVE  Blocked(i)' <=> Blocked(i)
  BY DEF Blocked, Damaged, RecordDamage, CashMismatch, UnknownOutcome, NoReceipt, Duplicate, OpenLost, CloseLost, Stray

\* Where a step takes the active order, if not to a place that needs clearance.
Uncleared == run'.at \notin {"approve", "mission", "gate", "place"}

LEMMA ClearanceKept ==
  ASSUME RecordsInv, ClearInv, [ExecutionNext]_executionVars
  PROVE  ClearInv'
  <1>0. Uncleared => ClearInv'
    BY DEF Uncleared, ClearInv, Cleared
  <1>1. run \in Runs
    BY DEF RecordsInv, TypesInv, Hands
  <1>2. ASSUME NEW i \in Intents, PreflightAllows(i) \/ Approve(i) \/ ReserveMission(i) \/ Gate(i)
        PROVE  ClearInv'
    <2>1. UNCHANGED <<intent, order, position, cash, receipts>>
      BY <1>2 DEF PreflightAllows, Approve, ReserveMission, Gate, ledgers
    <2>2. run.intent = i /\ run'.intent = i /\ run.at \in {"preflight", "approve", "mission", "gate"}
      BY <1>1, <1>2 DEF PreflightAllows, Approve, ReserveMission, Gate, At, Goto, Runs
    <2>3. IsAgent(i) => ~Blocked(i)
      <3>1. CASE PreflightAllows(i)
        BY <3>1 DEF PreflightAllows
      <3>2. CASE ~PreflightAllows(i)
        <4>1. run.at \in {"approve", "mission", "gate"}
          BY <1>2, <3>2 DEF Approve, ReserveMission, Gate, At
        <4> QED
          BY <2>2, <4>1 DEF ClearInv, Active, Cleared
      <3> QED
        BY <3>1, <3>2
    <2>4. Blocked(i)' <=> Blocked(i)
      BY <2>1, BlockedSame
    <2> SUFFICES ASSUME NEW j \in Intents, Active(j)', IsAgent(j)' PROVE ~Blocked(j)'
      BY DEF ClearInv, Cleared
    <2>5. j = i
      BY <2>2 DEF Active
    <2> QED
      BY <2>1, <2>3, <2>4, <2>5 DEF IsAgent
  <1>3. ASSUME NEW i \in Intents, PreflightDenies(i) \/ RefuseOrder(i) \/ Executing(i) \/ Closing(i)
        PROVE  ClearInv'
    <2>1. PICK stage \in {"refuse", "fail", "settle", "unplaced", "unwind", "succeed", "attach", "accept",
                          "reversed", "unwound", "closeMission", "closed"} :
            run' = [run EXCEPT !.at = stage] \/ run' = [run EXCEPT !.at = stage, !.receipt = TRUE]
      <3>1. CASE PreflightDenies(i) \/ RefuseOrder(i)
        BY <3>1 DEF PreflightDenies, RefuseOrder, Goto, WriteReceipt, LoseReceipt
      <3>2. CASE Executing(i)
        <4>1. CASE Place(i) \/ PlaceThrows(i) \/ Attach(i) \/ AttachThrows(i) \/ Unwind(i) \/ SettleSpend(i)
          BY <4>1 DEF Place, PlaceThrows, Attach, AttachThrows, Unwind, SettleSpend, Goto
        <4>2. CASE Unplaced(i) \/ Reversed(i) \/ Accept(i) \/ AcceptThrows(i) \/ Unwound(i)
          BY <4>2 DEF Unplaced, Reversed, Accept, AcceptThrows, Unwound, Goto, WriteReceipt, LoseReceipt
        <4> QED
          BY <3>2, <4>1, <4>2 DEF Executing
      <3>3. CASE Closing(i)
        BY <3>3 DEF Closing, CloseFills, CloseMission, CloseReceipt, Goto, WriteReceipt, LoseReceipt
      <3> QED
        BY <1>3, <3>1, <3>2, <3>3
    <2> QED
      BY <1>0, <1>1, <2>1, RunMoved DEF Uncleared, Runs
  <1>4. ASSUME NEW i \in Intents, NEW o \in Orders, Begin(i, o) PROVE ClearInv'
    <2>1. run'.at \in {"preflight", "quote", "notFound"}
      BY <1>4 DEF Begin
    <2> QED
      BY <1>0, <2>1 DEF Uncleared
  <1>5. CASE \E i \in Intents : Finish(i) \/ FinishUnsaved(i)
    BY <1>0, <1>5, NoRunIsIdle DEF Finish, FinishUnsaved, Uncleared
  <1>6. CASE Others
    <2>1. CASE ProcessDies
      BY <1>0, <2>1, NoRunIsIdle DEF ProcessDies, Uncleared
    <2>2. CASE ~ProcessDies
      <3>1. run' = run /\ (Idle \/ ~Free)
        BY <1>6, <2>2 DEF Others, OwnerApproves, MissionExpires, GuardianCloses, AddBegins, AddFills,
                          GuardianMission, GuardianReceipt, Reset, Probe, Free
      <3>2. run.at \in {"idle"} \cup Waiting
        BY <3>1 DEF Idle, RecordsInv, LaneInv
      <3> QED
        BY <1>0, <3>1, <3>2 DEF Uncleared, Waiting
    <2> QED
      BY <2>1, <2>2
  <1>7. CASE UNCHANGED executionVars
    <2>1. UNCHANGED <<intent, order, position, cash, receipts, run>>
      BY <1>7 DEF executionVars, ledgers
    <2> SUFFICES ASSUME NEW j \in Intents, Active(j)' PROVE Cleared(j)'
      BY DEF ClearInv
    <2>2. Blocked(j)' <=> Blocked(j)
      BY <2>1, BlockedSame
    <2> QED
      BY <2>1, <2>2 DEF ClearInv, Active, Cleared, IsAgent
  <1> QED
    BY <1>2, <1>3, <1>4, <1>5, <1>6, <1>7 DEF ExecutionNext, Authorizing

LEMMA OnlyClearedOpens ==
  ASSUME RecordsInv, ClearInv, [ExecutionNext]_executionVars,
         NEW o \in Intents, position[o] = "none", position'[o] = "open", IsAgent(o)
  PROVE  ~Blocked(o)
  <1>1. position \in [Intents -> Positions]
    BY DEF RecordsInv, TypesInv, Books
  <1>2. ASSUME NEW i \in Intents, Place(i) PROVE ~Blocked(o)
    <2>1. o = i /\ run.at = "place" /\ run.intent = i
      BY <1>1, <1>2 DEF Place, At
    <2> QED
      BY <2>1 DEF ClearInv, Active, Cleared
  <1>3. ASSUME NEW i \in Intents, Authorizing(i) \/ (Executing(i) /\ ~Place(i)) PROVE position' = position \/ position'[o] # "open"
    <2>1. CASE Authorizing(i)
      BY <2>1 DEF Authorizing, PreflightAllows, PreflightDenies, Approve, ReserveMission, Gate, RefuseOrder, ledgers
    <2>2. CASE Executing(i) /\ ~Place(i)
      <3>1. CASE AttachThrows(i) \/ AcceptThrows(i)
        BY <1>1, <3>1 DEF AttachThrows, AcceptThrows
      <3>2. CASE ~(AttachThrows(i) \/ AcceptThrows(i))
        BY <2>2, <3>2 DEF Executing, PlaceThrows, Unplaced, SettleSpend, Attach, Reversed, Accept, Unwind, Unwound, ledgers
      <3> QED
        BY <3>1, <3>2
    <2> QED
      BY <1>3, <2>1, <2>2
  <1>4. ASSUME NEW i \in Intents, Closing(i) \/ Finish(i) \/ FinishUnsaved(i) PROVE position' = position \/ position'[o] # "open"
    BY <1>1, <1>4 DEF Closing, CloseFills, CloseMission, CloseReceipt, Finish, FinishUnsaved, ledgers
  <1>5. ASSUME NEW i \in Intents, NEW p \in Orders, Begin(i, p) PROVE position' = position
    BY <1>5 DEF Begin, ledgers
  <1>6. CASE Others
    BY <1>1, <1>6 DEF Others, OwnerApproves, MissionExpires, GuardianCloses, AddBegins, AddFills, GuardianMission, GuardianReceipt, Reset,
                Probe, ProcessDies, ledgers
  <1>7. CASE UNCHANGED executionVars
    BY <1>7 DEF executionVars, ledgers
  <1> QED
    BY <1>2, <1>3, <1>4, <1>5, <1>6, <1>7 DEF ExecutionNext

\* Nothing of an agent's opens past reconciliation, and no damage it has seen
\* but a sum of roundings heals, not even by a reset.
THEOREM ReconciliationHolds == ExecutionSpec => ReconciliationGuards
  <1>1. ExecutionInit => RecordsInv /\ ClearInv /\ CashInv
    <2>1. ExecutionInit => ClearInv /\ CashInv
      BY NoRunIsIdle, NoGuardIsIdle DEF ExecutionInit, ClearInv, CashInv, Active
    <2> QED
      BY <2>1, RecordsInit
  <1>2. RecordsInv /\ ClearInv /\ CashInv /\ [ExecutionNext]_executionVars => (RecordsInv /\ ClearInv /\ CashInv)'
    BY RecordsKept, ClearanceKept, CashKept
  <1>3. RecordsInv /\ ClearInv /\ [ExecutionNext]_executionVars =>
          [\A o \in Intents : position[o] = "none" /\ position'[o] = "open" /\ IsAgent(o) => ~Blocked(o)]_executionVars
    BY OnlyClearedOpens
  <1>4. RecordsInv /\ CashInv /\ [ExecutionNext]_executionVars => [LastingDamage => LastingDamage']_executionVars
    BY DamageKept
  <1> QED
    BY <1>1, <1>2, <1>3, <1>4, PTL DEF ExecutionSpec, ReconciliationGuards, ExposureNeedsReconciliation, DamageStays

=============================================================================
