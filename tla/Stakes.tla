--------------------------------- MODULE Stakes ---------------------------------
(***************************************************************************)
(* Trust stakes, slashes and appeals (lib/stakes.js, lib/slashes.js and    *)
(* their routes).                                                          *)
(*                                                                         *)
(* Two stores, each with its file. Handlers are synchronous, so an action  *)
(* is a handler, except createSlash, which saves the stakes once for every *)
(* stake it reduces and its own record after them: each save is a step, and*)
(* the process may die between two of them.                                *)
(*                                                                         *)
(* Amounts are decimal strings in the file and BigInts while one computes. *)
(* restoreStake leaves a BigInt behind; JSON.stringify throws on it, so    *)
(* that no save of the stakes succeeds while there is one.                 *)
(***************************************************************************)
EXTENDS Integers, FiniteSets

CONSTANTS Owners, NoOwner,
          NumStakes, NumSlashes,     \* bound the stakes and the calls of createSlash
          Amounts,                   \* what may be staked
          Reasons, Pct,              \* SLASH_RULES
          Cooldown, Window,          \* UNSTAKE_COOLDOWN_MS, APPEAL_WINDOW_MS
          MaxNow, MaxCrashes         \* bound the clock and the crashes

\* Stakes and slashes are numbered in the order of their lists.
StakeIds == 1..NumStakes
SlashIds == 1..NumSlashes

ASSUME AmountAssumption == Amounts \subseteq Nat \ {0}
ASSUME PctAssumption == Pct \in [Reasons -> 1..100]
ASSUME BoundAssumption == {NumStakes, NumSlashes, Cooldown, Window, MaxNow, MaxCrashes} \subseteq Nat
ASSUME OwnerAssumption == NoOwner \notin Owners

VARIABLES book,        \* the stakes in memory
          file,        \* data/stakes.json
          slashes,     \* lib/slashes.js, in memory and in its file alike
          job,         \* the createSlash under way
          calls,       \* of createSlash so far
          now, crashes,
          staked,      \* what was put in
          told,        \* the last status an owner's request was answered with
          torn         \* a slash or a restored amount was lost on the way

vars == <<book, file, slashes, job, calls, now, crashes, staked, told, torn>>
history == <<staked, told, torn>>

Statuses == {"none", "active", "unstaking", "slashed", "withdrawn"}
Stake == [owner : Owners \cup {NoOwner}, status : Statuses, amount : Nat, big : BOOLEAN, since : Nat]
Slash == [status : {"none", "open", "accepted", "rejected", "expired"},
          cut : [StakeIds -> Nat], appealed : BOOLEAN, deadline : Nat]
Job == [reason : Reasons, todo : SUBSET StakeIds, cut : [StakeIds -> Nat]]

NoStake == [owner |-> NoOwner, status |-> "none", amount |-> 0, big |-> FALSE, since |-> 0]
NoCut == [s \in StakeIds |-> 0]
NoSlash == [status |-> "none", cut |-> NoCut, appealed |-> FALSE, deadline |-> 0]
NoJob == [todo |-> {}]

Init ==
  /\ book = [s \in StakeIds |-> NoStake]
  /\ file = book
  /\ slashes = [r \in SlashIds |-> NoSlash]
  /\ job = NoJob
  /\ calls = 0
  /\ now = 0
  /\ crashes = 0
  /\ staked = NoCut
  /\ told = [s \in StakeIds |-> "none"]
  /\ torn = FALSE

-----------------------------------------------------------------------------
(* Stakes                                                                  *)

Saveable(b) == \A s \in StakeIds : ~b[s].big

\* save: JSON.stringify throws before anything is written.
Save(b) ==
  /\ book' = b
  /\ file' = IF Saveable(b) THEN b ELSE file

\* Mutant: the answer does not wait for the save.
AnswerUnsaved(s, b) == told' = [told EXCEPT ![s] = b[s].status]

\* The answer to a request about stake s: an error when its save throws.
Answer(s, b) == told' = IF Saveable(b) THEN [told EXCEPT ![s] = b[s].status] ELSE told

Idle == job = NoJob

CreateStake(s, o, a) ==
  LET b == [book EXCEPT ![s] = [NoStake EXCEPT !.owner = o, !.status = "active", !.amount = a]]
  IN  /\ Idle
      /\ staked[s] = 0
      /\ \A t \in StakeIds : t < s => staked[t] # 0
      /\ Save(b) /\ Answer(s, b)
      /\ staked' = [staked EXCEPT ![s] = a]
      /\ UNCHANGED <<slashes, job, calls, now, crashes, torn>>

RequestUnstake(s) ==
  LET b == [book EXCEPT ![s] = [book[s] EXCEPT !.status = "unstaking", !.since = now]]
  IN  /\ Idle
      /\ book[s].status = "active"
      /\ Save(b) /\ Answer(s, b)
      /\ UNCHANGED <<slashes, job, calls, now, crashes, staked, torn>>

Withdraw(s) ==
  LET b == [book EXCEPT ![s].status = "withdrawn"]
  IN  /\ Idle
      /\ book[s].status = "unstaking"
      /\ now - book[s].since >= Cooldown
      /\ Save(b) /\ Answer(s, b)
      /\ UNCHANGED <<slashes, job, calls, now, crashes, staked, torn>>

\* slashStake
Reduction(stake, reason) == (stake.amount * Pct[reason]) \div 100

Slashed(stake, reason) ==
  LET rest == stake.amount - Reduction(stake, reason)
  IN  [stake EXCEPT !.amount = rest,
                    !.big = FALSE,
                    !.status = IF rest = 0 THEN "slashed" ELSE stake.status]

\* restoreStake; it throws for a stake that is gone.
Restored(stake, cut) ==
  IF stake.status \in {"none", "withdrawn", "slashed"} THEN stake
  ELSE [stake EXCEPT !.amount = stake.amount + cut, !.big = TRUE]

-----------------------------------------------------------------------------
(* Slashes                                                                 *)

ActiveStakes(o) == {s \in StakeIds : book[s].owner = o /\ book[s].status = "active"}

CreateSlash(o, reason) ==
  /\ Idle
  /\ calls < NumSlashes
  /\ ActiveStakes(o) # {}
  /\ job' = [reason |-> reason, todo |-> ActiveStakes(o), cut |-> NoCut]
  /\ calls' = calls + 1
  /\ UNCHANGED <<book, file, slashes, now, crashes, history>>

\* The next stake of the list. When the save throws so does createSlash.
SlashNext ==
  /\ ~Idle
  /\ \E s \in job.todo :
       LET b == [book EXCEPT ![s] = Slashed(book[s], job.reason)]
       IN  /\ \A t \in job.todo : s <= t
           /\ Save(b)
           /\ job' = IF Saveable(b)
                     THEN [job EXCEPT !.todo = job.todo \ {s},
                                      !.cut = [job.cut EXCEPT ![s] = Reduction(book[s], job.reason)]]
                     ELSE NoJob
           /\ torn' = (torn \/ ~Saveable(b))
  /\ UNCHANGED <<slashes, calls, now, crashes, staked, told>>

RecordSlash(r) ==
  /\ ~Idle /\ job.todo = {}
  /\ slashes[r] = NoSlash /\ \A q \in SlashIds : q < r => slashes[q] # NoSlash
  /\ slashes' = [slashes EXCEPT ![r] =
       [status |-> "open", cut |-> job.cut, appealed |-> FALSE, deadline |-> now + Window]]
  /\ job' = NoJob
  /\ UNCHANGED <<book, file, calls, now, crashes, history>>

FileAppeal(r) ==
  /\ Idle
  /\ slashes[r].status = "open"
  /\ slashes' = IF now > slashes[r].deadline
                THEN [slashes EXCEPT ![r].status = "expired"]
                ELSE [slashes EXCEPT ![r].appealed = TRUE]
  /\ UNCHANGED <<book, file, job, calls, now, crashes, history>>

AppealLapses(r) ==
  /\ now > slashes[r].deadline
  /\ slashes' = [slashes EXCEPT ![r].status = "expired"]
  /\ UNCHANGED <<book, file>>

RejectAppeal(r) ==
  /\ now <= slashes[r].deadline
  /\ slashes' = [slashes EXCEPT ![r].status = "rejected"]
  /\ UNCHANGED <<book, file>>

\* restoreStake for every stake of the slash, each of which lost something: what
\* it throws, its failing save included, is swallowed.
AcceptAppeal(r) ==
  /\ now <= slashes[r].deadline
  /\ slashes' = [slashes EXCEPT ![r].status = "accepted"]
  /\ Save([s \in StakeIds |->
       IF slashes[r].cut[s] = 0 THEN book[s] ELSE Restored(book[s], slashes[r].cut[s])])

\* Mutant: an appeal is decided as often as one likes.
DecideAgain(r) ==
  /\ Idle
  /\ slashes[r].appealed
  /\ AppealLapses(r) \/ RejectAppeal(r) \/ AcceptAppeal(r)
  /\ UNCHANGED <<job, calls, now, crashes, history>>

DecideAppeal(r) ==
  /\ Idle
  /\ slashes[r].status = "open" /\ slashes[r].appealed
  /\ AppealLapses(r) \/ RejectAppeal(r) \/ AcceptAppeal(r)
  /\ UNCHANGED <<job, calls, now, crashes, history>>

-----------------------------------------------------------------------------
(* The clock and the process                                               *)

Tick ==
  /\ now < MaxNow
  /\ now' = now + 1
  /\ UNCHANGED <<book, file, slashes, job, calls, crashes, history>>

\* The process dies; the next one loads the files.
Crash ==
  /\ crashes < MaxCrashes
  /\ crashes' = crashes + 1
  /\ book' = file
  /\ job' = NoJob
  /\ torn' = \/ torn
             \/ \E s \in StakeIds : file[s].amount # book[s].amount
             \/ ~Idle /\ job.cut # NoCut
  /\ UNCHANGED <<file, slashes, calls, now, staked, told>>

Staking == \E s \in StakeIds :
             \/ \E o \in Owners, a \in Amounts : CreateStake(s, o, a)
             \/ RequestUnstake(s)
             \/ Withdraw(s)
Slashing == \/ \E o \in Owners, reason \in Reasons : CreateSlash(o, reason)
            \/ SlashNext
            \/ \E r \in SlashIds : RecordSlash(r) \/ FileAppeal(r) \/ DecideAppeal(r)

Next == Staking \/ Slashing \/ Tick \/ Crash

Spec == Init /\ [][Next]_vars

-----------------------------------------------------------------------------
(* Properties                                                              *)

\* The types, and that createSlash only has active stakes before it.
TypeOK ==
  /\ book \in [StakeIds -> Stake] /\ file \in [StakeIds -> Stake]
  /\ Saveable(file)
  /\ slashes \in [SlashIds -> Slash]
  /\ job = NoJob \/ job \in Job
  /\ \A s \in job.todo : book[s].status = "active"
  /\ calls \in Nat /\ now \in Nat /\ crashes \in Nat /\ torn \in BOOLEAN
  /\ staked \in [StakeIds -> Nat] /\ told \in [StakeIds -> Statuses]

\* The sum of f over S, as the size of a set with f[x] units for every x.
Units(f, S) == UNION {{x} \X (1..f[x]) : x \in S}
Sum(f, S) == Cardinality(Units(f, S))

CutsOf(s) == [r \in SlashIds |-> slashes[r].cut[s]]

\* What stands deducted from stake s: by slashes that no appeal overturned and
\* by the one under way.
Standing == {r \in SlashIds : slashes[r].status # "accepted"}
Deducted(s) == Sum(CutsOf(s), Standing) + IF Idle THEN 0 ELSE job.cut[s]

\* slashStake, restoreStake and decideAppeal keep two stores in step: no order of
\* slashes, appeals, withdrawals, failing saves and restarts makes a stake, in
\* memory or in the file, larger than what was put in less what stands deducted;
\* and as long as no slash or restoration is lost, a stake not withdrawn is just that.
AmountsAccounted == \A s \in StakeIds :
  /\ \A b \in {book, file} : b[s].amount + Deducted(s) <= staked[s]
  /\ ~torn /\ book[s].status \in {"active", "unstaking"} => book[s].amount + Deducted(s) = staked[s]

\* A request to stake, unstake or withdraw that was answered without an error is
\* not undone: not by a restart, and not by a save that failed before or after it.
AnswersAreDurable == \A s \in StakeIds, b \in {book, file} :
  /\ told[s] = "active" => b[s].status # "none"
  /\ told[s] = "unstaking" => b[s].status \in {"unstaking", "withdrawn"}
  /\ told[s] = "withdrawn" => b[s].status = "withdrawn"

\* "accepted -> restore the slashed amounts to the stakes" (slashes.js:93): only a
\* slash takes anything from a stake, so that what an appeal gave back stays.
\* The saves that follow throw on its BigInt, so a restart takes it back: this does
\* not hold (README, Known divergences).
AppealsRestoreForGood == [][\A s \in StakeIds : Idle => book'[s].amount >= book[s].amount]_vars

=============================================================================
