------------------------------- MODULE SpendRails -------------------------------
(***************************************************************************)
(* The rails between an agent and money: wallet limits (lib/limits.js),    *)
(* Pacts (lib/pacts.js), the wallet balance (lib/wallets.js) and the       *)
(* emergency freeze (lib/freeze.js), as the spend endpoints and the paper  *)
(* order path of server.js drive them: reserve in both ledgers, act, then  *)
(* commit or release in both.                                              *)
(*                                                                         *)
(* The handlers are synchronous, but each ledger is a file of its own and  *)
(* is saved on its own, so a handler is one action per save.  While `at`   *)
(* names the next step of a handler nothing else runs, but the process may *)
(* die and the clock, which every check reads afresh, may move on.         *)
(*                                                                         *)
(* One agent wallet and the Pacts bound to it: the stores keep wallets     *)
(* apart.  Time is counted in UTC days.                                    *)
(***************************************************************************)
EXTENDS Integers, FiniteSets

CONSTANTS
  Ids,          \* reservations (reserveId is random, so never used twice)
  Pacts,        \* Pacts bound to the wallet
  PactBudget,   \* completion.budgetMinor of a budget Pact, 0 for the others
  PactDeadline, \* completion.deadlineTs of a time Pact, 0 for the others
  PerTxCap, DailyCap, WeeklyCap,  \* the wallet's limits, 0 for none
  WeekOf,       \* WeekOf[d]: the UTC week of day d
  MaxAmount,    \* bound: amounts are 1..MaxAmount
  MaxBalance,   \* bound: funding stops here
  MaxDay,       \* bound: the clock stops here
  MaxCrashes,   \* bound: process crashes explored
  NoId, NoPact

ASSUME IdsAssumption == IsFiniteSet(Ids)
ASSUME PactAssumption ==
  /\ PactBudget \in [Pacts -> Nat]
  /\ PactDeadline \in [Pacts -> Nat]
  /\ NoPact \notin Pacts
ASSUME NumberAssumption ==
  /\ PerTxCap \in Nat /\ DailyCap \in Nat /\ WeeklyCap \in Nat
  /\ MaxAmount \in Nat \ {0}
  /\ MaxBalance \in Nat /\ MaxDay \in Nat /\ MaxCrashes \in Nat
ASSUME WeekAssumption ==
  /\ WeekOf \in [0..MaxDay -> Nat]
  /\ \A d, e \in 0..MaxDay : d <= e => WeekOf[d] <= WeekOf[e]

VARIABLES
  today,              \* the UTC day
  frozen,             \* data/freeze.json
  walletStatus, balance,              \* the wallet's row in data/wallets.json
  dayKey, dayUsed, weekKey, weekUsed, \* its row in data/limits.json
  lim,      \* lim[i]: reservation i in limits.json
  pac,      \* pac[i]: reservation i in pacts.json
  amount, pactOf, madeOn, flow,   \* what reservation i is for
  pactStatus, spent,  \* data/pacts.json
  debitedOn,          \* the day reservation i was debited, -1 if it was not
  holder,             \* who can still commit or release i
  at, job,            \* the running handler's next step, and its reservation
  crashes

limitStore == <<dayKey, dayUsed, weekKey, weekUsed, lim>>
pactStore == <<pac, pactStatus, spent>>
walletStore == <<walletStatus, balance, debitedOn>>
terms == <<amount, pactOf, madeOn, flow>>
handler == <<at, job>>
vars == <<today, frozen, walletStore, limitStore, pactStore, terms, holder, handler, crashes>>

Amounts == 1..MaxAmount
Flows == {"order",   \* agentSpendGate: a paper order holds it in memory
          "pay"}     \* /api/spend/*: a client holds its reserveId
Stages == {"reservePact", "undoLimits", "debit", "commitPact", "releasePact"}

WorldType == today \in 0..MaxDay /\ frozen \in BOOLEAN /\ crashes \in 0..MaxCrashes
WalletType ==
  /\ walletStatus \in {"active", "suspended"}
  /\ balance \in 0..MaxBalance
  /\ debitedOn \in [Ids -> -1..MaxDay]
LimitsType ==
  /\ dayKey \in 0..MaxDay /\ dayUsed \in Nat
  /\ weekKey \in Nat /\ weekUsed \in Nat
  /\ lim \in [Ids -> {"unused", "held", "committed", "released"}]
PactsType ==
  /\ pac \in [Ids -> {"none", "held", "spent", "released"}]
  /\ pactStatus \in [Pacts -> {"proposed", "active", "rejected", "expired", "terminated"}]
  /\ spent \in [Pacts -> Nat]
TermsType ==
  /\ amount \in [Ids -> 0..MaxAmount]
  /\ pactOf \in [Ids -> Pacts \cup {NoPact}]
  /\ madeOn \in [Ids -> 0..MaxDay]
  /\ flow \in [Ids -> Flows]
HandlerType ==
  /\ at \in {"idle"} \cup Stages
  /\ job \in Ids \cup {NoId}
  /\ holder \in [Ids -> {"none", "server", "order", "client", "lost"}]

TypeOK == WorldType /\ WalletType /\ LimitsType /\ PactsType /\ TermsType /\ HandlerType

Init ==
  /\ today = 0
  /\ frozen = FALSE
  /\ walletStatus = "active" /\ balance = 0
  /\ dayKey = 0 /\ dayUsed = 0 /\ weekKey = WeekOf[0] /\ weekUsed = 0
  /\ lim = [i \in Ids |-> "unused"]
  /\ pac = [i \in Ids |-> "none"]
  /\ amount = [i \in Ids |-> 0]
  /\ pactOf = [i \in Ids |-> NoPact]
  /\ madeOn = [i \in Ids |-> 0]
  /\ flow = [i \in Ids |-> "order"]
  /\ pactStatus = [p \in Pacts |-> "proposed"]
  /\ spent = [p \in Pacts |-> 0]
  /\ debitedOn = [i \in Ids |-> -1]
  /\ holder = [i \in Ids |-> "none"]
  /\ at = "idle" /\ job = NoId
  /\ crashes = 0

-----------------------------------------------------------------------------
(* Sums                                                                    *)

\* The minor units the reservations of S stand for, one element each, so that
\* a sum of amounts is the size of a set.
Cents(S, amt) == {c \in S \X Amounts : c[2] <= amt[c[1]]}
Total(S) == Cardinality(Cents(S, amount))

Outstanding(p) == {i \in Ids : pactOf[i] = p /\ pac[i] = "held"}
SpentUnder(p) == {i \in Ids : pactOf[i] = p /\ pac[i] = "spent"}
Counted == {i \in Ids : lim[i] \in {"held", "committed"}}
GrantedOn(d) == {i \in Counted : madeOn[i] = d}
GrantedInWeek(k) == {i \in Counted : WeekOf[madeOn[i]] = k}

-----------------------------------------------------------------------------
(* Checks                                                                  *)

\* sweepExpiry: getPact applies it on every read.
Due(p, s) ==
  \/ PactDeadline[p] > 0 /\ today >= PactDeadline[p]
  \/ PactBudget[p] > 0 /\ s >= PactBudget[p]

Swept(p, s) == IF pactStatus[p] = "active" /\ Due(p, s) THEN "expired" ELSE pactStatus[p]
Sweep(p, s) == pactStatus' = [pactStatus EXCEPT ![p] = Swept(p, s)]

\* Mutant: the stored status is trusted.
PactAllowsStale(p, a) ==
  /\ pactStatus[p] = "active"
  /\ ~frozen
  /\ PactBudget[p] > 0 => spent[p] + Total(Outstanding(p)) + a <= PactBudget[p]

\* checkPactSpend
PactAllows(p, a) ==
  /\ Swept(p, spent[p]) = "active"
  /\ ~frozen
  /\ PactBudget[p] > 0 => spent[p] + Total(Outstanding(p)) + a <= PactBudget[p]

\* rollWindows: what the row reads today.
DayUsedNow == IF dayKey = today THEN dayUsed ELSE 0
WeekUsedNow == IF weekKey = WeekOf[today] THEN weekUsed ELSE 0

\* Mutant: the week is not looked at.
LimitsAllowDaily(a) ==
  /\ walletStatus = "active"
  /\ ~frozen
  /\ PerTxCap > 0 => a <= PerTxCap
  /\ DailyCap > 0 => DayUsedNow + a <= DailyCap

\* checkSpend
LimitsAllow(a) ==
  /\ walletStatus = "active"
  /\ ~frozen
  /\ PerTxCap > 0 => a <= PerTxCap
  /\ DailyCap > 0 => DayUsedNow + a <= DailyCap
  /\ WeeklyCap > 0 => WeekUsedNow + a <= WeeklyCap

Free == at = "idle"
At(stage, i) == at = stage /\ job = i
Goto(stage, i) == at' = stage /\ job' = i
Done == at' = "idle" /\ job' = NoId

-----------------------------------------------------------------------------
(* Reserve: agentSpendGate, POST /api/spend/reserve                        *)

\* checkPactSpend passes, then reserveSpend counts the amount in both windows.
ReserveLimits(i, p, a, f) ==
  /\ Free
  /\ lim[i] = "unused"
  /\ PactAllows(p, a)
  /\ LimitsAllow(a)
  /\ dayKey' = today /\ dayUsed' = DayUsedNow + a
  /\ weekKey' = WeekOf[today] /\ weekUsed' = WeekUsedNow + a
  /\ lim' = [lim EXCEPT ![i] = "held"]
  /\ amount' = [amount EXCEPT ![i] = a]
  /\ pactOf' = [pactOf EXCEPT ![i] = p]
  /\ madeOn' = [madeOn EXCEPT ![i] = today]
  /\ flow' = [flow EXCEPT ![i] = f]
  /\ holder' = [holder EXCEPT ![i] = "server"]
  /\ Goto("reservePact", i)
  /\ UNCHANGED <<today, frozen, walletStore, pactStore, crashes>>

\* reservePactSpend checks the Pact again before it records the reservation.
ReservePact(i) ==
  /\ At("reservePact", i)
  /\ Sweep(pactOf[i], spent[pactOf[i]])
  /\ IF PactAllows(pactOf[i], amount[i])
       THEN /\ pac' = [pac EXCEPT ![i] = "held"]
            /\ holder' = [holder EXCEPT ![i] = IF flow[i] = "order" THEN "order" ELSE "client"]
            /\ Done
       ELSE /\ Goto("undoLimits", i)
            /\ UNCHANGED <<pac, holder>>
  /\ UNCHANGED <<today, frozen, walletStore, limitStore, spent, terms, crashes>>

\* Mutant: nobody looks whether the reservation is still held.
RefundTwice(i) ==
  /\ lim[i] \in {"held", "committed"}
  /\ lim' = [lim EXCEPT ![i] = "released"]
  /\ dayUsed' = IF dayKey # madeOn[i] THEN dayUsed ELSE dayUsed - amount[i]
  /\ weekUsed' = IF weekKey # WeekOf[madeOn[i]] THEN weekUsed ELSE weekUsed - amount[i]
  /\ UNCHANGED <<dayKey, weekKey>>

\* releaseReserve: only the windows the amount was counted in get it back.
Refund(i) ==
  /\ lim[i] = "held"
  /\ lim' = [lim EXCEPT ![i] = "released"]
  /\ dayUsed' = IF dayKey # madeOn[i] THEN dayUsed
                ELSE IF dayUsed < amount[i] THEN 0 ELSE dayUsed - amount[i]
  /\ weekUsed' = IF weekKey # WeekOf[madeOn[i]] THEN weekUsed
                 ELSE IF weekUsed < amount[i] THEN 0 ELSE weekUsed - amount[i]
  /\ UNCHANGED <<dayKey, weekKey>>

UndoLimits(i) ==
  /\ At("undoLimits", i)
  /\ Refund(i)
  /\ holder' = [holder EXCEPT ![i] = "none"]
  /\ Done
  /\ UNCHANGED <<today, frozen, walletStore, pactStore, terms, crashes>>

-----------------------------------------------------------------------------
(* Commit: settleAgentSpend(gate, true), POST /api/spend/commit            *)

\* commitReserve.  A client's commit looks at the balance first, an order has
\* none to look at.
CommitLimits(i) ==
  /\ Free
  /\ lim[i] = "held"
  /\ \/ holder[i] = "order" /\ Goto("commitPact", i)
     \/ holder[i] = "client" /\ balance >= amount[i] /\ Goto("debit", i)
  /\ lim' = [lim EXCEPT ![i] = "committed"]
  /\ UNCHANGED <<dayKey, dayUsed, weekKey, weekUsed>>
  /\ UNCHANGED <<today, frozen, walletStore, pactStore, terms, holder, crashes>>

\* debitWallet
Debit(i) ==
  /\ At("debit", i)
  /\ balance >= amount[i]
  /\ balance' = balance - amount[i]
  /\ debitedOn' = [debitedOn EXCEPT ![i] = today]
  /\ Goto("commitPact", i)
  /\ UNCHANGED <<today, frozen, walletStatus, limitStore, pactStore, terms, holder, crashes>>

\* commitPactReservation, whatever the Pact's status has become.
CommitPact(i) ==
  /\ At("commitPact", i)
  /\ LET p == pactOf[i]
         s == spent[p] + amount[i]
     IN /\ spent' = [spent EXCEPT ![p] = s]
        /\ Sweep(p, s)
  /\ pac[i] = "held"
  /\ pac' = [pac EXCEPT ![i] = "spent"]
  /\ holder' = [holder EXCEPT ![i] = "none"]
  /\ Done
  /\ UNCHANGED <<today, frozen, walletStore, limitStore, terms, crashes>>

-----------------------------------------------------------------------------
(* Release: settleAgentSpend(gate, false), POST /api/spend/release         *)

\* Mutant: the Pact keeps its reservation.
ReleaseLimitsOnly(i) ==
  /\ Free
  /\ holder[i] \in {"order", "client"}
  /\ Refund(i)
  /\ holder' = [holder EXCEPT ![i] = "none"]
  /\ Done
  /\ UNCHANGED <<today, frozen, walletStore, pactStore, terms, crashes>>

ReleaseLimits(i) ==
  /\ Free
  /\ holder[i] \in {"order", "client"}
  /\ Refund(i)
  /\ Goto("releasePact", i)
  /\ UNCHANGED <<today, frozen, walletStore, pactStore, terms, holder, crashes>>

\* releasePactReservation
ReleasePact(i) ==
  /\ At("releasePact", i)
  /\ Sweep(pactOf[i], spent[pactOf[i]])
  /\ pac[i] = "held"
  /\ pac' = [pac EXCEPT ![i] = "released"]
  /\ holder' = [holder EXCEPT ![i] = "none"]
  /\ Done
  /\ UNCHANGED <<today, frozen, walletStore, limitStore, spent, terms, crashes>>

-----------------------------------------------------------------------------
(* Owners, the clock and the process                                       *)

\* approvePact, rejectPact, terminatePact
Decide(p, from, to) ==
  /\ Free
  /\ Swept(p, spent[p]) = from
  /\ pactStatus' = [pactStatus EXCEPT ![p] = to]
  /\ UNCHANGED <<today, frozen, walletStore, limitStore, pac, spent, terms, holder, handler, crashes>>

ApprovePact(p) == Decide(p, "proposed", "active")
RejectPact(p) == Decide(p, "proposed", "rejected")
TerminatePact(p) == Decide(p, "active", "terminated")

\* getPact or listPacts finds the Pact due.
ExpirePact(p) ==
  /\ Free
  /\ Swept(p, spent[p]) # pactStatus[p]
  /\ Sweep(p, spent[p])
  /\ UNCHANGED <<today, frozen, walletStore, limitStore, pac, spent, terms, holder, handler, crashes>>

SetFrozen ==
  /\ Free
  /\ frozen' = ~frozen
  /\ UNCHANGED <<today, walletStore, limitStore, pactStore, terms, holder, handler, crashes>>

SetWalletStatus ==
  /\ Free
  /\ walletStatus' = IF walletStatus = "active" THEN "suspended" ELSE "active"
  /\ UNCHANGED <<today, frozen, balance, debitedOn, limitStore, pactStore, terms, holder, handler, crashes>>

\* fundAgentWallet
Fund(a) ==
  /\ Free
  /\ balance + a <= MaxBalance
  /\ balance' = balance + a
  /\ UNCHANGED <<today, frozen, walletStatus, debitedOn, limitStore, pactStore, terms, holder, handler, crashes>>

NextDay ==
  /\ today < MaxDay
  /\ today' = today + 1
  /\ UNCHANGED <<frozen, walletStore, limitStore, pactStore, terms, holder, handler, crashes>>

\* An order forgets its reservation; a client keeps the reserveId it was sent.
\* No store gives a reservation a time to live, so what is lost stays held.
Crash ==
  /\ crashes < MaxCrashes
  /\ crashes' = crashes + 1
  /\ Done
  /\ holder' = [i \in Ids |-> IF holder[i] \in {"server", "order"} THEN "lost" ELSE holder[i]]
  /\ UNCHANGED <<today, frozen, walletStore, limitStore, pactStore, terms>>

-----------------------------------------------------------------------------
Handler(i) ==
  \/ ReservePact(i) \/ UndoLimits(i)
  \/ CommitLimits(i) \/ Debit(i) \/ CommitPact(i)
  \/ ReleaseLimits(i) \/ ReleasePact(i)

Owner(p) == ApprovePact(p) \/ RejectPact(p) \/ TerminatePact(p) \/ ExpirePact(p)

Next ==
  \/ \E i \in Ids, p \in Pacts, a \in Amounts, f \in Flows : ReserveLimits(i, p, a, f)
  \/ \E i \in Ids : Handler(i)
  \/ \E p \in Pacts : Owner(p)
  \/ \E a \in Amounts : Fund(a)
  \/ SetFrozen
  \/ SetWalletStatus
  \/ NextDay
  \/ Crash

Spec == Init /\ [][Next]_vars

-----------------------------------------------------------------------------
(* Properties                                                              *)

\* The windows count exactly the reservations made in them that were not
\* released, whatever is released or committed after a rollover, and whatever
\* crashed half way.
UsageExact ==
  /\ dayUsed = Total(GrantedOn(dayKey))
  /\ weekUsed = Total(GrantedInWeek(weekKey))

\* On no UTC day and in no week, present or past, has more been granted and
\* kept than the wallet's caps.
CapsHold ==
  \A d \in 0..MaxDay :
    /\ DailyCap > 0 => Total(GrantedOn(d)) <= DailyCap
    /\ WeeklyCap > 0 => Total(GrantedInWeek(WeekOf[d])) <= WeeklyCap

\* A Pact's budget covers what was spent under it together with everything
\* still reserved, and what it counts as spent is what was committed.
PactBudgetHolds ==
  \A p \in Pacts :
    /\ spent[p] = Total(SpentUnder(p))
    /\ PactBudget[p] > 0 => spent[p] + Total(Outstanding(p)) <= PactBudget[p]

\* The rails hold and count exactly, over every rollover, release and crash:
\* the windows, the wallet's caps on every day and week, and the Pacts' budgets.
LimitsHold == UsageExact /\ CapsHold /\ PactBudgetHolds

\* No crash leaves money that moved uncounted: a debit has used up the wallet's
\* limits, and what a Pact counts as spent was first counted by the limits and,
\* for a payment, debited.  (The other way round is possible and errs on the
\* side of the owner.)
NothingSpentUncounted ==
  \A i \in Ids :
    /\ debitedOn[i] >= 0 => lim[i] = "committed" /\ flow[i] = "pay"
    /\ pac[i] = "spent" => lim[i] = "committed"
    /\ pac[i] = "spent" /\ flow[i] = "pay" => debitedOn[i] >= 0

\* Until the process dies in the middle of a handler, the two ledgers agree on
\* every reservation whenever no handler is running: nothing is reserved, used
\* up or given back in one of them only.
LedgersAgree ==
  crashes = 0 /\ Free =>
    \A i \in Ids :
      /\ lim[i] = "held" <=> pac[i] = "held"
      /\ lim[i] = "committed" <=> pac[i] = "spent"

\* A commit that has begun goes through: once the limits are committed the
\* balance covers the debit (debitWallet does not throw) and the Pact still has
\* the reservation (no "pact reservation settlement failed"); a release likewise.
CommitsComplete ==
  \A i \in Ids :
    /\ At("debit", i) => balance >= amount[i]
    /\ at \in {"debit", "commitPact", "releasePact"} /\ job = i => pac[i] = "held"

\* A settlement goes through in both ledgers or in neither.
SettlementsAgree == LedgersAgree /\ CommitsComplete

\* A Pact that has spent its budget is closed by the commit that spent it.
BudgetClosesPact ==
  \A p \in Pacts :
    pactStatus[p] = "active" /\ PactBudget[p] > 0 => spent[p] < PactBudget[p]

\* Once its deadline has passed a Pact gets no further reservation, even by a
\* handler whose first check came before the deadline.
DeadlineRevokes ==
  [][\A i \in Ids :
       pac[i] # "held" /\ pac'[i] = "held" /\ PactDeadline[pactOf[i]] > 0
         => today < PactDeadline[pactOf[i]]]_vars

\* lib/freeze.js: the freeze is a "one-tap stop for ALL agent ops ... checked
\* before every execution": while it is on, no money leaves the wallet.  A commit
\* asks no more, so this does not hold (README, Known divergences).
FreezeStopsDebits == [][frozen => balance' >= balance]_vars
=============================================================================
