------------------------------ MODULE PaperLedger ------------------------------
(***************************************************************************)
(* One paper account: cash, positions and journal (lib/paper.js), the      *)
(* position-management sweep that protects it (lib/management.js with      *)
(* lib/position-guardian.js), and data/accounts.json.                      *)
(*                                                                         *)
(* JavaScript runs one piece of code at a time, so an action is what runs  *)
(* between two awaits.  closeTrade with no price and addToPosition await a *)
(* quote between finding the position and moving the money; openTrade with *)
(* an entry and closeTrade with a price do not wait.  A call that waited   *)
(* goes on with the account object it looked up before: `epoch` tells      *)
(* whether that object is still the account (reset replaces it).           *)
(*                                                                         *)
(* Every position is opened with one lot and a DCA add buys one more.      *)
(* Prices are whole numbers and a position carries its cost (the code's    *)
(* notional), so the rounding to cents is left out.  Which price crosses a *)
(* stop, a target or a trailing line is left open: any fresh quote may.    *)
(***************************************************************************)
EXTENDS Integers, FiniteSets

CONSTANTS
  Ids,          \* position ids (random, so never used twice)
  Prices,       \* what a quote may say
  DefaultCash,  \* DEFAULT_CASH
  AccountSizes, \* what /api/paper/account may set
  Closers,      \* closeTrade callers that leave the price to it, each one
                \* call at a time: the account's lane, the autopilot
  Arena,        \* whether the account trades in the Arena as well
  Protected,    \* whether orders carry a stop, a target or a trailing exit
  DcaMax,       \* dca.maxTrades of the orders, 0 for no DCA
  MaxEdits,     \* bound: resets and resizes explored
  MaxCrashes,   \* bound: process crashes explored
  NoId

ASSUME PriceAssumption == Prices \subseteq Nat \ {0} /\ DefaultCash \in Nat
ASSUME SizeAssumption == AccountSizes \subseteq Nat
ASSUME SwitchAssumption == Arena \in BOOLEAN /\ Protected \in BOOLEAN /\ DcaMax \in Nat
ASSUME BoundAssumption == MaxEdits \in Nat /\ MaxCrashes \in Nat
ASSUME IdAssumption == IsFiniteSet(Ids) /\ NoId \notin Ids

VARIABLES
  book,      \* the account object in memory
  disk,      \* the account in data/accounts.json
  epoch,     \* how often the account object was replaced
  used,      \* ids given out
  call,      \* call[c]: the closeTrade call closer c is waiting in
  todo,      \* positions the running sweep still has to visit
  adding,    \* the addToPosition call the sweep is waiting in
  overtaken, \* whether a position was ever closed under a call that waited
  edits, crashes

procs == <<call, todo, adding>>
vars == <<book, disk, epoch, used, procs, overtaken, edits, crashes>>

Sides == {"long", "short"}

\* A position object; it outlives its place in the positions list for as long
\* as a waiting call holds it.
Position == [side : Sides, lots : Nat, cost : Int, dcaCount : Nat]
NoPosition == [side |-> "long", lots |-> 0, cost |-> 0, dcaCount |-> 0]

Entry == [status : {"none", "open", "closed"}, lots : Nat, pnl : Int]
NoEntry == [status |-> "none", lots |-> 0, pnl |-> 0]

Books == [cash : Int, initial : Nat, positions : SUBSET Ids,
          object : [Ids -> Position], journal : [Ids -> Entry]]

\* A waiting call: the position it found, in which incarnation of the account.
Waits == [id : Ids \cup {NoId}, epoch : Nat]
NoWait == [id |-> NoId, epoch |-> 0]

TypeOK ==
  /\ book \in Books /\ disk \in Books
  /\ epoch \in Nat
  /\ used \subseteq Ids
  /\ call \in [Closers -> Waits]
  /\ todo \subseteq Ids
  /\ adding \in Waits
  /\ overtaken \in BOOLEAN
  /\ edits \in 0..MaxEdits /\ crashes \in 0..MaxCrashes

\* newAccount
FreshBook ==
  [cash |-> DefaultCash, initial |-> DefaultCash, positions |-> {},
   object |-> [i \in Ids |-> NoPosition], journal |-> [i \in Ids |-> NoEntry]]

Init ==
  /\ book = FreshBook /\ disk = FreshBook
  /\ epoch = 0
  /\ used = {}
  /\ call = [c \in Closers |-> NoWait]
  /\ todo = {} /\ adding = NoWait
  /\ overtaken = FALSE
  /\ edits = 0 /\ crashes = 0

-----------------------------------------------------------------------------
(* The ledger                                                              *)

Pnl(pos, fill) == (fill * pos.lots - pos.cost) * (IF pos.side = "long" THEN 1 ELSE -1)

\* The end of closeTrade, once the fill is known: it does not look for the
\* position again.
Settled(b, i, fill) ==
  LET pnl == Pnl(b.object[i], fill)
  IN  [b EXCEPT !.cash = @ + b.object[i].cost + pnl,
                !.positions = @ \ {i},
                !.journal[i].status = "closed",
                !.journal[i].pnl = pnl]

\* Mutant: the journal is forgotten.
AddedUnjournaled(b, i, fill) ==
  [b EXCEPT !.cash = @ - fill, !.object[i] = [b.object[i] EXCEPT !.lots = @ + 1, !.cost = @ + fill]]

\* The end of addToPosition: the same.
Added(b, i, fill) ==
  [b EXCEPT !.cash = @ - fill,
            !.object[i] = [b.object[i] EXCEPT !.lots = @ + 1, !.cost = @ + fill],
            !.journal[i].lots = b.object[i].lots + 1]

\* save: every account, as memory has it now.
Save == disk' = book'

\* Whoever closes position i closes it under the calls that wait holding it.
Wait(i) == [id |-> i, epoch |-> epoch]
Overtake(i, others) ==
  overtaken' = (overtaken \/ adding = Wait(i) \/ \E c \in others : call[c] = Wait(i))

\* openTrade with an entry, as the lane, the Arena and signal copies call it.
OpenTrade(i, side, price) ==
  /\ i \notin used
  /\ price <= book.cash
  /\ used' = used \cup {i}
  /\ book' = [book EXCEPT
       !.cash = @ - price,
       !.positions = @ \cup {i},
       !.object[i] = [side |-> side, lots |-> 1, cost |-> price, dcaCount |-> 0],
       !.journal[i] = [status |-> "open", lots |-> 1, pnl |-> 0]]
  /\ Save
  /\ UNCHANGED <<epoch, procs, overtaken, edits, crashes>>

\* closeTrade without a price, up to its await.
CloseTrade(c, i) ==
  /\ call[c] = NoWait
  /\ i \in book.positions
  /\ call' = [call EXCEPT ![c] = Wait(i)]
  /\ UNCHANGED <<book, disk, epoch, used, todo, adding, overtaken, edits, crashes>>

\* The quote, or the last observed price, is there: closeTrade ends.
CloseFill(c, fill) ==
  /\ call[c] # NoWait
  /\ book' = IF call[c].epoch = epoch THEN Settled(book, call[c].id, fill) ELSE book
  /\ Save
  /\ call' = [call EXCEPT ![c] = NoWait]
  /\ IF call[c].epoch = epoch THEN Overtake(call[c].id, Closers \ {c}) ELSE UNCHANGED overtaken
  /\ UNCHANGED <<epoch, used, todo, adding, edits, crashes>>

\* Mutant: the journal, which keeps closed trades, is searched instead of the
\* positions.
ArenaCloseAgain(i, fill) ==
  /\ Arena
  /\ book.journal[i].status # "none"
  /\ book' = Settled(book, i, fill)
  /\ Overtake(i, Closers)
  /\ Save
  /\ UNCHANGED <<epoch, used, procs, edits, crashes>>

\* closeTrade with the Arena's trusted price, outside the lane.
ArenaClose(i, fill) ==
  /\ Arena
  /\ i \in book.positions
  /\ book' = Settled(book, i, fill)
  /\ Overtake(i, Closers)
  /\ Save
  /\ UNCHANGED <<epoch, used, procs, edits, crashes>>

ResetAccount ==
  /\ edits < MaxEdits
  /\ book' = FreshBook
  /\ Save
  /\ epoch' = epoch + 1
  /\ edits' = edits + 1
  /\ UNCHANGED <<used, procs, overtaken, crashes>>

SetAccountSize(n) ==
  /\ edits < MaxEdits
  /\ book' = [book EXCEPT !.initial = n, !.cash = @ + (n - book.initial)]
  /\ Save
  /\ edits' = edits + 1
  /\ UNCHANGED <<epoch, used, procs, overtaken, crashes>>

\* markToMarket, or a save for another account, writes this one too.
SaveAll ==
  /\ disk # book
  /\ disk' = book
  /\ UNCHANGED <<book, epoch, used, procs, overtaken, edits, crashes>>

-----------------------------------------------------------------------------
(* The sweep                                                               *)

\* sweepManagement takes a copy of the list; the overlap guard keeps a second
\* sweep out.  Only a managed position makes it act.
SweepStart ==
  /\ Protected \/ DcaMax > 0
  /\ todo = {} /\ adding = NoWait
  /\ book.positions # {}
  /\ todo' = book.positions
  /\ UNCHANGED <<book, disk, epoch, used, call, adding, overtaken, edits, crashes>>

\* A quote that triggers nothing, or that the guardian refuses.
SweepPass(i) ==
  /\ adding = NoWait
  /\ i \in todo
  /\ todo' = todo \ {i}
  /\ UNCHANGED <<book, disk, epoch, used, call, adding, overtaken, edits, crashes>>

\* Mutant: the position is not looked up again.
SweepExitBlind(i, fill) ==
  /\ Protected
  /\ adding = NoWait
  /\ i \in todo
  /\ book' = Settled(book, i, fill)
  /\ Overtake(i, Closers)
  /\ Save
  /\ todo' = todo \ {i}
  /\ UNCHANGED <<epoch, used, call, adding, edits, crashes>>

\* A protective exit: closeTrade at the observed price looks the position up
\* and closes it in one go.
SweepExit(i, fill) ==
  /\ Protected
  /\ adding = NoWait
  /\ i \in todo \cap book.positions
  /\ book' = Settled(book, i, fill)
  /\ Overtake(i, Closers)
  /\ Save
  /\ todo' = todo \ {i}
  /\ UNCHANGED <<epoch, used, call, adding, edits, crashes>>

\* Mutant: one add too many.
SweepAddOneMore(i) ==
  /\ adding = NoWait
  /\ i \in todo \cap book.positions
  /\ book.object[i].dcaCount <= DcaMax
  /\ adding' = Wait(i)
  /\ todo' = todo \ {i}
  /\ UNCHANGED <<book, disk, epoch, used, call, overtaken, edits, crashes>>

\* checkDca lets an add through: addToPosition up to its await.
SweepAdd(i) ==
  /\ adding = NoWait
  /\ i \in todo \cap book.positions
  /\ book.object[i].dcaCount < DcaMax
  /\ adding' = Wait(i)
  /\ todo' = todo \ {i}
  /\ UNCHANGED <<book, disk, epoch, used, call, overtaken, edits, crashes>>

\* addToPosition ends and saves; only then does the sweep count the trade, and
\* persistAccounts, finding nothing marked dirty, does not write the count.
SweepAddFill(fill) ==
  /\ adding # NoWait
  /\ IF adding.epoch = epoch /\ fill <= book.cash
     THEN LET b == Added(book, adding.id, fill)
          IN  disk' = b /\ book' = [b EXCEPT !.object[adding.id].dcaCount = @ + 1]
     ELSE UNCHANGED <<book, disk>>
  /\ adding' = NoWait
  /\ UNCHANGED <<epoch, used, call, todo, overtaken, edits, crashes>>

-----------------------------------------------------------------------------

Crash ==
  /\ crashes < MaxCrashes
  /\ book' = disk
  /\ call' = [c \in Closers |-> NoWait]
  /\ todo' = {} /\ adding' = NoWait
  /\ crashes' = crashes + 1
  /\ UNCHANGED <<disk, epoch, used, overtaken, edits>>

Orders == \E i \in Ids, p \in Prices :
  \/ \E side \in Sides : OpenTrade(i, side, p)
  \/ ArenaClose(i, p)
Closing == \E c \in Closers :
  \/ \E i \in Ids : CloseTrade(c, i)
  \/ \E p \in Prices : CloseFill(c, p)
Owner == ResetAccount \/ \E n \in AccountSizes : SetAccountSize(n)
Sweeping ==
  \/ SweepStart
  \/ \E i \in Ids : SweepPass(i) \/ SweepAdd(i)
  \/ \E i \in Ids, p \in Prices : SweepExit(i, p)
  \/ \E p \in Prices : SweepAddFill(p)

Next == Orders \/ Closing \/ Owner \/ SaveAll \/ Sweeping \/ Crash

Spec == Init /\ [][Next]_vars

-----------------------------------------------------------------------------
(* Properties                                                              *)

\* The sum of f over S: as many units for x as f[x] says, less as many as -f[x] does.
Units(f, S) == UNION {{x} \X (1..f[x]) : x \in S}
Total(f, S) == Cardinality(Units(f, S)) - Cardinality(Units([x \in S |-> -f[x]], S))

\* What closed trades made, and what the open positions cost.
Closed(b) == {i \in Ids : b.journal[i].status = "closed"}
Made(b) == Total([i \in Ids |-> b.journal[i].pnl], Closed(b))
Tied(b) == Total([i \in Ids |-> b.object[i].cost], b.positions)

\* The cash test of execution-reconciliation.js and acceptance 6 of
\* docs/POSITION_GUARDIAN.md: the cash is the initial cash plus what closed
\* trades made minus what open positions cost.
CashIdentity == book.cash = book.initial + Made(book) - Tied(book)

\* It holds until a position is closed under a call that waits for its quote,
\* and nothing else breaks it: no reset or resize under a waiting call, no
\* refused add, no crash, no sweep that meets a position somebody closed.
CashHoldsUnlessOvertaken == ~overtaken => CashIdentity

\* Its position and journal tests: the open journal entries are the positions,
\* lot for lot, in memory and in the file a restart loads, whoever closes,
\* adds, resets or dies in between.
JournalMatches(b) ==
  \A i \in Ids :
    /\ b.journal[i].status = "open" <=> i \in b.positions
    /\ i \in b.positions => b.journal[i].lots = b.object[i].lots
JournalMatchesPositions == JournalMatches(book) /\ JournalMatches(disk)

\* No call answers before the money it moved is in the file: a restart finds
\* the cash, the positions and the journal as memory had them.
Money(b) ==
  [cash |-> b.cash, initial |-> b.initial, positions |-> b.positions, journal |-> b.journal,
   cost |-> [i \in Ids |-> b.object[i].cost]]
MoneyIsDurable == Money(disk) = Money(book)

\* Positions, journal, cash and file tell one story after every step.
BooksAgree == JournalMatchesPositions /\ MoneyIsDurable

\* A trade is closed once - its journal entry never changes afterwards, unless
\* a reset throws it away - with the same single exception.
ClosedOnceUnlessOvertaken == [][overtaken' \/ \A i \in Ids :
  book.journal[i].status = "closed" => book'.journal[i] \in {book.journal[i], NoEntry}]_vars

\* lib/management.js caps DCA by maxTrades: a position never holds more lots
\* than its first one and the adds it was given leave for.
DcaCapped == \A i \in Ids : book.object[i].lots <= 1 + DcaMax

\* While one process runs the cap holds, whatever is closed, reset or refused
\* while an add waits.
DcaCappedUntilRestart == crashes = 0 => DcaCapped
=============================================================================
