--------------------------- MODULE PaperLedgerProofs ---------------------------
(***************************************************************************)
(* Proofs about PaperLedger, for any positions, prices, closers, account   *)
(* sizes and DCA caps, and any number of resets, resizes and crashes.      *)
(***************************************************************************)
EXTENDS PaperLedger, FiniteSetTheorems, TLAPS

-----------------------------------------------------------------------------
(* What the ledger's operations make of a book                             *)

LEMMA Products == \A x, y \in Int : x * y \in Int
BY SMT

LEMMA PnlType ==
  ASSUME NEW pos \in Position, NEW fill \in Prices
  PROVE  Pnl(pos, fill) \in Int
<1>1. fill \in Int /\ pos.lots \in Int /\ pos.cost \in Int
  BY PriceAssumption DEF Position
<1>2. fill * pos.lots \in Int
  BY <1>1, Products
<1>3. fill * pos.lots - pos.cost \in Int
  BY <1>1, <1>2
<1>4. (IF pos.side = "long" THEN 1 ELSE -1) \in Int
  OBVIOUS
<1> QED
  BY <1>3, <1>4, Products DEF Pnl

\* A close takes the position out of the list and closes its journal entry,
\* whether or not it was still open.
LEMMA SettledBook ==
  ASSUME NEW b \in Books, NEW i \in Ids, NEW fill \in Prices
  PROVE  /\ Settled(b, i, fill) \in Books
         /\ Settled(b, i, fill).positions = b.positions \ {i}
         /\ Settled(b, i, fill).object = b.object
         /\ Settled(b, i, fill).initial = b.initial
         /\ Settled(b, i, fill).journal[i].status = "closed"
         /\ \A j \in Ids : j # i => Settled(b, i, fill).journal[j] = b.journal[j]
<1>1. b.object[i] \in Position /\ b.journal[i] \in Entry /\ b.cash \in Int
  BY DEF Books
<1> DEFINE p == Pnl(b.object[i], fill)
<1>2. p \in Int
  BY <1>1, PnlType
<1>3. b.object[i].cost \in Int
  BY <1>1 DEF Position
<1> HIDE DEF p
<1>4. Settled(b, i, fill) =
        [b EXCEPT !.cash = @ + b.object[i].cost + p,
                  !.positions = @ \ {i},
                  !.journal[i].status = "closed",
                  !.journal[i].pnl = p]
  BY DEF Settled, p
<1> DEFINE j == [b.journal EXCEPT ![i].status = "closed", ![i].pnl = p]
           c == b.cash + b.object[i].cost + p
<1>5. /\ j \in [Ids -> Entry]
      /\ j[i].status = "closed"
      /\ \A k \in Ids : k # i => j[k] = b.journal[k]
  BY <1>2 DEF Books, Entry
<1>6. c \in Int
  BY <1>1, <1>2, <1>3
<1>7. Settled(b, i, fill) =
        [cash |-> c, initial |-> b.initial, positions |-> b.positions \ {i},
         object |-> b.object, journal |-> j]
  BY <1>4 DEF Books
<1> HIDE DEF c, j
<1> QED
  BY <1>5, <1>6, <1>7 DEF Books

\* One more lot at price n.
LEMMA BoughtMore ==
  ASSUME NEW pos \in Position, NEW n \in Int
  PROVE  LET x == [pos EXCEPT !.lots = pos.lots + 1, !.cost = pos.cost + n]
         IN  x \in Position /\ x.lots = pos.lots + 1 /\ x.dcaCount = pos.dcaCount
<1> DEFINE x == [pos EXCEPT !.lots = pos.lots + 1, !.cost = pos.cost + n]
           p == [pos EXCEPT !.lots = pos.lots + 1]
<1>1. p \in Position
  BY DEF Position
<1>2. x = [p EXCEPT !.cost = pos.cost + n] /\ pos.cost + n \in Int
  BY DEF Position
<1>3. x.lots = pos.lots + 1 /\ x.dcaCount = pos.dcaCount
  BY DEF Position
<1> HIDE DEF p
<1>4. [p EXCEPT !.cost = pos.cost + n] \in Position
  BY <1>1, <1>2 DEF Position
<1> QED
  BY <1>2, <1>3, <1>4

\* An add changes one position and its journal entry, lot for lot.
LEMMA AddedBook ==
  ASSUME NEW b \in Books, NEW i \in Ids, NEW fill \in Prices
  PROVE  /\ Added(b, i, fill) \in Books
         /\ Added(b, i, fill).positions = b.positions
         /\ Added(b, i, fill).initial = b.initial
         /\ Added(b, i, fill).object[i].lots = b.object[i].lots + 1
         /\ Added(b, i, fill).object[i].dcaCount = b.object[i].dcaCount
         /\ Added(b, i, fill).journal[i].lots = b.object[i].lots + 1
         /\ Added(b, i, fill).journal[i].status = b.journal[i].status
         /\ \A j \in Ids : j # i => /\ Added(b, i, fill).object[j] = b.object[j]
                                    /\ Added(b, i, fill).journal[j] = b.journal[j]
<1>1. b.object[i] \in Position /\ b.journal[i] \in Entry /\ b.cash \in Int /\ fill \in Int
  BY PriceAssumption DEF Books
<1> DEFINE x == [b.object[i] EXCEPT !.lots = b.object[i].lots + 1, !.cost = b.object[i].cost + fill]
           o == [b.object EXCEPT ![i] = x]
           j == [b.journal EXCEPT ![i].lots = b.object[i].lots + 1]
           c == b.cash - fill
<1>2. x \in Position /\ x.lots = b.object[i].lots + 1 /\ x.dcaCount = b.object[i].dcaCount
  BY <1>1, BoughtMore
<1>3. Added(b, i, fill) =
        [b EXCEPT !.cash = c, !.object[i] = x, !.journal[i].lots = b.object[i].lots + 1]
  BY DEF Added
<1> HIDE DEF x, c
<1>4. /\ o \in [Ids -> Position] /\ o[i] = x
      /\ \A k \in Ids : k # i => o[k] = b.object[k]
  BY <1>2 DEF Books
<1>5. /\ j \in [Ids -> Entry]
      /\ j[i].lots = b.object[i].lots + 1 /\ j[i].status = b.journal[i].status
      /\ \A k \in Ids : k # i => j[k] = b.journal[k]
  BY <1>1 DEF Books, Position, Entry
<1>6. c \in Int
  BY <1>1 DEF c
<1>7. Added(b, i, fill) =
        [cash |-> c, initial |-> b.initial, positions |-> b.positions, object |-> o, journal |-> j]
  BY <1>3 DEF Books
<1> HIDE DEF o, j
<1> QED
  BY <1>2, <1>4, <1>5, <1>6, <1>7 DEF Books

\* The count of adds changes nothing else.
LEMMA CountedBook ==
  ASSUME NEW b \in Books, NEW i \in Ids
  PROVE  LET n == [b EXCEPT !.object[i].dcaCount = @ + 1]
         IN  /\ n \in Books
             /\ n.cash = b.cash /\ n.initial = b.initial
             /\ n.positions = b.positions /\ n.journal = b.journal
             /\ n.object[i].dcaCount = b.object[i].dcaCount + 1
             /\ \A j \in Ids : /\ n.object[j].side = b.object[j].side
                               /\ n.object[j].lots = b.object[j].lots
                               /\ n.object[j].cost = b.object[j].cost
                               /\ j # i => n.object[j] = b.object[j]
<1> DEFINE o == [b.object EXCEPT ![i].dcaCount = @ + 1]
           n == [b EXCEPT !.object[i].dcaCount = @ + 1]
<1>1. /\ o \in [Ids -> Position]
      /\ o[i].dcaCount = b.object[i].dcaCount + 1
      /\ \A j \in Ids : /\ o[j].side = b.object[j].side
                        /\ o[j].lots = b.object[j].lots
                        /\ o[j].cost = b.object[j].cost
                        /\ j # i => o[j] = b.object[j]
  BY DEF Books, Position
<1>2. n = [cash |-> b.cash, initial |-> b.initial, positions |-> b.positions,
           object |-> o, journal |-> b.journal]
  BY DEF Books
<1> HIDE DEF o, n
<1>3. /\ n \in Books
      /\ n.cash = b.cash /\ n.initial = b.initial
      /\ n.positions = b.positions /\ n.journal = b.journal
      /\ n.object = o
  BY <1>1, <1>2 DEF Books
<1> QED
  BY <1>1, <1>3 DEF n

LEMMA FreshType == FreshBook \in Books
<1>1. NoPosition \in Position /\ NoEntry \in Entry
  BY DEF NoPosition, NoEntry, Position, Entry, Sides
<1>2. [i \in Ids |-> NoPosition] \in [Ids -> Position] /\ [i \in Ids |-> NoEntry] \in [Ids -> Entry]
  BY <1>1
<1> QED
  BY <1>2, PriceAssumption DEF FreshBook, Books

-----------------------------------------------------------------------------
(* The inductive invariant                                                 *)

\* Call w waits for a quote and holds the account object in use.
Holds(w) == w # NoWait /\ w.epoch = epoch

\* A waiting call found its position in this account object or in an earlier
\* one.
WaitInv ==
  /\ \A c \in Closers : call[c] # NoWait => call[c].id \in used /\ call[c].epoch <= epoch
  /\ adding # NoWait => adding.id \in used /\ adding.epoch <= epoch

\* Ids are used once.
UsedInv ==
  /\ book.positions \subseteq used
  /\ \A i \in Ids : book.journal[i].status # "none" => i \in used

\* Until one of them is overtaken, the calls that wait find their positions.
HoldInv ==
  ~overtaken =>
    /\ \A c \in Closers : Holds(call[c]) => call[c].id \in book.positions
    /\ Holds(adding) => adding.id \in book.positions

\* Within one process the lots of a position are the first and the adds counted.
DcaInv ==
  crashes = 0 =>
    \A i \in Ids :
      /\ book.object[i].lots <= 1 + book.object[i].dcaCount
      /\ book.object[i].dcaCount <= DcaMax
      /\ Holds(adding) /\ adding.id = i => book.object[i].dcaCount < DcaMax

CallInv == TypeOK /\ WaitInv /\ UsedInv
MoneyInv == JournalMatchesPositions /\ MoneyIsDurable
IInv == CallInv /\ MoneyInv /\ HoldInv /\ DcaInv

LEMMA InitIInv == Init => IInv
<1> SUFFICES ASSUME Init PROVE IInv
  OBVIOUS
<1>1. book \in Books /\ disk \in Books
  BY FreshType DEF Init
<1>2. NoWait \in Waits
  BY DEF NoWait, Waits
<1>3. TypeOK
  <2>1. call \in [Closers -> Waits] /\ adding \in Waits
    BY <1>2 DEF Init
  <2>2. edits \in 0..MaxEdits /\ crashes \in 0..MaxCrashes /\ epoch \in Nat
    BY BoundAssumption DEF Init
  <2>3. used \subseteq Ids /\ todo \subseteq Ids /\ overtaken \in BOOLEAN
    BY DEF Init
  <2> QED
    BY <1>1, <2>1, <2>2, <2>3 DEF TypeOK
<1>4. WaitInv /\ UsedInv /\ HoldInv
  BY DEF Init, WaitInv, UsedInv, HoldInv, Holds, FreshBook, NoEntry
<1>5. MoneyInv
  <2>1. JournalMatches(FreshBook)
    BY DEF JournalMatches, FreshBook, NoEntry
  <2> QED
    BY <2>1 DEF Init, MoneyInv, JournalMatchesPositions, MoneyIsDurable
<1>6. DcaInv
  BY SwitchAssumption DEF Init, DcaInv, Holds, FreshBook, NoPosition
<1> QED
  BY <1>3, <1>4, <1>5, <1>6 DEF IInv, CallInv

\* What a step does to the account in memory: nothing, an open, a close, an add,
\* a reset, a resize, or a return to the file.
LEMMA OpenedBook ==
  ASSUME CallInv, NEW i \in Ids, NEW side \in Sides, NEW price \in Prices, OpenTrade(i, side, price)
  PROVE  /\ book' \in Books
         /\ book'.positions = book.positions \cup {i}
         /\ book'.object[i].lots = 1 /\ book'.object[i].dcaCount = 0
         /\ book'.journal[i].status = "open" /\ book'.journal[i].lots = 1
         /\ \A j \in Ids : j # i => /\ book'.object[j] = book.object[j]
                                    /\ book'.journal[j] = book.journal[j]
<1> DEFINE x == [side |-> side, lots |-> 1, cost |-> price, dcaCount |-> 0]
           e == [status |-> "open", lots |-> 1, pnl |-> 0]
<1>1. x \in Position /\ e \in Entry /\ price \in Int
  BY PriceAssumption DEF Position, Entry
<1>2. book \in Books
  BY DEF CallInv, TypeOK
<1>3. x.lots = 1 /\ x.dcaCount = 0 /\ e.status = "open" /\ e.lots = 1
  OBVIOUS
<1>4. book' = [book EXCEPT !.cash = @ - price, !.positions = @ \cup {i},
                           !.object[i] = x, !.journal[i] = e]
  BY DEF OpenTrade
<1> HIDE DEF x, e
<1>5. book' = [cash |-> book.cash - price, initial |-> book.initial,
               positions |-> book.positions \cup {i},
               object |-> [book.object EXCEPT ![i] = x],
               journal |-> [book.journal EXCEPT ![i] = e]]
  BY <1>2, <1>4 DEF Books
<1>6. /\ book.cash - price \in Int
      /\ [book.object EXCEPT ![i] = x] \in [Ids -> Position]
      /\ [book.journal EXCEPT ![i] = e] \in [Ids -> Entry]
  BY <1>1, <1>2 DEF Books
<1>7. book' \in Books
  BY <1>2, <1>5, <1>6 DEF Books
<1> QED
  BY <1>2, <1>3, <1>5, <1>7 DEF Books

LEMMA ResizedBook ==
  ASSUME CallInv, NEW n \in AccountSizes, SetAccountSize(n)
  PROVE  /\ book' \in Books
         /\ book'.positions = book.positions /\ book'.object = book.object
         /\ book'.journal = book.journal
<1>1. book \in Books /\ n \in Nat
  BY SizeAssumption DEF CallInv, TypeOK
<1> DEFINE c == book.cash + (n - book.initial)
<1>2. c \in Int
  BY <1>1 DEF Books
<1>3. book' = [book EXCEPT !.initial = n, !.cash = c]
  BY DEF SetAccountSize
<1> HIDE DEF c
<1>4. book' = [cash |-> c, initial |-> n, positions |-> book.positions,
               object |-> book.object, journal |-> book.journal]
  BY <1>1, <1>3 DEF Books
<1> QED
  BY <1>1, <1>2, <1>4 DEF Books

\* addToPosition's end, with the count.
LEMMA AddedTwice ==
  ASSUME CallInv, NEW fill \in Prices, SweepAddFill(fill), adding.epoch = epoch, fill <= book.cash
  PROVE  LET i == adding.id
         IN  /\ i \in Ids
             /\ book' \in Books /\ disk' \in Books
             /\ book'.positions = book.positions /\ disk'.positions = book.positions
             /\ book'.object[i].lots = book.object[i].lots + 1
             /\ disk'.object[i].lots = book.object[i].lots + 1
             /\ book'.object[i].dcaCount = book.object[i].dcaCount + 1
             /\ book'.journal[i].lots = book.object[i].lots + 1
             /\ book'.journal[i].status = book.journal[i].status
             /\ \A j \in Ids : j # i => /\ book'.object[j] = book.object[j]
                                        /\ disk'.object[j] = book.object[j]
                                        /\ book'.journal[j] = book.journal[j]
             /\ book'.cash = disk'.cash /\ book'.initial = disk'.initial
             /\ book'.journal = disk'.journal
             /\ \A j \in Ids : book'.object[j].cost = disk'.object[j].cost
<1> DEFINE i == adding.id
           b == Added(book, i, fill)
<1>1. i \in Ids /\ book \in Books
  BY DEF SweepAddFill, CallInv, TypeOK, WaitInv
<1>2. disk' = b /\ book' = [b EXCEPT !.object[i].dcaCount = @ + 1]
  BY DEF SweepAddFill
<1>3. /\ b \in Books
      /\ b.positions = book.positions
      /\ b.object[i].lots = book.object[i].lots + 1
      /\ b.object[i].dcaCount = book.object[i].dcaCount
      /\ b.journal[i].lots = book.object[i].lots + 1
      /\ b.journal[i].status = book.journal[i].status
      /\ \A j \in Ids : j # i => b.object[j] = book.object[j] /\ b.journal[j] = book.journal[j]
  BY <1>1, AddedBook
<1> HIDE DEF b
<1>4. /\ book' \in Books
      /\ book'.cash = b.cash /\ book'.initial = b.initial
      /\ book'.positions = b.positions /\ book'.journal = b.journal
      /\ book'.object[i].dcaCount = b.object[i].dcaCount + 1
      /\ \A j \in Ids : /\ book'.object[j].lots = b.object[j].lots
                        /\ book'.object[j].cost = b.object[j].cost
                        /\ j # i => book'.object[j] = b.object[j]
  BY <1>1, <1>2, <1>3, CountedBook
<1> QED
  BY <1>1, <1>2, <1>3, <1>4

-----------------------------------------------------------------------------
(* Types and ids                                                           *)

LEMMA NextCallInv == CallInv /\ MoneyIsDurable /\ [Next]_vars => CallInv'
<1> SUFFICES ASSUME CallInv, MoneyIsDurable, [Next]_vars PROVE CallInv'
  OBVIOUS
<1> USE DEF CallInv
<1>1. ASSUME NEW i \in Ids, NEW p \in Prices, NEW side \in Sides, OpenTrade(i, side, p)
      PROVE  CallInv'
  <2>1. book' \in Books /\ disk' = book'
    BY <1>1, OpenedBook DEF OpenTrade, Save
  <2>2. TypeOK'
    BY <1>1, <2>1 DEF OpenTrade, procs, TypeOK
  <2>3. UsedInv'
    BY <1>1, OpenedBook DEF OpenTrade, UsedInv
  <2>4. WaitInv'
    BY <1>1 DEF OpenTrade, procs, WaitInv
  <2> QED
    BY <2>2, <2>3, <2>4
<1>2. ASSUME NEW i \in Ids, NEW p \in Prices, ArenaClose(i, p) PROVE CallInv'
  <2>1. book' \in Books /\ disk' = book'
    BY <1>2, SettledBook DEF ArenaClose, Save, TypeOK
  <2>2. overtaken' \in BOOLEAN
    BY <1>2 DEF ArenaClose, Overtake
  <2>3. TypeOK'
    BY <1>2, <2>1, <2>2 DEF ArenaClose, procs, TypeOK
  <2>4. UsedInv'
    BY <1>2, SettledBook DEF ArenaClose, UsedInv, TypeOK
  <2>5. WaitInv'
    BY <1>2 DEF ArenaClose, procs, WaitInv
  <2> QED
    BY <2>3, <2>4, <2>5
<1>3. ASSUME NEW c \in Closers, NEW i \in Ids, CloseTrade(c, i) PROVE CallInv'
  <2>1. Wait(i) \in Waits
    BY DEF Wait, Waits, TypeOK
  <2>2. TypeOK'
    BY <1>3, <2>1 DEF CloseTrade, TypeOK
  <2>3. WaitInv'
    BY <1>3 DEF CloseTrade, WaitInv, UsedInv, TypeOK, Wait
  <2>4. UsedInv'
    BY <1>3 DEF CloseTrade, UsedInv
  <2> QED
    BY <2>2, <2>3, <2>4
<1>4. ASSUME NEW c \in Closers, NEW p \in Prices, CloseFill(c, p) PROVE CallInv'
  <2>1. call[c].id \in Ids /\ NoWait \in Waits
    BY <1>4 DEF CloseFill, WaitInv, TypeOK, NoWait, Waits
  <2>2. /\ book' \in Books /\ disk' = book'
        /\ UsedInv'
    <3>1. CASE call[c].epoch = epoch
      BY <1>4, <2>1, <3>1, SettledBook DEF CloseFill, Save, TypeOK, UsedInv, WaitInv
    <3>2. CASE call[c].epoch # epoch
      BY <1>4, <3>2 DEF CloseFill, Save, TypeOK, UsedInv
    <3> QED
      BY <3>1, <3>2
  <2>3. overtaken' \in BOOLEAN
    BY <1>4 DEF CloseFill, Overtake, TypeOK
  <2>4. TypeOK'
    BY <1>4, <2>1, <2>2, <2>3 DEF CloseFill, TypeOK
  <2>5. WaitInv'
    BY <1>4 DEF CloseFill, WaitInv, TypeOK
  <2> QED
    BY <2>2, <2>4, <2>5
<1>5. ASSUME ResetAccount PROVE CallInv'
  <2>1. TypeOK'
    BY <1>5, FreshType, BoundAssumption DEF ResetAccount, Save, procs, TypeOK
  <2>2. UsedInv'
    BY <1>5 DEF ResetAccount, UsedInv, FreshBook, NoEntry
  <2>3. WaitInv'
    BY <1>5 DEF ResetAccount, procs, WaitInv, TypeOK, Waits
  <2> QED
    BY <2>1, <2>2, <2>3
<1>6. ASSUME NEW n \in AccountSizes, SetAccountSize(n) PROVE CallInv'
  <2>1. TypeOK'
    <3>1. book' \in Books /\ disk' = book'
      BY <1>6, ResizedBook DEF SetAccountSize, Save
    <3>2. edits' \in 0..MaxEdits
      BY <1>6, BoundAssumption DEF SetAccountSize, TypeOK
    <3> QED
      BY <1>6, <3>1, <3>2 DEF SetAccountSize, procs, TypeOK
  <2>2. UsedInv' /\ WaitInv'
    BY <1>6, ResizedBook DEF SetAccountSize, procs, UsedInv, WaitInv
  <2> QED
    BY <2>1, <2>2
<1>7. ASSUME SaveAll PROVE CallInv'
  BY <1>7 DEF SaveAll, procs, TypeOK, WaitInv, UsedInv
<1>8. ASSUME SweepStart PROVE CallInv'
  BY <1>8 DEF SweepStart, TypeOK, WaitInv, UsedInv, Books
<1>9. ASSUME NEW i \in Ids, SweepPass(i) PROVE CallInv'
  BY <1>9 DEF SweepPass, TypeOK, WaitInv, UsedInv
<1>10. ASSUME NEW i \in Ids, NEW p \in Prices, SweepExit(i, p) PROVE CallInv'
  <2>1. book' \in Books /\ disk' = book'
    BY <1>10, SettledBook DEF SweepExit, Save, TypeOK
  <2>2. overtaken' \in BOOLEAN
    BY <1>10 DEF SweepExit, Overtake
  <2>3. TypeOK'
    BY <1>10, <2>1, <2>2 DEF SweepExit, TypeOK
  <2>4. UsedInv'
    BY <1>10, SettledBook DEF SweepExit, UsedInv, TypeOK
  <2>5. WaitInv'
    BY <1>10 DEF SweepExit, WaitInv
  <2> QED
    BY <2>3, <2>4, <2>5
<1>11. ASSUME NEW i \in Ids, SweepAdd(i) PROVE CallInv'
  <2>1. Wait(i) \in Waits
    BY DEF Wait, Waits, TypeOK
  <2>2. TypeOK'
    BY <1>11, <2>1 DEF SweepAdd, TypeOK
  <2>3. WaitInv'
    BY <1>11 DEF SweepAdd, WaitInv, UsedInv, TypeOK, Wait
  <2>4. UsedInv'
    BY <1>11 DEF SweepAdd, UsedInv
  <2> QED
    BY <2>2, <2>3, <2>4
<1>12. ASSUME NEW p \in Prices, SweepAddFill(p) PROVE CallInv'
  <2>1. NoWait \in Waits
    BY DEF NoWait, Waits
  <2>2. WaitInv'
    BY <1>12 DEF SweepAddFill, WaitInv
  <2>3. book' \in Books /\ disk' \in Books /\ UsedInv'
    <3>1. CASE adding.epoch = epoch /\ p <= book.cash
      BY <1>12, <3>1, AddedTwice DEF SweepAddFill, UsedInv
    <3>2. CASE ~(adding.epoch = epoch /\ p <= book.cash)
      BY <1>12, <3>2 DEF SweepAddFill, TypeOK, UsedInv
    <3> QED
      BY <3>1, <3>2
  <2>4. TypeOK'
    BY <1>12, <2>1, <2>3 DEF SweepAddFill, TypeOK
  <2> QED
    BY <2>2, <2>3, <2>4
<1>13. ASSUME Crash PROVE CallInv'
  <2>1. TypeOK'
    BY <1>13, BoundAssumption DEF Crash, TypeOK, NoWait, Waits
  <2>2. WaitInv'
    BY <1>13 DEF Crash, WaitInv
  <2>3. disk.positions = book.positions /\ disk.journal = book.journal
    BY DEF MoneyIsDurable, Money
  <2>4. UsedInv'
    BY <1>13, <2>3 DEF Crash, UsedInv
  <2> QED
    BY <2>1, <2>2, <2>4
<1>14. CASE UNCHANGED vars
  BY <1>14 DEF vars, procs, TypeOK, WaitInv, UsedInv
<1> QED
  BY <1>1, <1>2, <1>3, <1>4, <1>5, <1>6, <1>7, <1>8, <1>9, <1>10, <1>11, <1>12, <1>13, <1>14
     DEF Next, Orders, Closing, Owner, Sweeping

-----------------------------------------------------------------------------
(* Journal and positions, memory and file                                  *)

LEMMA SettledMatches ==
  ASSUME NEW b \in Books, NEW i \in Ids, NEW fill \in Prices, JournalMatches(b)
  PROVE  JournalMatches(Settled(b, i, fill))
BY SettledBook DEF JournalMatches

\* Every step but an add that is filled and a crash leaves memory alone or
\* writes what it made of it.
LEMMA NextMoney == CallInv /\ MoneyInv /\ [Next]_vars => MoneyInv'
<1> SUFFICES ASSUME CallInv, MoneyInv, [Next]_vars PROVE MoneyInv'
  OBVIOUS
<1>1. /\ book \in Books /\ disk \in Books
      /\ JournalMatches(book) /\ JournalMatches(disk) /\ Money(disk) = Money(book)
  BY DEF CallInv, TypeOK, MoneyInv, JournalMatchesPositions, MoneyIsDurable
<1>2. ASSUME JournalMatches(book'), disk' = book' PROVE MoneyInv'
  BY <1>2 DEF MoneyInv, JournalMatchesPositions, JournalMatches, MoneyIsDurable, Money
<1>3. ASSUME UNCHANGED <<book, disk>> PROVE MoneyInv'
  BY <1>1, <1>3 DEF MoneyInv, JournalMatchesPositions, JournalMatches, MoneyIsDurable, Money
<1>4. ASSUME NEW i \in Ids, NEW p \in Prices, NEW side \in Sides, OpenTrade(i, side, p)
      PROVE  MoneyInv'
  <2>1. JournalMatches(book')
    BY <1>1, <1>4, OpenedBook DEF JournalMatches
  <2> QED
    BY <1>2, <1>4, <2>1 DEF OpenTrade, Save
<1>5. ASSUME NEW i \in Ids, NEW p \in Prices, ArenaClose(i, p) \/ SweepExit(i, p) PROVE MoneyInv'
  <2>1. book' = Settled(book, i, p) /\ disk' = book'
    BY <1>5 DEF ArenaClose, SweepExit, Save
  <2>2. JournalMatches(book')
    BY <1>1, <2>1, SettledMatches
  <2> QED
    BY <1>2, <2>1, <2>2
<1>6. ASSUME NEW c \in Closers, NEW p \in Prices, CloseFill(c, p) PROVE MoneyInv'
  <2>1. call[c].id \in Ids /\ disk' = book'
    BY <1>6 DEF CloseFill, Save, CallInv, WaitInv, TypeOK
  <2>2. JournalMatches(book')
    <3>1. CASE call[c].epoch = epoch
      <4>1. book' = Settled(book, call[c].id, p)
        BY <1>6, <3>1 DEF CloseFill
      <4> QED
        BY <1>1, <2>1, <4>1, SettledMatches
    <3>2. CASE call[c].epoch # epoch
      <4>1. book' = book
        BY <1>6, <3>2 DEF CloseFill
      <4> QED
        BY <1>1, <4>1
    <3> QED
      BY <3>1, <3>2
  <2> QED
    BY <1>2, <2>1, <2>2
<1>7. ASSUME ResetAccount PROVE MoneyInv'
  <2>1. JournalMatches(FreshBook)
    BY DEF JournalMatches, FreshBook, NoEntry
  <2> QED
    BY <1>2, <1>7, <2>1 DEF ResetAccount, Save
<1>8. ASSUME NEW n \in AccountSizes, SetAccountSize(n) PROVE MoneyInv'
  <2>1. JournalMatches(book')
    BY <1>1, <1>8, ResizedBook DEF JournalMatches
  <2> QED
    BY <1>2, <1>8, <2>1 DEF SetAccountSize, Save
<1>9. ASSUME SaveAll PROVE MoneyInv'
  BY <1>1, <1>2, <1>9 DEF SaveAll
<1>10. ASSUME NEW p \in Prices, SweepAddFill(p) PROVE MoneyInv'
  <2>1. CASE adding.epoch = epoch /\ p <= book.cash
    <3> DEFINE i == adding.id
    <3>1. /\ i \in Ids
          /\ book'.positions = book.positions /\ disk'.positions = book.positions
          /\ book'.object[i].lots = book.object[i].lots + 1
          /\ disk'.object[i].lots = book.object[i].lots + 1
          /\ book'.journal[i].lots = book.object[i].lots + 1
          /\ book'.journal[i].status = book.journal[i].status
          /\ \A j \in Ids : j # i => /\ book'.object[j] = book.object[j]
                                     /\ disk'.object[j] = book.object[j]
                                     /\ book'.journal[j] = book.journal[j]
          /\ book'.cash = disk'.cash /\ book'.initial = disk'.initial
          /\ book'.journal = disk'.journal
          /\ \A j \in Ids : book'.object[j].cost = disk'.object[j].cost
      BY <1>10, <2>1, AddedTwice
    <3>2. JournalMatches(book') /\ JournalMatches(disk')
      BY <1>1, <3>1 DEF JournalMatches
    <3>3. Money(disk') = Money(book')
      BY <3>1 DEF Money
    <3> QED
      BY <3>2, <3>3 DEF MoneyInv, JournalMatchesPositions, JournalMatches, MoneyIsDurable, Money
  <2>2. CASE ~(adding.epoch = epoch /\ p <= book.cash)
    BY <1>3, <1>10, <2>2 DEF SweepAddFill
  <2> QED
    BY <2>1, <2>2
<1>11. ASSUME Crash PROVE MoneyInv'
  BY <1>1, <1>2, <1>11 DEF Crash
<1>12. ASSUME NEW c \in Closers, NEW i \in Ids, CloseTrade(c, i) PROVE MoneyInv'
  BY <1>3, <1>12 DEF CloseTrade
<1>13. ASSUME \/ SweepStart
              \/ \E i \in Ids : SweepPass(i) \/ SweepAdd(i)
       PROVE  MoneyInv'
  BY <1>3, <1>13 DEF SweepStart, SweepPass, SweepAdd
<1>14. CASE UNCHANGED vars
  BY <1>3, <1>14 DEF vars
<1> QED
  BY <1>4, <1>5, <1>6, <1>7, <1>8, <1>9, <1>10, <1>11, <1>12, <1>13, <1>14
     DEF Next, Orders, Closing, Owner, Sweeping

-----------------------------------------------------------------------------
(* Waiting calls and what overtakes them                                   *)

\* Only a close takes a position out of the list of the account in use, and it
\* says so to whoever waits for it.
LEMMA ClosedUnder ==
  ASSUME CallInv, HoldInv, NEW i \in Ids, NEW p \in Prices,
         book' = Settled(book, i, p), Overtake(i, Closers), UNCHANGED epoch,
         UNCHANGED call, UNCHANGED adding
  PROVE  HoldInv'
<1> SUFFICES ASSUME ~overtaken' PROVE HoldInv'
  BY DEF HoldInv
<1>1. ~overtaken /\ adding # Wait(i) /\ \A c \in Closers : call[c] # Wait(i)
  BY DEF Overtake
<1>2. book'.positions = book.positions \ {i}
  BY SettledBook DEF CallInv, TypeOK
<1>3. ASSUME NEW w \in Waits, Holds(w), w # Wait(i) PROVE w.id # i
  BY <1>3 DEF Holds, Wait, Waits
<1>4. adding \in Waits /\ \A c \in Closers : call[c] \in Waits
  BY DEF CallInv, TypeOK
<1> QED
  BY <1>1, <1>2, <1>3, <1>4 DEF HoldInv, Holds

LEMMA NextHold == CallInv /\ MoneyInv /\ HoldInv /\ [Next]_vars => HoldInv'
<1> SUFFICES ASSUME CallInv, MoneyInv, HoldInv, [Next]_vars PROVE HoldInv'
  OBVIOUS
<1>1. ASSUME book'.positions = book.positions, UNCHANGED <<epoch, call, adding, overtaken>>
      PROVE  HoldInv'
  BY <1>1 DEF HoldInv, Holds
<1>2. ASSUME NEW i \in Ids, NEW p \in Prices, NEW side \in Sides, OpenTrade(i, side, p)
      PROVE  HoldInv'
  BY <1>2, OpenedBook DEF OpenTrade, procs, HoldInv, Holds
<1>3. ASSUME NEW i \in Ids, NEW p \in Prices, ArenaClose(i, p) \/ SweepExit(i, p) PROVE HoldInv'
  BY <1>3, ClosedUnder DEF ArenaClose, SweepExit, procs
<1>4. ASSUME NEW c \in Closers, NEW i \in Ids, CloseTrade(c, i) PROVE HoldInv'
  BY <1>4 DEF CloseTrade, HoldInv, Holds, Wait, CallInv, TypeOK
<1>5. ASSUME NEW c \in Closers, NEW p \in Prices, CloseFill(c, p) PROVE HoldInv'
  <2>1. CASE call[c].epoch = epoch
    <3> DEFINE i == call[c].id
    <3> SUFFICES ASSUME ~overtaken' PROVE HoldInv'
      BY DEF HoldInv
    <3>1. /\ ~overtaken /\ adding # Wait(i) /\ \A d \in Closers \ {c} : call[d] # Wait(i)
          /\ call' = [call EXCEPT ![c] = NoWait] /\ UNCHANGED <<epoch, adding>>
      BY <1>5, <2>1 DEF CloseFill, Overtake
    <3>2. book'.positions = book.positions \ {i}
      BY <1>5, <2>1, SettledBook DEF CloseFill, CallInv, TypeOK, WaitInv
    <3>3. ASSUME NEW w \in Waits, Holds(w), w # Wait(i) PROVE w.id # i
      BY <3>3 DEF Holds, Wait, Waits
    <3>4. adding \in Waits /\ call \in [Closers -> Waits]
      BY DEF CallInv, TypeOK
    <3>5. Holds(adding)' => adding'.id \in book'.positions
      BY <3>1, <3>2, <3>3, <3>4 DEF HoldInv, Holds
    <3>6. ASSUME NEW d \in Closers, Holds(call[d])' PROVE call'[d].id \in book'.positions
      <4>1. d # c
        BY <3>1, <3>4, <3>6 DEF Holds
      <4>2. call'[d] = call[d] /\ Holds(call[d])
        BY <3>1, <3>4, <3>6, <4>1 DEF Holds
      <4> QED
        BY <3>1, <3>2, <3>3, <3>4, <4>1, <4>2 DEF HoldInv
    <3> QED
      BY <3>5, <3>6 DEF HoldInv
  <2>2. CASE call[c].epoch # epoch
    BY <1>5, <2>2 DEF CloseFill, HoldInv, Holds, CallInv, TypeOK
  <2> QED
    BY <2>1, <2>2
<1>6. ASSUME ResetAccount PROVE HoldInv'
  <2>1. UNCHANGED <<call, adding>> /\ adding \in Waits /\ \A c \in Closers : call[c] \in Waits
    BY <1>6 DEF ResetAccount, procs, CallInv, TypeOK
  <2>2. ~Holds(adding)' /\ \A c \in Closers : ~Holds(call[c])'
    BY <1>6, <2>1 DEF ResetAccount, Holds, CallInv, WaitInv, TypeOK, Waits
  <2> QED
    BY <2>2 DEF HoldInv
<1>7. ASSUME NEW n \in AccountSizes, SetAccountSize(n) PROVE HoldInv'
  BY <1>1, <1>7, ResizedBook DEF SetAccountSize, procs
<1>8. ASSUME SaveAll \/ SweepStart \/ \E i \in Ids : SweepPass(i) PROVE HoldInv'
  BY <1>1, <1>8 DEF SaveAll, SweepStart, SweepPass, procs
<1>9. ASSUME NEW i \in Ids, SweepAdd(i) PROVE HoldInv'
  BY <1>9 DEF SweepAdd, HoldInv, Holds, Wait
<1>10. ASSUME NEW p \in Prices, SweepAddFill(p) PROVE HoldInv'
  <2>1. book'.positions = book.positions
    <3>1. CASE adding.epoch = epoch /\ p <= book.cash
      BY <1>10, <3>1, AddedTwice
    <3>2. CASE ~(adding.epoch = epoch /\ p <= book.cash)
      BY <1>10, <3>2 DEF SweepAddFill
    <3> QED
      BY <3>1, <3>2
  <2> QED
    BY <1>10, <2>1 DEF SweepAddFill, HoldInv, Holds
<1>11. ASSUME Crash PROVE HoldInv'
  BY <1>11 DEF Crash, HoldInv, Holds
<1>12. CASE UNCHANGED vars
  BY <1>1, <1>12 DEF vars, procs
<1> QED
  BY <1>2, <1>3, <1>4, <1>5, <1>6, <1>7, <1>8, <1>9, <1>10, <1>11, <1>12
     DEF Next, Orders, Closing, Owner, Sweeping

-----------------------------------------------------------------------------
(* The count of adds                                                       *)

LEMMA NextDca == CallInv /\ DcaInv /\ [Next]_vars => DcaInv'
<1> SUFFICES ASSUME CallInv, DcaInv, [Next]_vars PROVE DcaInv'
  OBVIOUS
<1>1. ASSUME book'.object = book.object, UNCHANGED <<epoch, adding, crashes>> PROVE DcaInv'
  BY <1>1 DEF DcaInv, Holds
<1>2. ASSUME NEW i \in Ids, NEW p \in Prices, NEW side \in Sides, OpenTrade(i, side, p)
      PROVE  DcaInv'
  <2>1. ~(Holds(adding) /\ adding.id = i)
    BY <1>2 DEF OpenTrade, Holds, CallInv, WaitInv
  <2>2. /\ book'.object[i].lots = 1 /\ book'.object[i].dcaCount = 0
        /\ \A j \in Ids : j # i => book'.object[j] = book.object[j]
    BY <1>2, OpenedBook
  <2> QED
    BY <1>2, <2>1, <2>2, SwitchAssumption DEF OpenTrade, procs, DcaInv, Holds
<1>3. ASSUME NEW i \in Ids, NEW p \in Prices, ArenaClose(i, p) \/ SweepExit(i, p) PROVE DcaInv'
  BY <1>1, <1>3, SettledBook DEF ArenaClose, SweepExit, procs, CallInv, TypeOK
<1>4. ASSUME NEW c \in Closers, NEW p \in Prices, CloseFill(c, p) PROVE DcaInv'
  <2>1. call[c].id \in Ids /\ book \in Books
    BY <1>4 DEF CloseFill, CallInv, WaitInv, TypeOK
  <2>2. book'.object = book.object
    BY <1>4, <2>1, SettledBook DEF CloseFill
  <2> QED
    BY <1>1, <1>4, <2>2 DEF CloseFill
<1>5. ASSUME ResetAccount PROVE DcaInv'
  <2>1. ~Holds(adding)'
    BY <1>5 DEF ResetAccount, procs, Holds, CallInv, WaitInv, TypeOK, Waits
  <2>2. \A i \in Ids : book'.object[i].lots = 0 /\ book'.object[i].dcaCount = 0
    BY <1>5 DEF ResetAccount, FreshBook, NoPosition
  <2> QED
    BY <2>1, <2>2, SwitchAssumption DEF DcaInv
<1>6. ASSUME NEW n \in AccountSizes, SetAccountSize(n) PROVE DcaInv'
  BY <1>1, <1>6, ResizedBook DEF SetAccountSize, procs
<1>7. ASSUME NEW i \in Ids, SweepAdd(i) PROVE DcaInv'
  BY <1>7 DEF SweepAdd, DcaInv, Holds, Wait
<1>8. ASSUME NEW p \in Prices, SweepAddFill(p) PROVE DcaInv'
  <2>1. adding' = NoWait /\ adding # NoWait /\ UNCHANGED <<epoch, crashes>>
    BY <1>8 DEF SweepAddFill
  <2>2. CASE adding.epoch = epoch /\ p <= book.cash
    <3> DEFINE i == adding.id
    <3>1. /\ i \in Ids
          /\ book'.object[i].lots = book.object[i].lots + 1
          /\ book'.object[i].dcaCount = book.object[i].dcaCount + 1
          /\ \A j \in Ids : j # i => book'.object[j] = book.object[j]
      BY <1>8, <2>2, AddedTwice
    <3>2. \A j \in Ids : book.object[j].lots \in Nat /\ book.object[j].dcaCount \in Nat
      BY DEF CallInv, TypeOK, Books, Position
    <3> SUFFICES ASSUME crashes' = 0, NEW j \in Ids
                 PROVE  /\ book'.object[j].lots <= 1 + book'.object[j].dcaCount
                        /\ book'.object[j].dcaCount <= DcaMax
      BY <2>1 DEF DcaInv, Holds
    <3>3. /\ book.object[j].lots <= 1 + book.object[j].dcaCount
          /\ book.object[j].dcaCount <= DcaMax
          /\ j = i => book.object[j].dcaCount < DcaMax
      BY <2>1, <2>2 DEF DcaInv, Holds
    <3> QED
      BY <3>1, <3>2, <3>3, SwitchAssumption
  <2>3. CASE ~(adding.epoch = epoch /\ p <= book.cash)
    BY <1>8, <2>1, <2>3 DEF SweepAddFill, DcaInv, Holds
  <2> QED
    BY <2>2, <2>3
<1>9. ASSUME Crash PROVE DcaInv'
  BY <1>9 DEF Crash, DcaInv, CallInv, TypeOK
<1>10. ASSUME \/ SaveAll \/ SweepStart
              \/ \E i \in Ids : SweepPass(i) \/ \E c \in Closers : CloseTrade(c, i)
       PROVE  DcaInv'
  BY <1>1, <1>10 DEF SaveAll, SweepStart, SweepPass, CloseTrade, procs
<1>11. CASE UNCHANGED vars
  BY <1>1, <1>11 DEF vars, procs
<1> QED
  BY <1>2, <1>3, <1>4, <1>5, <1>6, <1>7, <1>8, <1>9, <1>10, <1>11
     DEF Next, Orders, Closing, Owner, Sweeping

-----------------------------------------------------------------------------
(* The cash                                                                *)

\* As many units as a number says, none if it is negative.
LEMMA UnitsOfOne ==
  ASSUME NEW f, NEW x, f[x] \in Int
  PROVE  /\ IsFiniteSet({x} \X (1..f[x]))
         /\ Cardinality({x} \X (1..f[x])) = IF f[x] > 0 THEN f[x] ELSE 0
<1> DEFINE n == f[x]
<1>1. IsFiniteSet(1..n) /\ Cardinality(1..n) = IF 1 > n THEN 0 ELSE n - 1 + 1
  BY FS_Interval
<1>2. IsFiniteSet({x}) /\ Cardinality({x}) = 1
  BY FS_Singleton
<1>3. IsFiniteSet({x} \X (1..n)) /\ Cardinality({x} \X (1..n)) = 1 * Cardinality(1..n)
  BY <1>1, <1>2, FS_Product
<1>4. Cardinality(1..n) = IF n > 0 THEN n ELSE 0
  <2> HIDE DEF n
  <2> QED
    BY <1>1 DEF n
<1>5. Cardinality(1..n) \in Nat
  BY <1>1, FS_CardinalityType
<1> QED
  BY <1>3, <1>4, <1>5

LEMMA UnitsFinite ==
  ASSUME NEW f, NEW S, IsFiniteSet(S), \A x \in S : f[x] \in Int
  PROVE  IsFiniteSet(Units(f, S)) /\ Cardinality(Units(f, S)) \in Nat
<1> DEFINE U == {{x} \X (1..f[x]) : x \in S}
           g == [x \in S |-> {x} \X (1..f[x])]
<1>1. g \in Surjection(S, U)
  BY DEF Surjection
<1>2. IsFiniteSet(U)
  BY <1>1, FS_Surjection, Zenon
<1>3. \A T \in U : IsFiniteSet(T)
  BY UnitsOfOne
<1>4. IsFiniteSet(UNION U)
  <2> HIDE DEF U
  <2> QED
    BY <1>2, <1>3, FS_UNION
<1> QED
  BY <1>4, FS_CardinalityType DEF Units

LEMMA UnitsOfMore ==
  ASSUME NEW f, NEW S, IsFiniteSet(S), \A y \in S : f[y] \in Int,
         NEW x, x \notin S, f[x] \in Int
  PROVE  Cardinality(Units(f, S \cup {x})) = Cardinality(Units(f, S)) + IF f[x] > 0 THEN f[x] ELSE 0
<1> DEFINE A == Units(f, S)
           B == {x} \X (1..f[x])
<1>1. Units(f, S \cup {x}) = A \cup B
  BY DEF Units
<1>2. A \cap B = {}
  BY DEF Units
<1>3. IsFiniteSet(A) /\ Cardinality(A) \in Nat
  BY UnitsFinite
<1>4. IsFiniteSet(B) /\ Cardinality(B) = IF f[x] > 0 THEN f[x] ELSE 0
  BY UnitsOfOne
<1>5. Cardinality(A \cap B) = 0
  BY <1>2, FS_EmptySet
<1>6. Cardinality(A \cup B) = Cardinality(A) + Cardinality(B) - Cardinality(A \cap B)
  BY <1>3, <1>4, FS_Union, Zenon
<1> HIDE DEF A, B
<1>7. Cardinality(A \cup B) = Cardinality(A) + IF f[x] > 0 THEN f[x] ELSE 0
  BY <1>3, <1>4, <1>5, <1>6
<1> QED
  BY <1>1, <1>7 DEF A

\* Only the terms that are summed matter.
LEMMA TotalOfSame ==
  ASSUME NEW f, NEW g, NEW S, \A x \in S : f[x] = g[x]
  PROVE  Total(f, S) = Total(g, S)
<1>1. Units(f, S) = Units(g, S)
  BY DEF Units
<1>2. Units([x \in S |-> -f[x]], S) = Units([x \in S |-> -g[x]], S)
  BY DEF Units
<1> QED
  BY <1>1, <1>2 DEF Total

LEMMA TotalIsInteger ==
  ASSUME NEW f, NEW S, IsFiniteSet(S), \A x \in S : f[x] \in Int
  PROVE  Total(f, S) \in Int
<1>1. Cardinality(Units(f, S)) \in Nat
  BY UnitsFinite
<1> DEFINE g == [x \in S |-> -f[x]]
<1>2. \A x \in S : g[x] \in Int
  OBVIOUS
<1> HIDE DEF g
<1>3. Cardinality(Units(g, S)) \in Nat
  BY <1>2, UnitsFinite
<1> QED
  BY <1>1, <1>3 DEF Total, g

\* A term more, or one less.
LEMMA TotalOfMore ==
  ASSUME NEW f, NEW S, IsFiniteSet(S), \A y \in S : f[y] \in Int,
         NEW x, x \notin S, f[x] \in Int
  PROVE  Total(f, S \cup {x}) = Total(f, S) + f[x]
<1> DEFINE T == S \cup {x}
           g == [y \in T |-> -f[y]]
           h == [y \in S |-> -f[y]]
<1>1. g[x] = -f[x] /\ \A y \in S : g[y] = -f[y] /\ g[y] \in Int /\ h[y] = g[y]
  OBVIOUS
<1> HIDE DEF g, h
<1>2. Cardinality(Units(f, T)) = Cardinality(Units(f, S)) + IF f[x] > 0 THEN f[x] ELSE 0
  BY UnitsOfMore
<1>3. Cardinality(Units(g, T)) = Cardinality(Units(g, S)) + IF g[x] > 0 THEN g[x] ELSE 0
  <2>1. g[x] \in Int
    BY <1>1
  <2> QED
    BY <1>1, <2>1, UnitsOfMore
<1>4. Units(h, S) = Units(g, S)
  BY <1>1 DEF Units
<1>5. Cardinality(Units(f, S)) \in Nat /\ Cardinality(Units(g, S)) \in Nat
  BY <1>1, UnitsFinite
<1>6. Total(f, T) = Cardinality(Units(f, T)) - Cardinality(Units(g, T))
  BY DEF Total, g
<1>7. Total(f, S) = Cardinality(Units(f, S)) - Cardinality(Units(h, S))
  BY DEF Total, h
<1> HIDE DEF T
<1>8. Total(f, T) = Total(f, S) + f[x]
  BY <1>1, <1>2, <1>3, <1>4, <1>5, <1>6, <1>7
<1> QED
  BY <1>8 DEF T

\* What of a book the identity is about.
CashIs(b) == b.cash = b.initial + Made(b) - Tied(b)

LEMMA SumsOfBook ==
  ASSUME NEW b \in Books
  PROVE  /\ Made(b) \in Int /\ Tied(b) \in Int
         /\ IsFiniteSet(Closed(b)) /\ IsFiniteSet(b.positions)
         /\ \A i \in Ids : b.journal[i].pnl \in Int /\ b.object[i].cost \in Int
<1>1. Closed(b) \subseteq Ids /\ b.positions \subseteq Ids
  BY DEF Closed, Books
<1>2. IsFiniteSet(Closed(b)) /\ IsFiniteSet(b.positions)
  BY <1>1, IdAssumption, FS_Subset
<1>3. \A i \in Ids : b.journal[i].pnl \in Int /\ b.object[i].cost \in Int
  BY DEF Books, Entry, Position
<1>4. Made(b) \in Int
  <2> DEFINE f == [i \in Ids |-> b.journal[i].pnl]
  <2>1. \A x \in Closed(b) : f[x] \in Int
    BY <1>1, <1>3
  <2> HIDE DEF f
  <2> QED
    BY <1>2, <2>1, TotalIsInteger DEF Made, f
<1>5. Tied(b) \in Int
  <2> DEFINE f == [i \in Ids |-> b.object[i].cost]
  <2>1. \A x \in b.positions : f[x] \in Int
    BY <1>1, <1>3
  <2> HIDE DEF f
  <2> QED
    BY <1>2, <2>1, TotalIsInteger DEF Tied, f
<1> QED
  BY <1>2, <1>3, <1>4, <1>5

\* Books that agree on a sum's terms have the same sum.
LEMMA MadeSame ==
  ASSUME NEW b, NEW d, Closed(b) = Closed(d),
         \A i \in Ids : i \in Closed(b) => b.journal[i].pnl = d.journal[i].pnl
  PROVE  Made(b) = Made(d)
<1> DEFINE f == [i \in Ids |-> b.journal[i].pnl]
           g == [i \in Ids |-> d.journal[i].pnl]
<1>1. \A x \in Closed(b) : f[x] = g[x]
  BY DEF Closed
<1> HIDE DEF f, g
<1>2. Total(f, Closed(b)) = Total(g, Closed(b))
  BY <1>1, TotalOfSame
<1> QED
  BY <1>2 DEF Made, f, g

LEMMA TiedSame ==
  ASSUME NEW b, NEW d, b.positions = d.positions, b.positions \subseteq Ids,
         \A i \in b.positions : b.object[i].cost = d.object[i].cost
  PROVE  Tied(b) = Tied(d)
<1> DEFINE f == [i \in Ids |-> b.object[i].cost]
           g == [i \in Ids |-> d.object[i].cost]
<1>1. \A x \in b.positions : f[x] = g[x]
  OBVIOUS
<1> HIDE DEF f, g
<1>2. Total(f, b.positions) = Total(g, b.positions)
  BY <1>1, TotalOfSame
<1> QED
  BY <1>2 DEF Tied, f, g

\* A trade more is closed.
LEMMA MadeMore ==
  ASSUME NEW b \in Books, NEW d \in Books, NEW i \in Ids,
         b.journal[i].status # "closed", d.journal[i].status = "closed",
         \A j \in Ids : j # i => d.journal[j] = b.journal[j]
  PROVE  Made(d) = Made(b) + d.journal[i].pnl
<1> DEFINE f == [j \in Ids |-> b.journal[j].pnl]
           g == [j \in Ids |-> d.journal[j].pnl]
           S == Closed(b)
<1>1. Closed(d) = S \cup {i} /\ i \notin S
  BY DEF Closed
<1>2. /\ \A x \in S : f[x] = g[x] /\ g[x] \in Int
      /\ g[i] = d.journal[i].pnl /\ g[i] \in Int
  <2>1. \A j \in Ids : d.journal[j].pnl \in Int
    BY SumsOfBook
  <2> QED
    BY <1>1, <2>1 DEF Closed
<1>3. IsFiniteSet(S)
  BY SumsOfBook
<1> HIDE DEF f, g, S
<1>4. Total(g, S \cup {i}) = Total(g, S) + g[i]
  BY <1>1, <1>2, <1>3, TotalOfMore
<1>5. Total(f, S) = Total(g, S)
  BY <1>2, TotalOfSame
<1> QED
  BY <1>1, <1>2, <1>4, <1>5 DEF Made, f, g, S

\* A position more is open.
LEMMA TiedMore ==
  ASSUME NEW b \in Books, NEW d \in Books, NEW i \in Ids,
         i \notin b.positions, d.positions = b.positions \cup {i},
         \A j \in b.positions : d.object[j].cost = b.object[j].cost
  PROVE  Tied(d) = Tied(b) + d.object[i].cost
<1> DEFINE f == [j \in Ids |-> b.object[j].cost]
           g == [j \in Ids |-> d.object[j].cost]
           S == b.positions
<1>1. S \subseteq Ids /\ IsFiniteSet(S) /\ \A j \in Ids : d.object[j].cost \in Int
  BY SumsOfBook DEF Books
<1>2. /\ \A x \in S : f[x] = g[x] /\ g[x] \in Int
      /\ g[i] = d.object[i].cost /\ g[i] \in Int
  BY <1>1
<1>3. i \notin S
  OBVIOUS
<1> HIDE DEF f, g
<1>4. Total(g, S \cup {i}) = Total(g, S) + g[i]
  BY <1>1, <1>2, <1>3, TotalOfMore
<1>5. Total(f, S) = Total(g, S)
  BY <1>2, TotalOfSame
<1> QED
  BY <1>2, <1>4, <1>5 DEF Tied, f, g

\* A close returns to the cash what the position cost and what it made.
LEMMA SettledCash ==
  ASSUME NEW b \in Books, JournalMatches(b), CashIs(b), NEW i \in b.positions, NEW fill \in Prices
  PROVE  CashIs(Settled(b, i, fill))
<1> DEFINE n == Settled(b, i, fill)
           p == Pnl(b.object[i], fill)
<1>1. i \in Ids /\ b.journal[i].status = "open"
  BY DEF Books, JournalMatches
<1>2. p \in Int /\ b.object[i].cost \in Int /\ b.cash \in Int /\ b.initial \in Int
  <2>1. b.object[i] \in Position /\ b.cash \in Int /\ b.initial \in Int
    BY <1>1 DEF Books
  <2>2. p \in Int
    BY <2>1, PnlType
  <2>3. b.object[i].cost \in Int
    BY <2>1 DEF Position
  <2> QED
    BY <2>1, <2>2, <2>3
<1>3. n.cash = b.cash + b.object[i].cost + p /\ n.journal[i].pnl = p
  BY <1>1 DEF Settled, Books, Entry
<1>4. /\ n \in Books /\ n.positions = b.positions \ {i} /\ n.object = b.object
      /\ n.initial = b.initial /\ n.journal[i].status = "closed"
      /\ \A j \in Ids : j # i => n.journal[j] = b.journal[j]
  BY <1>1, SettledBook
<1> HIDE DEF n, p
<1>5. Made(n) = Made(b) + p
  BY <1>1, <1>3, <1>4, MadeMore
<1>6. Tied(b) = Tied(n) + b.object[i].cost
  <2>1. i \notin n.positions /\ b.positions = n.positions \cup {i}
    BY <1>4
  <2> QED
    BY <1>1, <1>4, <2>1, TiedMore
<1>7. Made(b) \in Int /\ Tied(n) \in Int /\ Tied(b) \in Int /\ Made(n) \in Int
  BY <1>4, SumsOfBook
<1>8. CashIs(n)
  BY <1>2, <1>3, <1>4, <1>5, <1>6, <1>7 DEF CashIs
<1> QED
  BY <1>8 DEF n

\* An add to an open position ties up what it pays.
LEMMA AddedCash ==
  ASSUME NEW b \in Books, JournalMatches(b), CashIs(b), NEW i \in b.positions, NEW fill \in Prices
  PROVE  CashIs(Added(b, i, fill))
<1> DEFINE n == Added(b, i, fill)
           without == [b EXCEPT !.positions = @ \ {i}]
<1>1. i \in Ids /\ b.journal[i].status = "open"
  BY DEF Books, JournalMatches
<1>2. fill \in Int /\ b.object[i].cost \in Int /\ b.cash \in Int /\ b.initial \in Int
  BY <1>1, PriceAssumption DEF Books, Position
<1>3. n.cash = b.cash - fill /\ n.object[i].cost = b.object[i].cost + fill
  <2>1. b.object[i] \in Position
    BY <1>1 DEF Books
  <2> QED
    BY <1>1, <2>1 DEF Added, Books, Position
<1>4. /\ n \in Books /\ n.positions = b.positions /\ n.initial = b.initial
      /\ n.journal[i].status = b.journal[i].status
      /\ \A j \in Ids : j # i => n.journal[j] = b.journal[j] /\ n.object[j] = b.object[j]
  BY <1>1, AddedBook
<1>5. /\ without \in Books /\ without.positions = b.positions \ {i} /\ without.object = b.object
  BY DEF Books
<1> HIDE DEF n, without
<1>6. Made(n) = Made(b)
  <2>1. Closed(n) = Closed(b) /\ \A j \in Ids : j \in Closed(n) => n.journal[j].pnl = b.journal[j].pnl
    BY <1>1, <1>4 DEF Closed
  <2> QED
    BY <2>1, MadeSame
<1>7. Tied(b) = Tied(without) + b.object[i].cost /\ Tied(n) = Tied(without) + n.object[i].cost
  <2>1. /\ i \notin without.positions /\ without.positions \subseteq Ids
        /\ b.positions = without.positions \cup {i} /\ n.positions = without.positions \cup {i}
        /\ \A j \in without.positions : /\ b.object[j].cost = without.object[j].cost
                                        /\ n.object[j].cost = without.object[j].cost
    BY <1>4, <1>5 DEF Books
  <2>2. Tied(b) = Tied(without) + b.object[i].cost
    BY <1>1, <1>5, <2>1, TiedMore
  <2>3. Tied(n) = Tied(without) + n.object[i].cost
    BY <1>1, <1>4, <1>5, <2>1, TiedMore
  <2> QED
    BY <2>2, <2>3
<1>8. Made(b) \in Int /\ Tied(b) \in Int /\ Tied(without) \in Int /\ Tied(n) \in Int
  BY <1>4, <1>5, SumsOfBook
<1>9. CashIs(n)
  BY <1>2, <1>3, <1>4, <1>6, <1>7, <1>8 DEF CashIs
<1> QED
  BY <1>9 DEF n

\* Until a call is overtaken, the cash is what it should be.
CashInv == ~overtaken => CashIs(book)

LEMMA FreshCash == CashIs(FreshBook)
<1>1. Closed(FreshBook) = {} /\ FreshBook.positions = {}
  BY DEF Closed, FreshBook, NoEntry
<1>2. \A f : Total(f, {}) = 0
  <2> SUFFICES ASSUME NEW f PROVE Total(f, {}) = 0
    OBVIOUS
  <2>1. \A g : Units(g, {}) = {}
    BY DEF Units
  <2>2. Cardinality({}) = 0
    BY FS_EmptySet
  <2>3. Total(f, {}) = 0 - 0
    BY <2>1, <2>2 DEF Total
  <2> QED
    BY <2>3
<1>3. Made(FreshBook) = 0 /\ Tied(FreshBook) = 0
  BY <1>1, <1>2 DEF Made, Tied
<1> QED
  BY <1>3, PriceAssumption DEF CashIs, FreshBook

LEMMA NextCash == IInv /\ CashInv /\ [Next]_vars => CashInv'
<1> SUFFICES ASSUME IInv, CashInv, [Next]_vars, ~overtaken' PROVE CashIs(book')
  BY DEF CashInv
<1>0. /\ CallInv /\ book \in Books /\ JournalMatches(book) /\ book.positions \subseteq Ids
      /\ \A w : Holds(w) /\ ~overtaken /\ (w = adding \/ \E c \in Closers : w = call[c]) =>
             w.id \in book.positions
  BY DEF IInv, CallInv, TypeOK, MoneyInv, JournalMatchesPositions, HoldInv, Books
<1>1. ASSUME UNCHANGED <<book, overtaken>> PROVE CashIs(book')
  BY <1>1 DEF CashInv
<1>2. ASSUME NEW i \in Ids, NEW p \in Prices, NEW side \in Sides, OpenTrade(i, side, p)
      PROVE  CashIs(book')
  <2>1. /\ book' \in Books /\ book'.positions = book.positions \cup {i}
        /\ book'.journal[i].status = "open"
        /\ \A j \in Ids : j # i => /\ book'.object[j] = book.object[j]
                                   /\ book'.journal[j] = book.journal[j]
    BY <1>0, <1>2, OpenedBook
  <2>2. i \notin book.positions /\ book.journal[i].status # "closed" /\ CashIs(book)
    BY <1>2 DEF OpenTrade, IInv, CallInv, UsedInv, CashInv
  <2>3. book'.cash = book.cash - p /\ book'.initial = book.initial /\ book'.object[i].cost = p
    BY <1>0, <1>2 DEF OpenTrade, Books
  <2>4. p \in Int /\ book.cash \in Int /\ book.initial \in Int
    BY <1>0, PriceAssumption DEF Books
  <2>5. Made(book') = Made(book)
    <3>1. Closed(book') = Closed(book)
          /\ \A j \in Ids : j \in Closed(book') => book'.journal[j].pnl = book.journal[j].pnl
      BY <2>1, <2>2 DEF Closed
    <3> QED
      BY <3>1, MadeSame
  <2>6. Tied(book') = Tied(book) + p
    <3>1. \A j \in book.positions : book'.object[j].cost = book.object[j].cost
      BY <1>0, <2>1, <2>2
    <3> QED
      BY <1>0, <2>1, <2>2, <2>3, <3>1, TiedMore
  <2>7. Made(book) \in Int /\ Tied(book) \in Int
    BY <1>0, SumsOfBook
  <2> QED
    BY <2>2, <2>3, <2>4, <2>5, <2>6, <2>7 DEF CashIs
<1>3. ASSUME NEW i \in Ids, NEW p \in Prices, ArenaClose(i, p) \/ SweepExit(i, p)
      PROVE  CashIs(book')
  <2>1. i \in book.positions /\ book' = Settled(book, i, p) /\ ~overtaken
    BY <1>3 DEF ArenaClose, SweepExit, Overtake
  <2> QED
    BY <1>0, <2>1, SettledCash DEF CashInv
<1>4. ASSUME NEW c \in Closers, NEW p \in Prices, CloseFill(c, p) PROVE CashIs(book')
  <2>1. CASE call[c].epoch = epoch
    <3>1. ~overtaken /\ book' = Settled(book, call[c].id, p)
      BY <1>4, <2>1 DEF CloseFill, Overtake
    <3>2. call[c].id \in book.positions
      BY <1>0, <1>4, <2>1, <3>1 DEF CloseFill, Holds
    <3> QED
      BY <1>0, <3>1, <3>2, SettledCash DEF CashInv
  <2>2. CASE call[c].epoch # epoch
    BY <1>1, <1>4, <2>2 DEF CloseFill
  <2> QED
    BY <2>1, <2>2
<1>5. ASSUME ResetAccount PROVE CashIs(book')
  <2>1. book' = FreshBook
    BY <1>5 DEF ResetAccount
  <2>2. CashIs(FreshBook)
    BY FreshCash
  <2> QED
    BY <2>1, <2>2
<1>6. ASSUME NEW n \in AccountSizes, SetAccountSize(n) PROVE CashIs(book')
  <2>1. /\ book'.positions = book.positions /\ book'.object = book.object
        /\ book'.journal = book.journal
    BY <1>0, <1>6, ResizedBook
  <2>2. book'.initial = n /\ book'.cash = book.cash + (n - book.initial) /\ ~overtaken
    BY <1>0, <1>6 DEF SetAccountSize, Books
  <2>3. n \in Int /\ book.cash \in Int /\ book.initial \in Int
    BY <1>0, SizeAssumption DEF Books
  <2>4. Made(book') = Made(book) /\ Tied(book') = Tied(book)
    BY <2>1 DEF Made, Tied, Closed
  <2>5. Made(book) \in Int /\ Tied(book) \in Int
    BY <1>0, SumsOfBook
  <2> QED
    BY <2>2, <2>3, <2>4, <2>5 DEF CashInv, CashIs
<1>7. ASSUME NEW p \in Prices, SweepAddFill(p) PROVE CashIs(book')
  <2>1. CASE adding.epoch = epoch /\ p <= book.cash
    <3> DEFINE i == adding.id
               b == Added(book, i, p)
    <3>1. ~overtaken /\ i \in book.positions /\ i \in Ids
      BY <1>0, <1>7, <2>1 DEF SweepAddFill, Holds
    <3>2. b \in Books /\ CashIs(b)
      BY <1>0, <3>1, AddedBook, AddedCash DEF CashInv
    <3>3. book' = [b EXCEPT !.object[i].dcaCount = @ + 1]
      BY <1>7, <2>1 DEF SweepAddFill
    <3> HIDE DEF b
    <3>4. /\ book'.cash = b.cash /\ book'.initial = b.initial
          /\ book'.positions = b.positions /\ book'.journal = b.journal
          /\ \A j \in Ids : book'.object[j].cost = b.object[j].cost
      BY <3>1, <3>2, <3>3, CountedBook
    <3>5. Made(book') = Made(b)
      BY <3>4 DEF Made, Closed
    <3>6. Tied(book') = Tied(b)
      <4>1. b.positions \subseteq Ids
        BY <3>2 DEF Books
      <4> QED
        BY <3>4, <4>1, TiedSame
    <3> QED
      BY <3>2, <3>4, <3>5, <3>6 DEF CashIs
  <2>2. CASE ~(adding.epoch = epoch /\ p <= book.cash)
    BY <1>1, <1>7, <2>2 DEF SweepAddFill
  <2> QED
    BY <2>1, <2>2
<1>8. ASSUME Crash PROVE CashIs(book')
  <2>1. book' = disk /\ ~overtaken
    BY <1>8 DEF Crash
  <2>2. /\ disk.cash = book.cash /\ disk.initial = book.initial /\ disk.positions = book.positions
        /\ disk.journal = book.journal /\ \A i \in Ids : disk.object[i].cost = book.object[i].cost
    <3>1. Money(disk) = Money(book)
      BY DEF IInv, MoneyInv, MoneyIsDurable
    <3>2. \A b : Money(b).cost = [i \in Ids |-> b.object[i].cost]
      BY DEF Money
    <3>3. \A i \in Ids : disk.object[i].cost = Money(disk).cost[i] /\ book.object[i].cost = Money(book).cost[i]
      BY <3>2
    <3> QED
      BY <3>1, <3>3 DEF Money
  <2>3. Made(disk) = Made(book)
    BY <2>2 DEF Made, Closed
  <2>4. Tied(disk) = Tied(book)
    BY <1>0, <2>2, TiedSame
  <2> QED
    BY <2>1, <2>2, <2>3, <2>4 DEF CashInv, CashIs
<1>9. ASSUME \/ SaveAll \/ SweepStart \/ UNCHANGED vars
             \/ \E i \in Ids : SweepPass(i) \/ SweepAdd(i) \/ \E c \in Closers : CloseTrade(c, i)
      PROVE  CashIs(book')
  BY <1>1, <1>9 DEF SaveAll, SweepStart, SweepPass, SweepAdd, CloseTrade, vars
<1> QED
  BY <1>2, <1>3, <1>4, <1>5, <1>6, <1>7, <1>8, <1>9 DEF Next, Orders, Closing, Owner, Sweeping

-----------------------------------------------------------------------------
(* The theorems                                                            *)

THEOREM Inductive == Spec => []IInv
<1>1. IInv /\ [Next]_vars => IInv'
  BY NextCallInv, NextMoney, NextHold, NextDca DEF IInv, MoneyInv
<1> QED
  BY <1>1, InitIInv, PTL DEF Spec

\* Every reachable state of the account, its file, and the calls that wait is
\* well typed.
THEOREM TypeCorrect == Spec => []TypeOK
<1>1. IInv => TypeOK
  BY DEF IInv, CallInv
<1> QED
  BY <1>1, Inductive, PTL

\* The open journal entries are the positions, lot for lot, in memory and in
\* the file, whoever closes, adds, resets or dies in between.
THEOREM JournalAlwaysMatches == Spec => []JournalMatchesPositions
<1>1. IInv => JournalMatchesPositions
  BY DEF IInv, MoneyInv
<1> QED
  BY <1>1, Inductive, PTL

\* Whatever moved money is in the file before anybody hears of it.
THEOREM MoneyAlwaysDurable == Spec => []MoneyIsDurable
<1>1. IInv => MoneyIsDurable
  BY DEF IInv, MoneyInv
<1> QED
  BY <1>1, Inductive, PTL

\* Until a restart no position gets more adds than its cap.
THEOREM AddsCapped == Spec => []DcaCappedUntilRestart
<1>1. IInv => DcaCappedUntilRestart
  <2> SUFFICES ASSUME IInv, crashes = 0, NEW i \in Ids
               PROVE  book.object[i].lots <= 1 + DcaMax
    BY DEF DcaCappedUntilRestart, DcaCapped
  <2>1. /\ book.object[i].lots \in Nat /\ book.object[i].dcaCount \in Nat
        /\ book.object[i].lots <= 1 + book.object[i].dcaCount
        /\ book.object[i].dcaCount <= DcaMax
    BY DEF IInv, DcaInv, CallInv, TypeOK, Books, Position
  <2> QED
    BY <2>1, SwitchAssumption
<1> QED
  BY <1>1, Inductive, PTL

\* Until a close overtakes a waiting call, a closed trade is never changed again
\* but by a reset.
THEOREM TradesClosedOnce == Spec => ClosedOnceUnlessOvertaken
<1>1. ASSUME IInv, [Next]_vars, ~overtaken', NEW i \in Ids, book.journal[i].status = "closed"
      PROVE  book'.journal[i] \in {book.journal[i], NoEntry}
  <2> USE <1>1
  <2>1. /\ CallInv /\ book \in Books /\ HoldInv
        /\ i \notin book.positions /\ i \in used
        /\ disk.journal = book.journal
    BY DEF IInv, CallInv, UsedInv, TypeOK, MoneyInv, JournalMatchesPositions, JournalMatches,
           MoneyIsDurable, Money
  <2>2. ASSUME book'.journal = book.journal PROVE book'.journal[i] = book.journal[i]
    BY <2>2
  <2>3. ASSUME NEW j \in Ids, NEW p \in Prices, NEW side \in Sides, OpenTrade(j, side, p)
        PROVE  book'.journal[i] = book.journal[i]
    <3>1. i # j
      BY <2>1, <2>3 DEF OpenTrade
    <3> QED
      BY <2>1, <2>3, <3>1, OpenedBook
  <2>4. ASSUME NEW j \in Ids, NEW p \in Prices, ArenaClose(j, p) \/ SweepExit(j, p)
        PROVE  book'.journal[i] = book.journal[i]
    <3>1. i # j /\ book' = Settled(book, j, p)
      BY <2>1, <2>4 DEF ArenaClose, SweepExit
    <3> QED
      BY <2>1, <3>1, SettledBook
  <2>5. ASSUME NEW c \in Closers, NEW p \in Prices, CloseFill(c, p)
        PROVE  book'.journal[i] = book.journal[i]
    <3>1. CASE call[c].epoch = epoch
      <4>1. ~overtaken /\ Holds(call[c]) /\ call[c].id \in Ids /\ book' = Settled(book, call[c].id, p)
        BY <2>1, <2>5, <3>1 DEF CloseFill, Overtake, Holds, CallInv, WaitInv, TypeOK
      <4>2. call[c].id # i
        BY <2>1, <4>1 DEF HoldInv
      <4> QED
        BY <2>1, <4>1, <4>2, SettledBook
    <3>2. CASE call[c].epoch # epoch
      BY <2>5, <3>2 DEF CloseFill
    <3> QED
      BY <3>1, <3>2
  <2>6. ASSUME ResetAccount PROVE book'.journal[i] = NoEntry
    BY <2>6 DEF ResetAccount, FreshBook
  <2>7. ASSUME NEW n \in AccountSizes, SetAccountSize(n) PROVE book'.journal[i] = book.journal[i]
    BY <2>1, <2>7, ResizedBook
  <2>8. ASSUME NEW p \in Prices, SweepAddFill(p) PROVE book'.journal[i] = book.journal[i]
    <3>1. CASE adding.epoch = epoch /\ p <= book.cash
      <4>1. ~overtaken /\ Holds(adding)
        BY <2>8, <3>1 DEF SweepAddFill, Holds
      <4>2. adding.id # i
        BY <2>1, <4>1 DEF HoldInv
      <4> QED
        BY <2>1, <2>8, <3>1, <4>2, AddedTwice
    <3>2. CASE ~(adding.epoch = epoch /\ p <= book.cash)
      BY <2>8, <3>2 DEF SweepAddFill
    <3> QED
      BY <3>1, <3>2
  <2>9. ASSUME Crash PROVE book'.journal[i] = book.journal[i]
    BY <2>1, <2>9 DEF Crash
  <2>10. ASSUME \/ SaveAll \/ SweepStart
               \/ \E j \in Ids : SweepPass(j) \/ SweepAdd(j) \/ \E c \in Closers : CloseTrade(c, j)
        PROVE  book'.journal[i] = book.journal[i]
    BY <2>2, <2>10 DEF SaveAll, SweepStart, SweepPass, SweepAdd, CloseTrade
  <2>11. CASE Orders
    BY <2>3, <2>4, <2>11 DEF Orders
  <2>12. CASE Closing
    BY <2>5, <2>10, <2>12 DEF Closing
  <2>13. CASE Owner
    BY <2>6, <2>7, <2>13 DEF Owner
  <2>14. CASE Sweeping
    <3>1. CASE SweepStart \/ \E j \in Ids : SweepPass(j) \/ SweepAdd(j)
      BY <2>10, <3>1
    <3>2. CASE \E j \in Ids, p \in Prices : SweepExit(j, p)
      BY <2>4, <3>2
    <3>3. CASE \E p \in Prices : SweepAddFill(p)
      BY <2>8, <3>3
    <3> QED
      BY <2>14, <3>1, <3>2, <3>3 DEF Sweeping
  <2>15. CASE SaveAll
    BY <2>10, <2>15
  <2>16. CASE Crash
    BY <2>9, <2>16
  <2>17. CASE UNCHANGED vars
    BY <2>2, <2>17 DEF vars
  <2> QED
    BY <2>11, <2>12, <2>13, <2>14, <2>15, <2>16, <2>17 DEF Next
<1>2. IInv /\ [Next]_vars =>
        [overtaken' \/ \A i \in Ids :
           book.journal[i].status = "closed" => book'.journal[i] \in {book.journal[i], NoEntry}]_vars
  BY <1>1
<1> QED
  BY <1>2, Inductive, PTL DEF Spec, ClosedOnceUnlessOvertaken

\* Until a position is closed under a call that waits for its quote, the cash is the
\* initial cash, plus what closed trades made, less what open positions cost
\* (openTrade, closeTrade, addToPosition, resetAccount, setAccountSize).
THEOREM CashHolds == Spec => []CashHoldsUnlessOvertaken
<1>1. Init => CashInv
  BY FreshCash DEF Init, CashInv
<1>2. CashInv => CashHoldsUnlessOvertaken
  BY DEF CashInv, CashIs, CashHoldsUnlessOvertaken, CashIdentity
<1> QED
  BY <1>1, <1>2, NextCash, Inductive, PTL DEF Spec

\* Positions, journal, cash and file tell one story (lib/paper.js).
THEOREM BooksAlwaysAgree == Spec => []BooksAgree
BY JournalAlwaysMatches, MoneyAlwaysDurable, PTL DEF BooksAgree
=============================================================================
