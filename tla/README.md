# A verification development for IOST Terminal

TLA+ models, TLC runs and TLAPS proofs for the part of IOST Terminal that moves
money, paper or real, on behalf of agents, and for the contracts it pays out of.
Each definition is translated from the JavaScript or Solidity it names; the
`map` of `PROJECT.json` gives the lines.

    tlc -workers 2 -config ExecutionIntents.cfg MCExecutionIntents.tla   # a run
    tlapm WriteAheadProofs.tla                                           # proofs

## 1. The system

One Node.js process (`server.js`) serves an HTTP API and an MCP endpoint over
modules in `lib/`. Each module keeps its state in memory and mirrors it to one
JSON file in `data/`, written synchronously to a temporary file that is renamed
over the store. JavaScript never interrupts a piece of code between two
`await`s, so concurrency means three things here:

* handlers and timers interleave at their `await`s (nearly always a quote that
  is fetched), and use afterwards what they looked up before;
* a handler writes several stores one after the other, and the process may die,
  or a write may fail, between two of them;
* timers (the management sweep every 10 s, triggers and autopilot every 60 s,
  the pin queues) act on the stores that requests act on, and only some of them
  go through the account's lane.

Three parts live outside that process and are modelled with their own failures:
an agent's runtime supervisor, which reports over HTTP; the operator's script
that approves claims on chain; and the contracts, whose calls are transactions.

### Components

| component | state | operations | talks to |
|---|---|---|---|
| Execution intents (`execution-intents.js`) | intent records on disk, map of running promises | `runExecutionIntent` | calls the order operation it was given |
| Account lane (`agent-portfolio-orchestrator.js`) | per account a slot and a queue, memory only | `runPortfolioExecution`, release | runs an intent as its operation |
| Order execution (`server.js` 3430-3760) | none of its own | `executePaperOpenOnce`, `executePaperCloseOnce` | all the ledgers below, in a fixed order |
| Spend rails (`limits.js`, `pacts.js`, `wallets.js`, `freeze.js`) | usage windows and reservations; Pacts, their reservations and spending; balances; a switch | reserve, commit, release in both ledgers; Pact life cycle; fund, debit, suspend; freeze | order execution, `/api/spend/*` |
| Paper ledger (`paper.js`, `broker/paper.js`) | accounts: cash, positions, journal | open, close, add, reset, resize, mark | lane, Arena, autopilot, sweep |
| Position management (`management.js`, `position-guardian.js`) | overlap guard, trailing peaks, DCA counts | sweep: exits and adds | ledger, missions, receipts |
| Missions (`missions.js`, `supervised-mission-runner.js`) | missions, trade reservations, trades | reserve, commit, release, close | order execution, sweep |
| Owner approvals (`owner-approval-queue.js`, `order-review.js`) | requests and decisions | request, decide, consume | order execution |
| Receipts, reconciliation (`execution-receipts.js`, `execution-reconciliation.js`) | a hash-chained file per account | append; compare everything | order execution, preflight |
| Triggers (`triggers.js`) | trigger list on disk | create, switch, delete, check with fire and rearm | live proposals |
| Live desk (`live-proposals.js`, `live.js`, `rails.js`, `broker/kraken.js`) | proposals, live switch | propose, approve, lease, finalise, manual order, kill switch | the venue |
| Stakes, slashes, trust (`stakes.js`, `slashes.js`, `trust.js`) | two files | stake, unstake, slash, appeal | receipts of misbehaviour |
| Agent runtime (`agent-runtime.js`, `agent-runtime-supervisor.js`, `agent-incidents.js`) | a lease and its quarantine; a state file per supervisor; incidents | enrol, beat, take over, sweep, acknowledge, resolve | mission gate |
| Autopilot, Arena (`autopilot.js`, `arena.js`) | pending proposals, evidence | open, close, approve | paper ledger, outside the lane |
| Point claims (`points.js`, `aitt-claims.js`, `sync-claims.js`, `PointsConverter.sol`) | points ledger, claims, manifest, approvals and reserve on chain | reserve, prove, approve in chunks, convert, confirm, release | the contract |
| Bridge (`Phase4Escrow.sol`, `Phase4Wrapper.sol`, `Phase4AttestationVerifier.sol`) | locks, burns, proofs, headers, signers, limits | lock, mint, burn, release, refund, recover, reconcile | a prototype the server does not call |
| Signals, pin queue (`signals.js`, `chain.js`) | append-only logs, a retry queue | append, flush | external chain |
| Market data, analytics, identity, MCP formats, reports, other contracts, browser client | see `PROJECT.json` | | |

### What is hard in it, and what makes each part correct

`PROJECT.json` lists every hazard with its line. By kind:

* **Retries.** A client whose request timed out sends it again while the first
  is running, has ended, or was lost. An order must be placed at most once, and
  what the client is told must be true. *(intents)*
* **Two ledgers saved apart.** Limits and Pacts must agree on a reservation,
  through refusals, rollovers of the UTC day and week, expiry of a Pact during
  the handler, and a crash between the saves. *(rails)*
* **Look up, await, act.** `closeTrade` and `addToPosition` use the position
  they found before they waited. Cash, positions and journal must still agree.
  *(ledger)*
* **Order and exclusion.** One writer per account, closes before opens, nobody
  stranded, although a caller hears that its operation ended before the lane
  has given up its slot. *(lane)*
* **Partial failure of a long handler.** Seven stores are written for one
  order. Receipts must be true whatever fails, what is left half done must stop
  new exposure, and a healthy account must never be stopped. *(order execution)*
* **Deployed money.** A live order is leased, sent to a venue that may time out,
  and finalised; an emergency stop races it. One proposal is one order at most,
  and its status must be true. *(live desk)*
* **A store written back whole.** The trigger check loads the store, waits for
  quotes and saves its own copy over what was edited meanwhile. *(triggers)*
* **Off-chain records of on-chain money.** A claim is reserved here, approved
  there by a script that may stop anywhere, converted by its user, and debited
  here. Nothing is paid twice, or beyond the points. *(claims)*
* **Lossy messages, rival processes.** Heartbeats are lost, late and repeated,
  two supervisors believe they are in charge, and the lease and the incidents
  are two files. *(runtime)*
* **Two chains.** Each side knows the other only through a proof, which
  finalizes, expires, fails, or is orphaned by a reorganisation. *(bridge)*

## 2. Modules

    AtMostOnce           what a key of the order API promises
      ^ implements
    ExecutionIntents     lib/execution-intents.js
    PortfolioLane        lib/agent-portfolio-orchestrator.js
    SpendRails           lib/limits.js, pacts.js, wallets.js, freeze.js and their callers
    PaperLedger          lib/paper.js, management.js, data/accounts.json
    PaperExecution       server.js order paths, composing the ledgers above at the
                         level of one status per order, with missions, approvals,
                         receipts and reconciliation

    Stakes               lib/stakes.js, slashes.js and their routes
    LiveDesk             lib/live-proposals.js, live.js and executeLiveOrder, with the venue
    Triggers             lib/triggers.js and its tick; proposes to the live desk
    PointClaims          lib/points.js, aitt-claims.js, contracts/scripts/sync-claims.js
                         and PointsConverter.sol, composed
    RuntimeWatch         lib/agent-runtime.js, agent-runtime-supervisor.js and
                         agent-incidents.js, composed
    Bridge               Phase4Escrow, Phase4Wrapper and Phase4AttestationVerifier, composed

    SpendRailsProofs, PaperLedgerProofs, StakesProofs,
    BridgeProofs, PointClaimsProofs              theorems about the module they name
    WriteAheadProofs                             theorems about ExecutionIntents and RuntimeWatch
    AccountLaneProofs                            theorems about PortfolioLane and PaperExecution
    DeskProofs                                   theorems about LiveDesk and Triggers
    MC<module>                                   symmetry and constant functions for TLC

### ExecutionIntents and AtMostOnce

`status` and `request` are the record on disk, `promise` the entry of the
`inflight` map, `call[c]` what caller c's handler awaits. `runExecutionIntent`
is synchronous up to its first `await`; each of its seven ways to get there is
an action (`NewIntent`, `NewIntentUnsaved`, `CapacityReached`, `Conflict`,
`ReplayTerminal`, `ReplayOrphan`, `Join`). `Act` is the order taking effect
inside the operation, `Resolve` and `ResolveUnsaved` its end with a save that
works or throws - before or after the rename, which is why `status'` may be
either. `Resume` is a handler's continuation; the owner's drops the inflight
entry. The stored status *succeeded* carries the result, and the result says
whether the order was filled, so it is split into *filled* and *unfilled*. A
*failed* intent says nothing about the order: a reversed fill raises too.

`effects` and `replies` are history variables: the orders the world saw and
the answers that were sent.

`AtMostOnce` is the promise without callers, saves, promises or crashes: a key
is free, claimed or settled; its effect is applied at most once, only while it
is claimed; a definite answer is given only once it is settled, to the request
the key is bound to, truthfully and always the same. The refinement maps
`phase` from `status`, `told` from `replies`, and hides the rest. A crash is a
stutter. Nothing is promised about an answer becoming definite, and the code
indeed leaves an orphaned key pending for ever.

### SpendRails

One wallet and its Pacts. Handlers of `/api/spend/*` and `agentSpendGate` /
`settleAgentSpend` are synchronous but save each ledger on its own, so a
handler is one action per save; `at`/`job` name the next step. While a handler
is between steps nothing else runs, except that the process may die and the
clock may move: every check reads `Date.now()` afresh. `Swept` is
`sweepExpiry`, which every read of a Pact applies; `DayUsedNow` is
`rollWindows`. A sum of amounts is written as the size of a set (`Cents`), so
that it can be reasoned about without recursion. `debitedOn`, `madeOn` and
`holder` record what happened for the properties and who can still settle.

### PaperLedger

One account, in memory (`book`) and in the file (`disk`). An action is what
runs between two awaits: `OpenTrade` with an entry price does not wait;
`CloseTrade` finds the position and waits, `CloseFill` settles it without
looking again, as the code does; `SweepAdd`/`SweepAddFill` likewise. `epoch`
counts replacements of the account object, so that a call that waited through a
reset settles the old, unreachable object. The sweep walks a copy of the list.
`persistAccounts` writes nothing unless something was marked dirty, so the
`dcaCount` the sweep sets after the save is in memory only. `overtaken` records
that a position was closed while another call waited holding it.

### PortfolioLane

`Submit` is `runPortfolioExecution` as far as it runs at once: capacity,
insertion (a close before the first open, an open last), `drain`. `Settle` is
the operation's promise settling, which its caller hears of at once; `Release`
is the `finally` that clears the slot and drains. Between the two anyone may
submit.

### PaperExecution

`run` is the lane's active order and its next step; each save of
`executePaperOpenOnce` and `executePaperCloseOnce` is a step, in the code's
order: preflight, approval, mission, rails, broker, settle, mission trade,
receipt, intent. `Idle` is true only where the code awaits; there alone the
sweep, the owner and a reset come in. Writes of receipts and of the intent
store may fail; the handler's reversals and its catch are actions of their own.
`guard` is the sweep, which takes one position at a time: a protective or
trailing exit, a save at a time (only the former has a receipt), or an add, which
waits for a quote (`AddBegins`, `AddFills`).

`RecordDamage`, `CashMismatch` and `Stray` are the critical findings of
`buildExecutionReconciliation`, computed from the records with the intent being
executed left out, as the caller does. Positions and journal change together and
are one file, so the findings that compare those two cannot arise. The cash can
differ from the journal without any failure, in two ways, and `Settles` has both.
A close or an add that finds its position closed after its quote settles it all
the same and counts the amount again: the cash is `off`. And the journal has the
amounts rounded, so that roundings may add up beyond the tolerance or cancel out:
`adrift`. The size of the difference is abstracted; two amounts counted twice are
taken never to cancel out. (A reversal exits at the entry and rounds nothing;
resizing an account moves both sides alike.) A reset starts an account whose cash
is right. The other ledgers appear as one status per order: that this is what
they do is the business of their own modules, and the Arena's and the autopilot's
closes, which use neither lane nor intent, are in `PaperLedger`.

### Stakes

`book` is the list of stakes in memory and `file` what `data/stakes.json` holds;
`slashes` needs no such pair, for its saves do not fail and come last in every
handler. `Save` is the point of the module: an amount is a string at rest and a
BigInt while one computes, `restoreStake` leaves the BigInt (`big`), and as long
as one is there `save` throws after memory was changed. `Answer` is the reply
that such a throw turns into an error. `createSlash` is a step per save
(`SlashNext`, `RecordSlash`), with a crash or a throw possible between them;
`torn` records that something was lost that way. Everything else is one action
per handler.

### LiveDesk

`proposal` is the proposals file, `call[c]` a request of `executeLiveOrder` and
what it awaits: `Approve` writes the execution lease and begins, `ReadVenue`
awaits account and positions, `Send` is the order on its way, `Accept` the venue
taking it - with an answer that arrives or not - and `Refuse` / `Finish` the
finalisation. The position cap is the rail that is modelled, because it is
checked against positions read before the order was sent; `Refuse` stands for
any other. `DisableLive`, `ListOrders`, `CancelOrder` and `DisableEnds` are
`disableLive`, which awaits the venue for each order and clears the switch last.
`live` is in memory and `saved` what `accounts.json` has of it: neither
`enableLive` nor `disableLive` saves. A crash ends every request; the venue may
still take orders that were on their way. `killed` is history, not the switch: it
is `now` from the step in which `disableLive` answers until `enableLive`, and
`before` after a crash, so `KillStopsNewOrders` fails if the switch is left on.

### Triggers

`disk` is the store, `tick` the check: the copy it loaded and what it has still
to ask a price for. `SaveStore` writes the copy over the store. `Fire` proposes,
in a file that is saved at once; a crash before `SaveStore` forgets that the
trigger fired. `told` is what the owner heard last, `overwritten` the edits a
check saved over, `quiet` the triggers that may not propose again yet.

### PointClaims

Three parties. The server: `claim` is the claims file, `debits`/`saved` the
conversion debits of the points ledger in memory and on disk - the debit is
found again by a retry and then not saved (`ConfirmFails`). The contract:
`approved` and `paid` are cumulative per user, `outstanding` is what it owes,
`txs` the approvals, mined in the order of their nonces or reverted. The
operator: `NewSnapshot` writes a file, `run` is one run of the script, which
plans against manifest and chain, then sends (`SubmitChunk`), writes its
manifest (`WriteManifest`), and waits; `ScriptStops` at any of these.
`unlogged` records the one place where stopping loses evidence. A chunk is any
part of what is left. A claim is listed in one file; no code compares files.

### RuntimeWatch

One owner's key. A supervisor has a file with a session and at most one pending
heartbeat, written before it is sent; a cycle asks for the status (`Ask`),
settles, resends, composes or refuses, is delivered, and acknowledges. `GiveUp`
is a timeout, a lost answer or a restart, and may leave the request under way
(`late`). The server's handler reconciles the incidents, records the heartbeat
and reconciles again; `...Dies` are its deaths between the save of the lease,
which holds the quarantine, and the save of the incidents. `runtime.age` is the
age of the lease as `health()` classes it. `applied` and `issued` are the
heartbeats the lease accepted and those ever written ahead.

### Bridge

`op[o]` is what the three contracts' mappings say of an operation: its kind,
whether its proof is registered, finalized, consumed, invalidated or failed, and
whether it was executed on the other side or given back on its own. A message
must repeat every field of its proof, so it is the operation itself.
`UniqueHead` follows `_uniqueHead`, one walk over the observers in the order
they registered that compares each head with the one before it. `Reconcile`
moves the head and invalidates finalized proofs of other blocks. A call that
reverts is no step. Governance may do anything it is allowed to, at any time.

## 3. Runs

| run | expects | shows |
|---|---|---|
| `execution_intents` | pass | one order per key and true verdicts (`EffectsMatchReplies`), orphans closed, everybody answered (liveness), `Implements` (refinement) |
| `spend_rails` | pass | windows exact over rollovers, caps and budgets (`LimitsHold`), no uncounted money after a crash (`NothingSpentUncounted`), agreement of the ledgers (`SettlementsAgree`), deadlines (`DeadlineRevokes`) |
| `paper_ledger` | pass | journal and positions agree in memory and on disk and money is durable (`BooksAgree`); cash, single closing and the DCA cap hold except in two situations, see below |
| `portfolio_lane` | pass | one writer, nobody forgotten (`JobsAccounted`), closes first and nobody else passed (`OrderKept`), `EveryJobSettles` (liveness) |
| `paper_execution` | pass | receipts true and positions backed (`RecordsAreTrue`), reconciliation sees what is half done, and in an undisturbed account nothing but cash that differs from its journal (`AlarmIsExact`), guards exposure and forgets no damage (`ReconciliationGuards`) |
| `stakes` | pass | stores agree on every stake, never more than was put in (`AmountsAccounted`); answers survive failing saves and restarts (`AnswersAreDurable`) |
| `bridge` | pass | conservation (`Backed`), one outcome per operation (`OneOutcome`), no head over a rival with a quorum (`NoRivalHead`) |
| `live_desk` | pass | `OneOrderPerProposal`, `StatusTellsTheTruth`, once the switch has answered nothing starts (`KillStopsNewOrders`), `EveryRequestEnds` (liveness) |
| `triggers` | pass | an answered edit holds unless a check overwrote it (`EditsHoldUnlessOverwritten`), `ProposesOnEdges`, `EveryCheckEnds` (liveness) |
| `claims` | pass | `Solvent`, `SettledOnce`, nothing convertible beyond the points (`PaidWithinPoints`) |
| `runtime_watch` | pass | every heartbeat recorded once, in one line of checkpoints (`EveryBeatOnce`), `QuarantineAccounted`, `NoOutageUnseen` |
| `claims_resume` | violation | a resumed snapshot pays claims a second time (`ResumePaysOnce`) |

The passing ledger run states its cash and close-once properties *up to* the
moment a position is closed under a waiting call (`overtaken`), and the DCA cap
up to a restart; `PaidWithinPoints` excludes claims released while listed or sent
by a script that stopped before its manifest; `EditsHoldUnlessOverwritten` edits
that a check saved over; `QuarantineAccounted` holds that a crash tore. In every
case the exception is a history variable set by exactly that event, so that
nothing else that could break the property is hidden, and the runs contain
everything around it: resets, stale sweeps, failing saves, crashes, lost
messages.

In `ExecutionIntents`, `SpendRails`, `PaperLedger`, `PortfolioLane`, `Stakes`,
`Bridge` and `LiveDesk` the type invariant is left to its theorem (section 5); the
other runs check it. `PaperExecution`, `Triggers` and `RuntimeWatch` name their
specification, next-state relation and type invariant after themselves
(`ExecutionSpec`, `TriggersTypeOK`, `WatchSpec`), because a module of proofs extends
two components at once. A property that is a conjunction is one claim about the code
whose parts are named in its module.

### Bounds, and why they are enough

* `execution_intents`: one account, two ids of which the capacity admits one,
  two different requests, three concurrent callers (an owner and two joined, or
  an owner with a conflict), one crash, one failing save. Keys interact only
  through the account's capacity. A crash after a failing save and a failing
  save after a crash are both in reach.
* `spend_rails`: two reservations against caps of 2, 3 and 3 with amounts of 1
  and 2, so that either can exclude the other; a budget Pact the two exhaust and
  a time Pact that ends on day 1; three days in two weeks, so a day rolls over
  with and without its week; one crash. Reservations are interchangeable.
* `paper_ledger`: two positions, prices 1 and 2, cash 3 (the second open may be
  refused), two callers of `closeTrade` and the Arena, one add per position, one
  reset or resize, one crash.
* `portfolio_lane`: five jobs of one account with a queue of three, so that one
  is refused or waits in each order, closes arriving behind opens; one job of
  another account; one crash.
* `paper_execution`: three intents (two opens and a close, or two closes of one
  position), opens under the authority that passes every stage, two mishaps of any
  kind, so that a failing write meets its own failing repair, or a reset what a
  crash left. A close and the sweep suffice to count an amount twice, and the third
  intent is then an order that must be refused. Opens by a person alone skip stages;
  they are in the theorems, and with one mishap they were checked as well.
* `stakes`: two owners, two stakes, two calls of `createSlash` with the two rules
  of the platform, four days with a cooldown of one and an appeal window of two,
  so that a stake can be withdrawn before an appeal about it is decided and
  appeals can lapse; one crash. Failing saves need no bound: the code makes them.
* `bridge`: two operations whose blocks are rivals of one height and a third,
  higher block; two observers with a quorum of one, so that they can disagree and
  each have a quorum; two signers with a quorum of one; limits that one message
  exhausts; one operation that expires in reach; two calls of governance.
* `live_desk`: one proposal and manual orders, two requests at a time, so that
  two approvals, or an approval and a manual order, overlap; two orders at the
  venue and a position cap of one; one restart.
* `triggers`: one trigger that proposes and one that notifies; four edits, enough
  to create both and to switch one off and on under a check; one restart.
* `claims`: one user with two claims and one with a single claim, of one point
  each; a reserve that covers two of the three; two approval transactions, so a
  snapshot can be sent in two chunks or resumed; one stop of server or script.
* `runtime_watch`: two supervisors, three heartbeats (a session, its successor and
  a rival), one trouble: a lost or late message, a restart, a death of the
  server between two saves, or a window that passes; quarantine after two
  rejections.

`CHECK_DEADLOCK FALSE` stands in the configurations of `PaperLedger`,
`PortfolioLane`, `PaperExecution`, `Stakes`, `Bridge`, `LiveDesk`, `PointClaims`
and `RuntimeWatch`: once every position id, job, intent, slash, operation, order,
transaction or heartbeat is used and the mishaps are spent, those systems have
nothing left to do.

### Fairness

`ExecutionIntents` assumes weak fairness of an operation's end and of a
handler's continuation; `PortfolioLane` of an operation's end and of the lane's
release. Continuations are promise callbacks, which the event loop always runs.
Operations end because everything they await has a timeout: `lib/market.js`
aborts each of its fetches by a timer. There is no
timeout in the lane or in the intent layer itself, so an operation with an
await that does not end would hold both for ever; this is a hazard without a
property. `LiveDesk` assumes that each running request and the kill switch go on:
every call to the venue is a `fetch` that answers or throws, and each is caught.
`Triggers` assumes that the tick comes (an interval of 60 s) and that a running
check goes on, since a price that does not come is passed over. No client, crash
or failing write, and no other timer, is assumed fair. `PointClaims`,
`RuntimeWatch` and `Bridge` state no liveness: nothing obliges an operator, a
user, a supervisor's host or an observer to act.

## 4. Findings

**A resumed snapshot can pay a claim twice** (`claims_resume`, `ResumePaysOnce`).
`sync-claims.js` sends a chunk and writes its manifest after the call has
returned. If the script stops in between, the chunk is mined without evidence.
While it is outstanding the resume refuses; once its users have converted,
*approved* equals *claimed* again, and `planApprovalResume` sees nothing
outstanding and approves the same claims on top of what was paid. The statement
it contradicts is quoted in `PROJECT.json`.

### Known divergences

These too contradict a sentence of the repository. The definitions stand in the
modules, each with the comment that it does not hold; to see the counterexample,
name it as the only property in the module's configuration. The passing runs
state what holds in spite of them.

| definition | the repository says | the code does |
|---|---|---|
| `FreezeStopsDebits` (SpendRails) | "one-tap stop for ALL agent ops", "checked ... before every execution" (`lib/freeze.js:1-2`) | `/api/spend/commit` (`server.js:2889`) debits without asking `isFrozen` |
| `CashIdentity` (PaperLedger) | "A valid trigger closes exactly once" (`docs/POSITION_GUARDIAN.md:74`, also `:77`) | `closeTrade` (`lib/paper.js:236`) settles a position a protective exit closed while it waited for the quote |
| `DcaCapped` (PaperLedger) | DCA is "capped" (`lib/management.js:8-10`); `persistAccounts` is "force a persist" (`lib/paper.js:45`) | `dcaCount` (`lib/management.js:222`) changes after the save and `persistAccounts` writes nothing: a restart forgets it |
| `FailureCostsNothing` (PaperExecution) | budget is "committed only after success" (`README.md:65`) | an order reversed for want of a receipt (`server.js:3672`) has been committed |
| `AppealsRestoreForGood` (Stakes) | "restore the slashed amounts" (`lib/slashes.js:93`) | `restoreStake` (`lib/stakes.js:117`) leaves a BigInt no save can write; a restart forgets the restoration |
| `QuorumLeft` (Bridge) | `require(active > quorum, "quorum-unsafe")` (`Phase4AttestationVerifier.sol:337`) | after rotate, revoke, rotate a signer is listed twice and counted twice |
| `KillSwitchHolds` (LiveDesk) | the kill switch "disables live mode" (`README.md:303`) | `disableLive` (`lib/live.js:102`) saves nothing: a restart may bring live mode back |
| `Deduplicated` (RuntimeWatch) | `deduplicated: true` (`lib/agent-incidents.js:235`) | a failure that quarantined the runtime outlives its window, and the next rejections open another |

## 5. Proofs

Proved for every value of the constants (any number of accounts, callers,
reservations, Pacts, days, crashes and faults) with the assumptions named in
the modules, which TLC evaluates in the runs.

The theorem about a run's property that is a conjunction (`EffectsAndReplies`,
`LimitsAlwaysHold`, `SettlementsAlwaysAgree`, `BooksAlwaysAgree`,
`JobsAlwaysAccounted`, `OrderAlwaysKept`) follows from the theorems about its parts.

A sum is written as the size of a set with one element per unit (`Cents`, `Units`,
`Worth`, `Convertible`), never as a fold: what adding, removing or moving an
amount does to a sum then follows from the theorems about cardinalities
(`FS_Union`, `FS_Product`, `FS_Surjection`), where a fold would need an induction.

**ExecutionIntents.** `TruthfulReplies` and `AtMostOneEffect` are not inductive:
an answer is prepared before it is sent, and an order is placed before its
verdict is known. `IInv` adds what the states in between agree on: a running
operation has a pending record and has placed exactly the orders it remembers
(`RunsInv`); the record agrees with the world (`RecordInv`); a waiting caller
asked for the request on record and is about to get the verdict on record
(`CallInv`). From it follow type correctness, both invariants, `OrphansClosed`
and `VerdictsAreFinal` as action properties, `CapacityRespected`, and
`ImplementsAtMostOnce`: every step maps to a step of `AtMostOnce` or a stutter,
one lemma with a step per action.

**SpendRails.** `IInv` is `ShapeInv` (types, the life of a reservation across
the ledgers, what the rest of a handler relies on, the windows being those of
the last reservation, `NothingSpentUncounted`), `AgreeInv` (until a crash the
ledgers agree on every reservation but the running handler's), `LimitsInv` and
`PactInv` (the sums). `ShapeInv` needs none of the sums, so it is proved first
and the sums from it. Sums are cardinalities: the `Cents...` lemmas say what
adding and removing a reservation does to them, and stand in for an induction.
The point of interest is `RefundKeepsLimits`: a release gives back exactly to
the windows that counted the amount, although they may have rolled over.

**PaperLedger.** The journal and the durable book are nearly inductive; what
needs strengthening is what a waiting call holds. `WaitInv` says that it found
its position in this account object or an earlier one, `UsedInv` that an id
never used has neither position nor entry, `HoldInv` that until something is
overtaken the positions that calls wait for are still open - on which
`ClosedOnceUnlessOvertaken` rests - and `DcaInv` that before any crash the lots of
a position are covered by `dcaCount`, with room for the add in flight. A crash
brings back the file, so `CallInv` is proved together with `MoneyIsDurable`. The
operators `Settled`, `Opened`, `Added` and `Resized` get a lemma each; an action is
then a case on whether its call still holds the account in use. `CashHolds` is an
equation of three sums (`Made`, `Tied` and the cash); it needs that a position and
its journal entry have the same lots, which is `JournalMatches`, and that a waiting
call still finds its position, which is `HoldInv`.

**PortfolioLane.** `IInv` adds to `OneWriter` and `NoneForgotten` that a running
order has its lane marked active (`RunningActive`), so that `drain` cannot start a
second, and that closes stand before opens in every queue (`QueuesSorted`). The
lemmas on `InsertedAt` and on the tail say which orders a queue holds and in which
turn; `DrainKeeps` serves both the submission and the release.

**Stakes.** `AnswersAreDurable` needs only that a stake not made yet is in neither
store (`FreshInv`); `SaveKeeps` is the argument, for every handler at once: a
save changes the file and the answer, or neither. The reduction of a slash stays
within the amount (`ReductionBounded`). `AmountsStand` needs that a slash under way has
taken nothing yet from the stakes before it (`JobInv`), that a book that can be saved
is the file (`SavedInv`), and that otherwise, until a restart tears something off, the
file is behind by restored amounts only (`LagInv`). A slash moves an amount from the
stake to what is deducted, an accepted appeal moves it back, and a restart forgets
both or neither unless it tears them.

**Bridge.** `Backed` is inductive with `OneOutcome` and `Records`: a consumed
proof was registered, and what was executed or returned was consumed. The tokens
owed are a set of pairs, so `Backed` is an equation of cardinalities; `Opened`,
`Closed` and `Kept` say what beginning, ending and leaving an operation alone do
to it, and each action is one of the three. It holds for any amounts, nonces,
blocks, observers and governance. `BridgeHead` is an action property: everyone
who has registered a header is on the walk of `_uniqueHead` (`Listed`), and of the
places that hold a rival head the first repeats none before it, so the walk counts
it.

**LiveDesk.** The invariant adds `Leases`: a running request holds its proposal's
lease alone, and the venue has the proposal's order exactly when the request has
got that far. `Begins`, `Moves`, `Ends` and `AcceptKeeps` are the steps of a
request, `Waiting` those of a proposal without one, `CrashKeeps` a restart, where
orders on their way may land. `LiveDeskKill` is an action property from
`OffKept`: as long as the owner has only been told that trading stopped, live mode
is off (`StayedOff`), because `disableLive` clears the switch in the step that
answers and only `enableLive` and a restart set it.

**PointClaims.** `SettledOnce` with `Types`, which follows an amount from a claim
through plan and transaction to the conversion. `Solvent` is inductive with the
types; a sum over users is the size of a set with one element per point that may
still be converted (`Convertible`), which `OwingSplits` cuts into the users of a
transaction and the others. `ClaimsPaidWithinPoints` follows a user through the
three parties: the claims held never exceed what is earned (`HeldInv`), what a file
lists is held (`ListedInv`), and what is approved or about to be - on chain, in a
transaction, in the plan of the running script, in the manifest - never exceeds
what is listed as long as every transaction that may count is in its manifest
(`SentInv`). Approvals are cumulative, so a plan is sound only if it was read from a
chain with nothing in flight (`Clean`, `InFlight`).

**Triggers.** `EditsHoldUnlessOverwritten` is inductive once the copy a running
check holds is compared with the store (`CopyHolds`): it agrees on every trigger
that was not edited since the check loaded it. `TriggersProposeOnEdges` needs that a
trigger that must be quiet is marked as spent in every copy that could make it fire
(`Spent`).

**PaperExecution.** Neither `RecordsAreTrue` nor `AlarmIsExact` is inductive: both
are about what is left when a handler has gone on or died. `RecordsInv` says what an
open has on the books at every step of its handler and by what leave it got there
(`Booked`, `Authorised`), what its receipt says of it (`Told`), what is left of an
order that is not running - nothing before it began, nothing reserved and no
untold fill once its intent is settled, and a pending intent only after a failure
or a crash (`Kept`, `Backed`) - and that a receipt names its order and position
truly and is the only one of its order (`Entry`, `Truth`, `SingleInv`). The
seventeen steps of an open are all one `OpenMove`: it touches the books of its own
order, fills at most once, closes only what it has filled, and ends with one true
receipt or with a failed write and nothing open. The steps of a close, of the
guardian, the owner, a reset and a crash are all `Quiet`: they open nothing, reserve
nothing and settle no intent. `QuietWhileWaiting` is where it matters that a handler
gives up the thread only at its preflight and its quote: later the others would
invalidate what `Booked` says. From the invariant a half-done order is a pending
intent, so it blocks (`HalfDoneBlocks`), and without mishaps nothing is pending,
lost, stray or doubled (`UndisturbedIsQuiet`), so only the cash can be found wrong. `ClearInv` carries the answer of the
preflight to the step that places the order; `NothingIsUndone` is what keeps damage
visible (`RecordDamageKept`). The cash needs one invariant more, because a reset
brings it right: `CashInv` says that cash that is off has left the order of some
position on record, by an accepted receipt or by an intent that was cut off, and
`ResetShows` that the reset, which wipes the position, turns just that record into
damage. What drifted by rounding has no such record and may come right by itself.

**RuntimeWatch.** Two invariants that share no variable.
`RelayInv` follows the heartbeats: the lease is the last of the history (`LeaseInv`),
a session enters the history with its first heartbeat and at the place that
heartbeat names (`LineInv`), a heartbeat is numbered after one that was accepted
(`BeatsInv`), no session is held by two files and what is pending is the newest of
its session (`FilesInv`), and a status, however old, is a place of the history
(`CyclesInv`). Three facts carry it. A newcomer is new (`NewcomerIsNew`): a late first
heartbeat of a session already in the history names an earlier place, so the
checkpoint refuses it, and neither health nor sequence would. A renewal is the next
of its session (`RenewalIsNext`). What a supervisor writes ahead is the newest of its
session (`NextIsNewest`), because with nothing pending all it ever wrote was accepted,
and the status it read shows the last of it. `DeskInv` says the same of each category's
queue of incidents and the holds (`QueueHolds`), with what a crash has lost as a
parameter; each operation on the desk has a lemma, and a death between two saves is
`DeskTorn`. `OutagesSeen` is an action property from `SweptHolds`. That messages are
lost or windows pass at most `MaxTroubles` times is used nowhere.

**Only model-checked.** The four liveness properties (`EveryCallAnswered`,
`EveryJobSettles`, `EveryRequestEnds`, `EveryCheckEnds`): they need fairness, whose
ENABLED the prover does not handle. Every other property of a passing run is stated
by a theorem.

## 6. Not modelled

* Amounts in `PaperLedger` are whole numbers: rounding to cents, risk sizing,
  stop defaults and the choice of a trigger price are left out; any fresh quote
  may trigger an exit. Properties about price levels would need them.
* Failing saves are modelled in `ExecutionIntents`, in `PointClaims` and for
  receipts and intents in `PaperExecution`; in `SpendRails`, `PaperLedger` and
  `RuntimeWatch` a save is atomic and only the process may die between saves.
* The hash chains of receipts and approvals and their verification.
* The amounts behind a drift of the cash by rounding (`PaperExecution`): how many
  trades it takes to exceed the tolerance is open.
* Failing saves in `Triggers` (a `saveStore` that throws lets the trigger fire
  again, as a crash before it does) and in `LiveDesk`.
* Whitelists, capabilities and per-Pact transaction caps: further refusals of a
  check that is modelled.
* `RuntimeWatch`: the mission, stage and cursor a heartbeat carries, degraded and
  resolved incidents, the eviction at `MAX_INCIDENTS`, several owners and keys, and
  two processes on one state file.
* `PointClaims`: the pause of the converter (a pending transaction may revert at
  any time for it), reads of the chain that are inconsistent with each other
  within one plan, and the release gate, which is open. Bounties and referrals
  are credits like any other; that a crash between `credit` and `lastBountyWeek`
  (`points.js:327`) can award a week twice is outside the model.
* `Bridge`: a block's number, hash and root are one value, so that the same hash
  with two roots, which only fails closed, is left out; what observers say about single events is left open; addresses of
  recipients and replay across deployments are part of the message.
* Hazards seen and without a property here, besides the known divergences: the intent store at its capacity
  (`execution-intents.js:145`, refused as intended), stranded reservations
  (`limits.js:129`), a commit on the day after its reservation (`limits.js:158`,
  counted on the first day as the comment at `:149` intends), trailing peaks kept in
  memory (`paper.js:36`), a save that throws after a fill (`paper.js:201`), a
  receipt for an intent that has no record (`server.js:3510`), consumed approvals
  that are not given back (`server.js:3550`), a second approval of an autopilot
  proposal while the first awaits the broker (`autopilot.js:87`), a superseded
  supervisor whose pending heartbeat never settles
  (`agent-runtime-supervisor.js:150`), an active incident evicted at `MAX_INCIDENTS`
  (`agent-incidents.js:99`), and a crash between a close and the
  mission's record of it (`server.js:3736`).
* Market data and analytics (external input, pure functions of floating-point
  numbers), identity and credentials (requests arrive attributed), message
  formats, derived reports, the timelock, token, vesting and fee contracts and
  the browser client. They are most of the repository's lines, so the share of
  lines the map covers stays small: what is modelled is the part with state that
  several actors change.

## 7. Plan

Done, in order of importance: intents, rails, ledger, lane, order execution,
stakes, live desk, triggers, point claims, runtime, bridge. What would add most
next:

1. `Missions`: life cycle, checkpoints, loss halt; then `PaperExecution`'s one
   status per order as an abstraction of the ledgers.
2. `PaperLedger` with failing saves and the autopilot's proposals.
