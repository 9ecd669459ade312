---------------------------- MODULE PaperExecution ----------------------------
(***************************************************************************)
(* One paper order from end to end: executePaperOpenOnce and               *)
(* executePaperCloseOnce of server.js inside the account's lane and its    *)
(* execution intent, with the ledgers they write one after the other (the  *)
(* intent store, owner approvals, missions, the spend rails, the paper     *)
(* account, the receipt chain), the position guardian, and the verdict     *)
(* lib/execution-reconciliation.js draws from what is left.                *)
(*                                                                         *)
(* The lane runs one order of the account at a time.  An open waits only   *)
(* for its preflight, a close only for its quote; the rest of a handler    *)
(* runs without giving up the thread, but every save is a step, and the    *)
(* process may die between two of them.  Writes to the receipt chain and   *)
(* to the intent store may fail.  A position carries the name of the       *)
(* intent that opened it.  Of the cash the module knows whether it agrees  *)
(* with the journal; the amounts are the business of PaperLedger, those of *)
(* the rails of SpendRails, replays of ExecutionIntents.                   *)
(***************************************************************************)
EXTENDS Integers, FiniteSets

CONSTANTS
  Intents,     \* execution intents of the account
  Authorities, \* who may send orders, see Authority below
  MaxMishaps,  \* bound: failing writes, crashes, resets and stray keys
               \* explored, counted together
  NoIntent

ASSUME IntentAssumption == IsFiniteSet(Intents) /\ NoIntent \notin Intents
ASSUME MishapAssumption == MaxMishaps \in Nat

VARIABLES
  intent,    \* intent[i].status in execution-intents.json, and whether the
             \* stored outcome has a receipt
  order,     \* order[i]: what intent i asks for
  approval,  \* approval[i] in owner-approvals.json
  mission,   \* mission[i]: the mission's reservation or trade for intent i
  budget,    \* budget[i]: its reservation in the limits and the Pact
  position,  \* position[i]: the journal entry of the position i opened
  cash,      \* the account's cash against its journal: balanced; adrift,
             \* by more roundings than the tolerance takes; or off, since
             \* an amount was counted twice
  receipts,  \* the account's receipt chain
  run,       \* the lane's active order and its next step
  guard,     \* the sweep's close or add and its next step
  faults, deaths, resets, probes  \* how often each went wrong

ledgers == <<approval, mission, budget, position, cash>>
mishaps == <<faults, deaths, resets, probes>>
executionVars == <<intent, order, ledgers, receipts, run, guard, mishaps>>

\* A signed-in person needs no authorization; an agent needs a wallet and a
\* Pact; an agent on a mission also needs the mission's leave; a supervised
\* mission asks the owner for every order.
Authority == {"human", "agent", "mission", "supervised"}
ASSUME AuthorityAssumption == Authorities \subseteq Authority

OnMission(i) == order[i].by \in {"mission", "supervised"}
IsAgent(i) == order[i].by # "human"

Receipt == [intent : Intents \cup {NoIntent}, action : {"open", "close"},
            outcome : {"accepted", "rejected", "reversed"},
            position : Intents \cup {NoIntent}, probe : BOOLEAN]

OpenStages == {"approve", "mission", "gate", "refuse", "place", "settle", "unplaced",
               "attach", "reversed", "accept", "unwind", "unwound"}
CloseStages == {"closeMission", "closed", "notFound"}
Waiting == {"preflight", "quote"}
Ending == {"succeed", "fail"}

ExecutionTypeOK ==
  /\ intent \in [Intents -> [status : {"none", "pending", "succeeded", "failed"}, receipt : BOOLEAN]]
  /\ order \in [Intents -> [action : {"open", "close"}, by : Authority, target : Intents \cup {NoIntent}]]
  /\ approval \in [Intents -> {"none", "approved", "consumed"}]
  /\ mission \in [Intents -> {"none", "held", "committed", "closed", "released", "expired"}]
  /\ budget \in [Intents -> {"none", "held", "committed", "released"}]
  /\ position \in [Intents -> {"none", "open", "closed", "wiped"}]
  /\ cash \in {"balanced", "adrift", "off"}
  /\ receipts \subseteq Receipt
  /\ run \in [at : {"idle"} \cup Waiting \cup OpenStages \cup CloseStages \cup Ending,
              intent : Intents \cup {NoIntent}, receipt : BOOLEAN]
  /\ guard \in [at : {"idle", "add", "mission", "receipt"}, position : Intents \cup {NoIntent}]
  /\ faults \in Nat /\ deaths \in Nat /\ resets \in Nat /\ probes \in Nat
  /\ faults + deaths + resets + probes <= MaxMishaps

NoRun == [at |-> "idle", intent |-> NoIntent, receipt |-> FALSE]
NoGuard == [at |-> "idle", position |-> NoIntent]

ExecutionInit ==
  /\ intent = [i \in Intents |-> [status |-> "none", receipt |-> FALSE]]
  /\ order = [i \in Intents |-> [action |-> "open", by |-> "human", target |-> NoIntent]]
  /\ approval = [i \in Intents |-> "none"]
  /\ mission = [i \in Intents |-> "none"]
  /\ budget = [i \in Intents |-> "none"]
  /\ position = [i \in Intents |-> "none"]
  /\ cash = "balanced"
  /\ receipts = {}
  /\ run = NoRun /\ guard = NoGuard
  /\ faults = 0 /\ deaths = 0 /\ resets = 0 /\ probes = 0

-----------------------------------------------------------------------------
(* Reconciliation                                                          *)

\* buildExecutionReconciliation, the findings it calls critical.  The intent
\* being executed is kept out of the records it compares (`but`).  Positions
\* and journal change together and are one file, so they never disagree.
UnknownOutcome(i) == intent[i].status = "pending"
NoReceipt(i) == intent[i].status \in {"succeeded", "failed"} /\ ~intent[i].receipt
OpenLost(r) ==
  r.action = "open" /\ r.outcome = "accepted" /\ position[r.position] \in {"none", "wiped"}
CloseLost(r) ==
  r.action = "close" /\ r.outcome = "accepted" /\ position[r.position] # "closed"
Duplicate(i) ==
  Cardinality({r \in receipts : r.intent = i /\ r.outcome \in {"accepted", "reversed"}}) > 1

CashMismatch == cash # "balanced"

RecordDamage(but) ==
  \/ \E i \in Intents \ {but} : UnknownOutcome(i) \/ NoReceipt(i)
  \/ \E i \in Intents : Duplicate(i)
  \/ \E r \in receipts : OpenLost(r) \/ CloseLost(r)

\* Mutant: the intent being executed counts against itself.
DamagedBySelf(but) == RecordDamage(NoIntent) \/ CashMismatch

Damaged(but) == RecordDamage(but) \/ CashMismatch

\* protected-receipt-intent-missing, intent-receipt-action-mismatch
Stray(r, but) ==
  r.intent # NoIntent /\
    \/ intent[r.intent].status = "none" \/ r.intent = but
    \/ order[r.intent].action # r.action

Blocked(but) == Damaged(but) \/ \E r \in receipts : Stray(r, but)

-----------------------------------------------------------------------------
(* Steps of a handler                                                      *)

\* The sweep holds the thread but while it waits for a quote; an order holds
\* it but while it waits.
Free == guard.at \in {"idle", "add"}
Idle == Free /\ run.at \in {"idle"} \cup Waiting

MayGoWrong == faults + deaths + resets + probes < MaxMishaps

At(stage, i) == Free /\ run.at = stage /\ run.intent = i
Goto(stage) == run' = [run EXCEPT !.at = stage]

\* writePaperReceipt
Written(i, outcome) ==
  [intent |-> i, action |-> order[i].action, outcome |-> outcome,
   position |-> IF order[i].action = "close" THEN order[i].target
                ELSE IF position[i] = "none" THEN NoIntent ELSE i,
   probe |-> FALSE]
WriteReceipt(i, outcome, stage) ==
  /\ receipts' = receipts \cup {Written(i, outcome)}
  /\ run' = [run EXCEPT !.at = stage, !.receipt = TRUE]
  /\ UNCHANGED faults
LoseReceipt(stage) ==
  /\ MayGoWrong
  /\ faults' = faults + 1
  /\ Goto(stage)
  /\ UNCHANGED receipts

\* The lane takes up an order and runExecutionIntent saves it as pending; a
\* close looks its position up at once.
Begin(i, o) ==
  /\ Idle
  /\ run.at = "idle"
  /\ intent[i].status = "none"
  /\ order' = [order EXCEPT ![i] = o]
  /\ intent' = [intent EXCEPT ![i].status = "pending"]
  /\ run' = [at |-> CASE o.action = "open" -> "preflight"
                      [] o.action = "close" /\ position[o.target] = "open" -> "quote"
                      [] OTHER -> "notFound",
             intent |-> i, receipt |-> FALSE]
  /\ UNCHANGED <<ledgers, receipts, guard, mishaps>>

\* Mutant: reconciliation is not asked.
PreflightAllowsBlindly(i) ==
  /\ At("preflight", i)
  /\ Goto(CASE order[i].by = "supervised" -> "approve"
            [] order[i].by = "mission" -> "mission"
            [] OTHER -> "gate")
  /\ UNCHANGED <<intent, order, ledgers, receipts, guard, mishaps>>

\* enforcePaperPreflightBinding: an agent's open needs a clean reconciliation;
\* anyone's may be refused for reasons not modelled.
PreflightAllows(i) ==
  /\ At("preflight", i)
  /\ IsAgent(i) => ~Blocked(i)
  /\ Goto(CASE order[i].by = "supervised" -> "approve"
            [] order[i].by = "mission" -> "mission"
            [] OTHER -> "gate")
  /\ UNCHANGED <<intent, order, ledgers, receipts, guard, mishaps>>

PreflightDenies(i) ==
  /\ At("preflight", i)
  /\ Goto("refuse")
  /\ UNCHANGED <<intent, order, ledgers, receipts, guard, mishaps>>

\* consumeOwnerApproval
Approve(i) ==
  /\ At("approve", i)
  /\ IF approval[i] = "approved"
     THEN approval' = [approval EXCEPT ![i] = "consumed"] /\ Goto("mission")
     ELSE Goto("refuse") /\ UNCHANGED approval
  /\ UNCHANGED <<intent, order, mission, budget, position, cash, receipts, guard, mishaps>>

\* missionRuntimeGate and reserveMissionTrade, which may refuse.
ReserveMission(i) ==
  /\ At("mission", i)
  /\ \/ mission' = [mission EXCEPT ![i] = "held"] /\ Goto("gate")
     \/ Goto("refuse") /\ UNCHANGED mission
  /\ UNCHANGED <<intent, order, approval, budget, position, cash, receipts, guard, mishaps>>

Freed(m, i) == IF m[i] = "held" THEN [m EXCEPT ![i] = "released"] ELSE m

\* agentSpendGate; a refusal gives the mission its reservation back.
Gate(i) ==
  /\ At("gate", i)
  /\ \/ /\ budget' = IF IsAgent(i) THEN [budget EXCEPT ![i] = "held"] ELSE budget
        /\ Goto("place")
        /\ UNCHANGED mission
     \/ /\ IsAgent(i)
        /\ mission' = Freed(mission, i)
        /\ Goto("refuse")
        /\ UNCHANGED budget
  /\ UNCHANGED <<intent, order, approval, position, cash, receipts, guard, mishaps>>

\* A refusal before the broker is asked: its receipt, then an error.
RefuseOrder(i) ==
  /\ At("refuse", i)
  /\ WriteReceipt(i, "rejected", "fail") \/ LoseReceipt("fail")
  /\ UNCHANGED <<intent, order, ledgers, guard, deaths, resets, probes>>

\* placeOrder fills, or refuses: then the reservations are given back.
Place(i) ==
  /\ At("place", i)
  /\ \/ /\ position' = [position EXCEPT ![i] = "open"]
        /\ Goto("settle")
        /\ UNCHANGED <<mission, budget>>
     \/ /\ budget' = Freed(budget, i)
        /\ mission' = Freed(mission, i)
        /\ Goto("unplaced")
        /\ UNCHANGED position
  /\ UNCHANGED <<intent, order, approval, cash, receipts, guard, mishaps>>

\* placeOrder throws before it has filled anything.
PlaceThrows(i) ==
  /\ At("place", i)
  /\ MayGoWrong
  /\ faults' = faults + 1
  /\ Goto("unwind")
  /\ UNCHANGED <<intent, order, ledgers, receipts, guard, deaths, resets, probes>>

Unplaced(i) ==
  /\ At("unplaced", i)
  /\ WriteReceipt(i, "rejected", "succeed") \/ LoseReceipt("unwind")
  /\ UNCHANGED <<intent, order, ledgers, guard, deaths, resets, probes>>

\* settleAgentSpend(gate, true) after a fill.  Its failing answer needs a
\* reservation that is gone, and none can go since the gate made it.
SettleSpend(i) ==
  /\ At("settle", i)
  /\ budget' = IF budget[i] = "held" THEN [budget EXCEPT ![i] = "committed"] ELSE budget
  /\ Goto(IF OnMission(i) THEN "attach" ELSE "accept")
  /\ UNCHANGED <<intent, order, approval, mission, position, cash, receipts, guard, mishaps>>

\* commitMissionTrade; when its save fails memory has the trade all the same,
\* and the fill is reversed.
Attach(i) ==
  /\ At("attach", i)
  /\ mission' = [mission EXCEPT ![i] = "committed"]
  /\ Goto("accept")
  /\ UNCHANGED <<intent, order, approval, budget, position, cash, receipts, guard, mishaps>>

\* Mutant: the fill is not reversed.
AttachThrowsUnreversed(i) ==
  /\ At("attach", i)
  /\ MayGoWrong
  /\ faults' = faults + 1
  /\ mission' = [mission EXCEPT ![i] = "committed"]
  /\ Goto("reversed")
  /\ UNCHANGED <<intent, order, approval, budget, position, cash, receipts, guard, deaths, resets, probes>>

AttachThrows(i) ==
  /\ At("attach", i)
  /\ MayGoWrong
  /\ faults' = faults + 1
  /\ mission' = [mission EXCEPT ![i] = "committed"]
  /\ position' = [position EXCEPT ![i] = "closed"]
  /\ Goto("reversed")
  /\ UNCHANGED <<intent, order, approval, budget, cash, receipts, guard, deaths, resets, probes>>

Reversed(i) ==
  /\ At("reversed", i)
  /\ WriteReceipt(i, "reversed", "fail") \/ LoseReceipt("unwind")
  /\ UNCHANGED <<intent, order, ledgers, guard, deaths, resets, probes>>

\* The receipt of the fill.  Without it the fill is reversed.
Accept(i) ==
  /\ At("accept", i)
  /\ WriteReceipt(i, "accepted", "succeed")
  /\ UNCHANGED <<intent, order, ledgers, guard, deaths, resets, probes>>

AcceptThrows(i) ==
  /\ At("accept", i)
  /\ LoseReceipt("unwind")
  /\ position' = [position EXCEPT ![i] = "closed"]
  /\ mission' = IF mission[i] = "committed" THEN [mission EXCEPT ![i] = "closed"] ELSE mission
  /\ UNCHANGED <<intent, order, approval, budget, cash, guard, deaths, resets, probes>>

\* The handler's catch, for an error that has no receipt: only what is still
\* held is given back.
Unwind(i) ==
  /\ At("unwind", i)
  /\ budget' = Freed(budget, i)
  /\ mission' = Freed(mission, i)
  /\ Goto("unwound")
  /\ UNCHANGED <<intent, order, approval, position, cash, receipts, guard, mishaps>>

Unwound(i) ==
  /\ At("unwound", i)
  /\ WriteReceipt(i, "rejected", "fail") \/ LoseReceipt("fail")
  /\ UNCHANGED <<intent, order, ledgers, guard, deaths, resets, probes>>

-----------------------------------------------------------------------------

\* What an exit of o, or an add to it, does to the cash.  The journal has the
\* amounts rounded, and the roundings add up or cancel out.  Of a position
\* that was closed meanwhile the amount counts again; of one that was wiped it
\* goes to the account that is no more.
Settles(o) ==
  CASE position[o] = "open" -> cash' \in IF cash = "off" THEN {"off"} ELSE {"balanced", "adrift"}
    [] position[o] = "closed" -> cash' = "off"
    [] OTHER -> cash' = cash

\* closeTrade after its quote.  A position that was closed or wiped while it
\* waited is closed all the same.
CloseFills(i) ==
  LET o == order[i].target
  IN /\ At("quote", i)
     /\ position' = [position EXCEPT ![o] = IF @ = "open" THEN "closed" ELSE @]
     /\ Settles(o)
     /\ Goto("closeMission")
     /\ UNCHANGED <<intent, order, approval, mission, budget, receipts, guard, mishaps>>

\* recordMissionClose
MissionClosed(o) ==
  mission' = IF mission[o] = "committed" THEN [mission EXCEPT ![o] = "closed"] ELSE mission

CloseMission(i) ==
  /\ At("closeMission", i)
  /\ MissionClosed(order[i].target)
  /\ Goto("closed")
  /\ UNCHANGED <<intent, order, approval, budget, position, cash, receipts, guard, mishaps>>

\* A close that cannot write its receipt answers without one.
CloseReceipt(i) ==
  /\ \/ At("closed", i) /\ (WriteReceipt(i, "accepted", "succeed") \/ LoseReceipt("succeed"))
     \/ At("notFound", i) /\ (WriteReceipt(i, "rejected", "succeed") \/ LoseReceipt("fail"))
  /\ UNCHANGED <<intent, order, ledgers, guard, deaths, resets, probes>>

-----------------------------------------------------------------------------

\* Mutant: the outcome is stored under its internal name.
FinishMislabelled(i) ==
  /\ Free
  /\ run.at \in Ending /\ run.intent = i
  /\ intent' = [intent EXCEPT ![i] = [status |-> run.at, receipt |-> run.receipt]]
  /\ run' = NoRun
  /\ UNCHANGED <<order, ledgers, receipts, guard, mishaps>>

\* runExecutionIntent stores the outcome and the lane goes idle.
Finish(i) ==
  /\ Free
  /\ run.at \in Ending /\ run.intent = i
  /\ intent' = [intent EXCEPT ![i] =
       [status |-> IF run.at = "succeed" THEN "succeeded" ELSE "failed", receipt |-> run.receipt]]
  /\ run' = NoRun
  /\ UNCHANGED <<order, ledgers, receipts, guard, mishaps>>

\* The outcome cannot be stored: the intent stays pending.
FinishUnsaved(i) ==
  /\ Free
  /\ run.at \in Ending /\ run.intent = i
  /\ MayGoWrong
  /\ faults' = faults + 1
  /\ run' = NoRun
  /\ UNCHANGED <<intent, order, ledgers, receipts, guard, deaths, resets, probes>>

-----------------------------------------------------------------------------
(* Everybody else                                                          *)

\* The owner decides an approval request for the exact intent.
OwnerApproves(i) ==
  /\ Idle
  /\ "supervised" \in Authorities
  /\ approval[i] = "none"
  /\ intent[i].status = "none" \/ (run.intent = i /\ order[i].by = "supervised")
  /\ approval' = [approval EXCEPT ![i] = "approved"]
  /\ UNCHANGED <<intent, order, mission, budget, position, cash, receipts, run, guard, mishaps>>

\* checkMissionTrade drops a reservation older than its time to live.
MissionExpires(i) ==
  /\ Idle
  /\ run.intent # i
  /\ mission[i] = "held"
  /\ mission' = [mission EXCEPT ![i] = "expired"]
  /\ UNCHANGED <<intent, order, approval, budget, position, cash, receipts, run, guard, mishaps>>

\* A protective or a trailing exit of the sweep, a save at a time.  The sweep
\* takes one position after the other.
GuardianCloses(o) ==
  /\ Idle
  /\ guard.at = "idle"
  /\ position[o] = "open"
  /\ position' = [position EXCEPT ![o] = "closed"]
  /\ Settles(o)
  /\ guard' = [at |-> "mission", position |-> o]
  /\ UNCHANGED <<intent, order, approval, mission, budget, receipts, run, mishaps>>

\* Only a protective exit has a receipt.
GuardianMission ==
  /\ guard.at = "mission"
  /\ MissionClosed(guard.position)
  /\ guard' \in {[guard EXCEPT !.at = "receipt"], NoGuard}
  /\ UNCHANGED <<intent, order, approval, budget, position, cash, receipts, run, mishaps>>

GuardianReceipt ==
  /\ guard.at = "receipt"
  /\ \/ receipts' = receipts \cup
          {[intent |-> NoIntent, action |-> "close", outcome |-> "accepted",
            position |-> guard.position, probe |-> FALSE]}
        /\ UNCHANGED faults
     \/ MayGoWrong /\ faults' = faults + 1 /\ UNCHANGED receipts
  /\ guard' = NoGuard
  /\ UNCHANGED <<intent, order, ledgers, run, deaths, resets, probes>>

\* The sweep averages a position down: addToPosition waits for a quote.
AddBegins(o) ==
  /\ Idle
  /\ guard.at = "idle"
  /\ position[o] = "open"
  /\ guard' = [at |-> "add", position |-> o]
  /\ UNCHANGED <<intent, order, ledgers, receipts, run, mishaps>>

\* It does not look again whether the position is still there; without a
\* price, or enough cash, nothing is added.
AddFills ==
  /\ Idle
  /\ guard.at = "add"
  /\ Settles(guard.position) \/ UNCHANGED cash
  /\ guard' = NoGuard
  /\ UNCHANGED <<intent, order, approval, mission, budget, position, receipts, run, mishaps>>

\* /api/paper/reset: a new account, whose cash is right.
Reset ==
  /\ Idle
  /\ MayGoWrong
  /\ resets' = resets + 1
  /\ position' = [o \in Intents |-> IF position[o] = "none" THEN "none" ELSE "wiped"]
  /\ cash' = "balanced"
  /\ UNCHANGED <<intent, order, approval, mission, budget, receipts, run, guard, faults, deaths, probes>>

\* A key without the trade-paper scope sends an order: no intent is made, but
\* the refusal has a receipt that names the one it was sent with.
Probe(i, action) ==
  /\ Idle
  /\ run.at = "idle"
  /\ MayGoWrong
  /\ probes' = probes + 1
  /\ receipts' = receipts \cup
       {[intent |-> i, action |-> action, outcome |-> "rejected", position |-> NoIntent, probe |-> TRUE]}
  /\ UNCHANGED <<intent, order, ledgers, run, guard, faults, deaths, resets>>

ProcessDies ==
  /\ MayGoWrong
  /\ deaths' = deaths + 1
  /\ run' = NoRun /\ guard' = NoGuard
  /\ UNCHANGED <<intent, order, ledgers, receipts, faults, resets, probes>>

Orders ==
  {[action |-> "open", by |-> a, target |-> NoIntent] : a \in Authorities}
    \cup {[action |-> "close", by |-> "human", target |-> o] :
            o \in {p \in Intents : position[p] # "none"}}

Authorizing(i) ==
  \/ PreflightAllows(i) \/ PreflightDenies(i)
  \/ Approve(i) \/ ReserveMission(i) \/ Gate(i) \/ RefuseOrder(i)
Executing(i) ==
  \/ Place(i) \/ PlaceThrows(i) \/ Unplaced(i)
  \/ SettleSpend(i) \/ Attach(i) \/ AttachThrows(i) \/ Reversed(i)
  \/ Accept(i) \/ AcceptThrows(i) \/ Unwind(i) \/ Unwound(i)
Closing(i) ==
  \/ CloseFills(i) \/ CloseMission(i) \/ CloseReceipt(i)
Others ==
  \/ \E i \in Intents :
       \/ OwnerApproves(i) \/ MissionExpires(i) \/ GuardianCloses(i) \/ AddBegins(i)
       \/ \E action \in {"open", "close"} : Probe(i, action)
  \/ GuardianMission \/ GuardianReceipt \/ AddFills
  \/ Reset \/ ProcessDies

ExecutionNext ==
  \/ \E i \in Intents :
       \/ \E o \in Orders : Begin(i, o)
       \/ Authorizing(i) \/ Executing(i) \/ Closing(i)
       \/ Finish(i) \/ FinishUnsaved(i)
  \/ Others

ExecutionSpec == ExecutionInit /\ [][ExecutionNext]_executionVars

-----------------------------------------------------------------------------
(* Properties                                                              *)

Accepted(o) == \E r \in receipts : r.intent = o /\ r.action = "open" /\ r.outcome = "accepted"

\* What a receipt says is what happened, whatever failed on the way: an
\* accepted open was filled, paid for in the rails and counted by its mission;
\* an accepted close left nothing open; an order whose receipt says it was
\* rejected or reversed has no open position.
ReceiptsAreTrue == \A r \in receipts : ~r.probe =>
  /\ r.action = "open" /\ r.outcome = "accepted" =>
       /\ position[r.intent] # "none"
       /\ IsAgent(r.intent) => budget[r.intent] = "committed"
       /\ OnMission(r.intent) => mission[r.intent] \in {"committed", "closed"}
  /\ r.action = "close" /\ r.outcome = "accepted" =>
       position[r.position] \in {"closed", "wiped"}
  /\ r.action = "open" /\ r.outcome # "accepted" => position[r.intent] # "open"

\* Every open position of an agent is backed: by a reservation or a commitment
\* in the rails, by the owner's consumed approval where the mission asks for
\* one, and by a reservation or a trade of its mission - unless the order was
\* cut off by a crash: its intent stays pending, its reservation may expire.
PositionsAreBacked == \A o \in Intents : position[o] = "open" =>
  /\ IsAgent(o) => budget[o] \in {"held", "committed"}
  /\ order[o].by = "supervised" => approval[o] = "consumed"
  /\ OnMission(o) => mission[o] \in {"held", "committed"} \/ (UnknownOutcome(o) /\ run.intent # o)

\* The records tell the truth both ways: each receipt is true of its order, and
\* each open position is backed by what authorised and paid for it.
RecordsAreTrue == ReceiptsAreTrue /\ PositionsAreBacked

\* Whatever a crash or a failing write leaves half done, reconciliation sees:
\* with no order running, a position without an accepted receipt or a
\* reservation nobody will settle blocks new agent exposure.
HalfDone(o) == (position[o] = "open" /\ ~Accepted(o)) \/ budget[o] = "held"
FailsClosed == run.at = "idle" /\ (\E o \in Intents : HalfDone(o)) => Blocked(NoIntent)

\* And it cries wolf at nothing: without a crash, a failing write, a reset or
\* a stray key, no sequence of orders, refusals, exits and adds raises any
\* finding but that of the cash, and that only while the cash really differs
\* from what the journal says: a close or an add has settled a position that
\* was closed while it waited for its quote, or roundings have added up.
Undisturbed == faults = 0 /\ deaths = 0 /\ resets = 0 /\ probes = 0
Alarm == run.at \in {"idle", "preflight"} /\ Free /\ Blocked(run.intent)
NoFalseAlarm == Undisturbed /\ Alarm => cash # "balanced"

\* Reconciliation blocks what it must and nothing else.
AlarmIsExact == FailsClosed /\ NoFalseAlarm

\* An agent's position is only ever opened while the ledgers reconcile.
ExposureNeedsReconciliation == [][\A o \in Intents :
  position[o] = "none" /\ position'[o] = "open" /\ IsAgent(o) => ~Blocked(o)]_executionVars

\* No automatic repair: nothing the system does by itself, no later order and
\* no reset, which brings the cash right, makes damage that reconciliation has
\* seen look whole again.  Only roundings that have added up may cancel out.
LastingDamage == RecordDamage(run.intent) \/ cash = "off"
DamageStays == [][LastingDamage => LastingDamage']_executionVars

\* Reconciliation guards exposure: nothing opens past it, nothing heals behind it.
ReconciliationGuards == ExposureNeedsReconciliation /\ DamageStays

\* README.md: "limits and Pact budget are reserved before execution and
\* committed only after success".  An order that was reversed, or whose receipt
\* says it was rejected, has spent nothing.  The reversal comes after the commit,
\* so this does not hold (README, Known divergences).
FailureCostsNothing == \A r \in receipts :
  ~r.probe /\ r.action = "open" /\ r.outcome # "accepted" => budget[r.intent] # "committed"
=============================================================================
