-------------------------------- MODULE LiveDesk --------------------------------
(***************************************************************************)
(* Real-money orders: agents propose, the owner approves, one executor    *)
(* places the order on the venue (server.js executeLiveOrder, lib          *)
(* live-proposals.js and live.js). Files are read and written    *)
(* within a step; what a handler does between two awaits is one action.    *)
(*                                                                         *)
(* The venue may refuse a call, or take it and lose its answer, and its    *)
(* orders rest, fill and close when they like. Every rail but the position *)
(* cap is left open: Refuse may be taken for it at any time.               *)
(***************************************************************************)
EXTENDS Integers, FiniteSets

CONSTANTS Proposals,        \* ids of live-proposals.json
          Calls,            \* requests of executeLiveOrder that may be running at a time
          Manual,           \* stands for the proposal of POST /api/trade/live
          Slots,            \* bounds the orders the venue takes
          MaxPositions,     \* LIVE_MAX_POSITIONS
          MaxCrashes        \* bounds the restarts

ASSUME ManualAssumption == Manual \notin Proposals
ASSUME LimitAssumption == MaxPositions \in Nat /\ MaxCrashes \in Nat
ASSUME SlotsAssumption == IsFiniteSet(Slots)

VARIABLES proposal, aged,   \* live-proposals.json; older than the time to live
          live, saved,      \* state.live.enabled, and as accounts.json has it
          call,             \* the running requests
          order,            \* the venue's orders
          kill,             \* disableLive
          orphans, killed,  \* history: see Init
          crashes

desk == <<proposal, aged>>
flag == <<live, saved, killed>>
vars == <<desk, flag, call, order, kill, orphans, crashes>>

Proposal == [status : {"none", "pending", "executing", "approved", "rejected"},
             why : {"", "owner", "expired", "failed"}]         \* of a rejection
NoCall == [at |-> "idle", for |-> Manual, seen |-> 0]
Call == [at : {"idle", "venue", "quotes", "sent", "ok", "failed"},
         for : Proposals \cup {Manual}, seen : Nat]
NoOrder == [for |-> Manual, state |-> "none"]
Order == [for : Proposals \cup {Manual}, state : {"none", "open", "filled", "gone"}]
Idle == [at |-> "idle", left |-> {}]
Kill == [at : {"idle", "list", "cancel"}, left : SUBSET Slots]

Init ==
  /\ proposal = [p \in Proposals |-> [status |-> "none", why |-> ""]]
  /\ aged = {}
  /\ live = FALSE /\ saved = FALSE
  /\ call = [c \in Calls |-> NoCall]
  /\ order = [s \in Slots |-> NoOrder]
  /\ kill = Idle
  /\ orphans = {}                                \* proposals whose request a crash has ended
  /\ killed = "no"                               \* disableLive has answered, and no enableLive since:
                                                 \* in this process ("now") or before a restart
  /\ crashes = 0

Positions == {s \in Slots : order[s].state = "filled"}
Running == {c \in Calls : call[c].at # "idle"}

-----------------------------------------------------------------------------
(* Proposals                                                               *)

AddProposal(p) ==
  /\ proposal[p].status = "none"
  /\ proposal' = [proposal EXCEPT ![p].status = "pending"]

Propose(p) ==
  /\ AddProposal(p)
  /\ UNCHANGED <<aged, flag, call, order, kill, orphans, crashes>>

\* Only claimForExecution asks for the age.
Age(p) ==
  /\ proposal[p].status = "pending" /\ p \notin aged
  /\ aged' = aged \cup {p}
  /\ UNCHANGED <<proposal, flag, call, order, kill, orphans, crashes>>

\* decide, or a rejection by claimForExecution or finalizeExecution within the same step.
Decline(p, why) ==
  /\ proposal[p].status = "pending"
  /\ proposal' = [proposal EXCEPT ![p] = [status |-> "rejected", why |-> why]]
  /\ UNCHANGED <<aged, flag, call, order, kill, orphans, crashes>>

Reject(p) == Decline(p, "owner")

\* claimForExecution finds it invalid; or executeLiveOrder finds live mode off at once.
ApproveExpired(p) == p \in aged /\ Decline(p, "expired")
ApproveOff(p) == p \notin aged /\ ~live /\ Decline(p, "failed")

\* Mutant: claimForExecution does not ask whether someone else has claimed the proposal.
Claimed(p) == proposal[p].status \in {"pending", "executing"} /\ p \notin aged

Claimable(p) == proposal[p].status = "pending" /\ p \notin aged

LiveOn == live

\* Mutant: the lease is taken when the venue has answered.
ApproveLate(c, p) ==
  /\ call[c].at = "idle" /\ Claimable(p) /\ LiveOn
  /\ call' = [call EXCEPT ![c] = [at |-> "venue", for |-> p, seen |-> 0]]
  /\ UNCHANGED <<desk, flag, order, kill, orphans, crashes>>

\* claimForExecution writes the lease; executeLiveOrder begins.
Approve(c, p) ==
  /\ call[c].at = "idle" /\ Claimable(p) /\ LiveOn
  /\ proposal' = [proposal EXCEPT ![p].status = "executing"]
  /\ call' = [call EXCEPT ![c] = [at |-> "venue", for |-> p, seen |-> 0]]
  /\ UNCHANGED <<aged, flag, order, kill, orphans, crashes>>

TradeLive(c) ==
  /\ call[c].at = "idle" /\ LiveOn
  /\ call' = [call EXCEPT ![c] = [at |-> "venue", for |-> Manual, seen |-> 0]]
  /\ UNCHANGED <<desk, flag, order, kill, orphans, crashes>>

-----------------------------------------------------------------------------
(* executeLiveOrder                                                        *)

\* finalizeExecution, and the answer of the request.
Finalize(c, status, why) ==
  /\ call' = [call EXCEPT ![c] = NoCall]
  /\ proposal' = [p \in Proposals |->
       IF p = call[c].for /\ proposal[p].status = "executing" THEN [status |-> status, why |-> why] ELSE proposal[p]]

\* getAccount and getPositions: without the positions' answer there are none.
ReadVenue(c) ==
  /\ call[c].at = "venue"
  /\ \E seen \in {0, Cardinality(Positions)} : call' = [call EXCEPT ![c].at = "quotes", ![c].seen = seen]
  /\ UNCHANGED <<desk, flag, order, kill, orphans, crashes>>

\* checkLiveOrder passes and placeOrder is on its way.
Send(c) ==
  /\ call[c].at = "quotes" /\ call[c].seen < MaxPositions
  /\ call' = [call EXCEPT ![c].at = "sent", ![c].seen = 0]
  /\ UNCHANGED <<desk, flag, order, kill, orphans, crashes>>

\* The venue takes the order, which rests or fills; its answer may be lost.
Accept(c, s) ==
  /\ call[c].at = "sent" /\ order[s].state = "none"
  /\ \E state \in {"open", "filled"} : order' = [order EXCEPT ![s] = [for |-> call[c].for, state |-> state]]
  /\ \E answer \in {"ok", "failed"} : call' = [call EXCEPT ![c].at = answer]
  /\ UNCHANGED <<desk, flag, kill, orphans, crashes>>

Bounce(c) ==
  /\ call[c].at = "sent"
  /\ call' = [call EXCEPT ![c].at = "failed"]
  /\ UNCHANGED <<desk, flag, order, kill, orphans, crashes>>

\* Mutant: an order that failed at the venue is not caught.
RefuseUncaught(c) ==
  /\ call[c].at \in {"venue", "quotes"}
  /\ Finalize(c, "rejected", "failed")
  /\ UNCHANGED <<aged, flag, order, kill, orphans, crashes>>

\* No account, a rail, or placeOrder without an answer.
Refuse(c) ==
  /\ call[c].at \in {"venue", "quotes", "failed"}
  /\ Finalize(c, "rejected", "failed")
  /\ UNCHANGED <<aged, flag, order, kill, orphans, crashes>>

Finish(c) ==
  /\ call[c].at = "ok"
  /\ Finalize(c, "approved", "")
  /\ UNCHANGED <<aged, flag, order, kill, orphans, crashes>>

Serve(c) == ReadVenue(c) \/ Send(c) \/ (\E s \in Slots : Accept(c, s)) \/ Bounce(c) \/ Refuse(c) \/ Finish(c)

\* The venue on its own: an order fills, a position is closed, an order expires.
Trade(s) ==
  /\ \/ order[s].state = "open" /\ order' = [order EXCEPT ![s].state = "filled"]
     \/ order[s].state \in {"open", "filled"} /\ order' = [order EXCEPT ![s].state = "gone"]
  /\ UNCHANGED <<desk, flag, call, kill, orphans, crashes>>

-----------------------------------------------------------------------------
(* Live mode and the kill switch                                           *)

EnableLive ==
  /\ ~live
  /\ live' = TRUE /\ killed' = "no"
  /\ UNCHANGED <<desk, saved, call, order, kill, orphans, crashes>>

\* Any paper trade saves every account; enableLive and disableLive save nothing.
SaveAccounts ==
  /\ saved # live
  /\ saved' = live
  /\ UNCHANGED <<desk, live, killed, call, order, kill, orphans, crashes>>

DisableLive ==
  /\ kill.at = "idle" /\ live
  /\ kill' = [kill EXCEPT !.at = "list"]
  /\ UNCHANGED <<desk, flag, call, order, orphans, crashes>>

\* getOrders, whose failure is an empty list.
ListOrders ==
  /\ kill.at = "list"
  /\ \E left \in {{}, {s \in Slots : order[s].state = "open"}} : kill' = [at |-> "cancel", left |-> left]
  /\ UNCHANGED <<desk, flag, call, order, orphans, crashes>>

\* cancelOrder: the order is gone, or the call has failed; the loop goes on.
CancelOrder(s) ==
  /\ kill.at = "cancel" /\ s \in kill.left
  /\ kill' = [kill EXCEPT !.left = @ \ {s}]
  /\ \/ order[s].state = "open" /\ order' = [order EXCEPT ![s].state = "gone"]
     \/ UNCHANGED order
  /\ UNCHANGED <<desk, flag, call, orphans, crashes>>

\* Mutant: live mode stays on while an order is still open at the venue.
DisableEndsIfCancelled ==
  /\ kill.at = "cancel" /\ kill.left = {}
  /\ kill' = Idle
  /\ live' = (\E s \in Slots : order[s].state = "open") /\ killed' = "now"
  /\ UNCHANGED <<desk, saved, call, order, orphans, crashes>>

\* Whatever the venue has answered.
DisableEnds ==
  /\ kill.at = "cancel" /\ kill.left = {}
  /\ kill' = Idle
  /\ live' = FALSE /\ killed' = "now"
  /\ UNCHANGED <<desk, saved, call, order, orphans, crashes>>

KillStep == ListOrders \/ (\E s \in Slots : CancelOrder(s)) \/ DisableEnds

-----------------------------------------------------------------------------
\* Requests end where they are; of the orders on their way the venue takes those of landed.
Crash(landed) ==
  /\ crashes < MaxCrashes
  /\ crashes' = crashes + 1
  /\ order' = [s \in Slots |->
       IF s \in DOMAIN landed THEN [for |-> call[landed[s]].for, state |-> "open"] ELSE order[s]]
  /\ orphans' = orphans \cup {p \in Proposals : proposal[p].status = "executing"}
  /\ call' = [c \in Calls |-> NoCall]
  /\ kill' = Idle
  /\ live' = saved
  /\ killed' = IF killed = "no" THEN "no" ELSE "before"
  /\ UNCHANGED <<desk, saved>>

Landings ==
  LET free == {s \in Slots : order[s].state = "none"}
      sent == {c \in Calls : call[c].at = "sent"}
  IN  {f \in UNION {[some -> sent] : some \in SUBSET free} : \A s, u \in DOMAIN f : f[s] = f[u] => s = u}

Next ==
  \/ \E p \in Proposals : Propose(p) \/ Age(p) \/ Reject(p) \/ ApproveExpired(p) \/ ApproveOff(p)
  \/ \E c \in Calls : TradeLive(c) \/ Serve(c) \/ \E p \in Proposals : Approve(c, p)
  \/ \E s \in Slots : Trade(s)
  \/ EnableLive \/ SaveAccounts \/ DisableLive \/ KillStep
  \/ \E landed \in Landings : Crash(landed)

\* A call to the venue answers or times out, handlers go on.
Fairness == (\A c \in Calls : WF_vars(Serve(c))) /\ WF_vars(KillStep)
Spec == Init /\ [][Next]_vars /\ Fairness

-----------------------------------------------------------------------------
(* Properties                                                              *)

TypeOK ==
  /\ proposal \in [Proposals -> Proposal] /\ aged \subseteq Proposals
  /\ live \in BOOLEAN /\ saved \in BOOLEAN /\ killed \in {"no", "now", "before"}
  /\ call \in [Calls -> Call]
  /\ order \in [Slots -> Order]
  /\ kill \in Kill
  /\ orphans \subseteq Proposals
  /\ crashes \in 0..MaxCrashes

Busy(c, p) == call[c].at # "idle" /\ call[c].for = p
OrdersOf(p) == {s \in Slots : order[s].state # "none" /\ order[s].for = p}

\* Two approvals, lost answers and restarts never place a proposal's order twice: the
\* execution lease is on disk before the venue is contacted.
OneOrderPerProposal == \A p \in Proposals : \A s, u \in OrdersOf(p) : s = u

\* What the owner reads: approved has its order at the venue; what waits, was declined or has
\* expired has none; what is executing has a request at work, unless a restart has cut it off.
StatusTellsTheTruth ==
  \A p \in Proposals :
    /\ proposal[p].status = "approved" => OrdersOf(p) # {}
    /\ OrdersOf(p) # {} => proposal[p].status \in {"executing", "approved"} \/ proposal[p].why = "failed"
    /\ proposal[p].status = "executing" => p \in orphans \/ \E c \in Calls : Busy(c, p)

\* From the answer of disableLive on, whatever the venue's list and its cancellations came to,
\* no order request begins: what is running runs out.  Only the owner's enableLive or a restart
\* ends that.
KillStopsNewOrders == [][killed = "now" /\ killed' = "now" => Running' \subseteq Running]_vars

\* Approvals are decided, and the kill switch ends.
EveryRequestEnds ==
  /\ \A c \in Calls : call[c].at # "idle" ~> call[c].at = "idle"
  /\ kill.at # "idle" ~> kill.at = "idle"

\* README.md:303: the kill switch disables live mode.  disableLive does not save
\* what it sets, so after a restart this does not hold (README, Known divergences).
KillSwitchHolds == killed # "no" => ~live
=============================================================================
