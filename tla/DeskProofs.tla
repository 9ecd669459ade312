------------------------------- MODULE DeskProofs -------------------------------
(***************************************************************************)
(* Proofs about LiveDesk, where a proposal is served by one request at a   *)
(* time, and at the end about Triggers, which propose to it.               *)
(***************************************************************************)
EXTENDS LiveDesk, Triggers, FiniteSetTheorems, TLAPS

\* What every step keeps: a request at work holds its proposal's lease alone, and the venue has
\* that proposal's order exactly when the request has got that far.
Leases ==
  /\ \A p \in Proposals : proposal[p].why # "" => proposal[p].status = "rejected"
  /\ \A p \in Proposals, c \in Calls : Busy(c, p) => proposal[p].status = "executing"
  /\ \A p \in Proposals : \A c, d \in Calls : Busy(c, p) /\ Busy(d, p) => c = d
  /\ \A p \in Proposals, c \in Calls : Busy(c, p) /\ call[c].at \in {"venue", "quotes", "sent"} => OrdersOf(p) = {}
  /\ \A p \in Proposals, c \in Calls : Busy(c, p) /\ call[c].at = "ok" => OrdersOf(p) # {}

IInv == TypeOK /\ OneOrderPerProposal /\ StatusTellsTheTruth /\ Leases

\* What of the types the steps below need; Proposal, Call and Order stay closed.
Shape ==
  /\ proposal \in [Proposals -> Proposal]
  /\ call \in [Calls -> Call]
  /\ order \in [Slots -> Order]

LEMMA Shapes == TypeOK => Shape
  BY DEF TypeOK, Shape

LEMMA PositionsCount == TypeOK => Cardinality(Positions) \in Nat
  <1>1. Positions \subseteq Slots
    BY DEF Positions
  <1> QED
    BY <1>1, SlotsAssumption, FS_Subset, FS_CardinalityType

\* A step that leaves the proposals, the requests, the orders and the cut off ones alone.
LEMMA Elsewhere ==
  ASSUME IInv, TypeOK', UNCHANGED <<proposal, call, order, orphans>>
  PROVE  IInv'
  <1>1. \A p \in Proposals : OrdersOf(p)' = OrdersOf(p)
    BY DEF OrdersOf
  <1>2. \A p \in Proposals, c \in Calls : Busy(c, p)' <=> Busy(c, p)
    BY DEF Busy
  <1>3. OneOrderPerProposal' /\ StatusTellsTheTruth'
    BY <1>1, <1>2 DEF IInv, OneOrderPerProposal, StatusTellsTheTruth
  <1>4. Leases'
    BY <1>1, <1>2 DEF IInv, Leases
  <1> QED
    BY <1>3, <1>4 DEF IInv

\* A proposal without a request changes hands between agents and the owner.
LEMMA Waiting ==
  ASSUME IInv, NEW p \in Proposals, NEW new \in Proposal,
         proposal[p].status \in {"none", "pending"},
         \/ new.status = "pending" /\ new.why = ""
         \/ new.status = "rejected",
         proposal' = [proposal EXCEPT ![p] = new], TypeOK',
         UNCHANGED <<call, order, orphans>>
  PROVE  IInv'
  <1>0. Shape /\ Shape' /\ OneOrderPerProposal /\ StatusTellsTheTruth /\ Leases /\ TypeOK'
    BY DEF IInv, TypeOK, Shape
  <1> USE <1>0
  <1>1. OrdersOf(p) = {} /\ \A c \in Calls : ~Busy(c, p)
    BY DEF StatusTellsTheTruth, Leases
  <1>2. \A q \in Proposals : q # p => proposal'[q] = proposal[q]
    BY DEF Shape
  <1>3. proposal'[p] = new
    BY DEF Shape
  <1>4. \A q \in Proposals : OrdersOf(q)' = OrdersOf(q)
    BY DEF OrdersOf
  <1>5. \A c \in Calls, q \in Proposals : Busy(c, q)' <=> Busy(c, q)
    BY DEF Busy
  <1>6. OneOrderPerProposal'
    BY <1>4 DEF OneOrderPerProposal
  <1>7. StatusTellsTheTruth'
    <2> SUFFICES ASSUME NEW q \in Proposals
                 PROVE  /\ proposal'[q].status = "approved" => OrdersOf(q)' # {}
                        /\ OrdersOf(q)' # {} => proposal'[q].status \in {"executing", "approved"} \/ proposal'[q].why = "failed"
                        /\ proposal'[q].status = "executing" => q \in orphans' \/ \E c \in Calls : Busy(c, q)'
      BY DEF StatusTellsTheTruth
    <2>1. CASE q = p
      BY <2>1, <1>1, <1>3, <1>4
    <2>2. CASE q # p
      BY <2>2, <1>2, <1>4, <1>5 DEF StatusTellsTheTruth
    <2> QED
      BY <2>1, <2>2
  <1>8. Leases'
    BY <1>1, <1>2, <1>3, <1>4, <1>5 DEF Leases
  <1> QED
    BY <1>6, <1>7, <1>8 DEF IInv

\* A request moves on and leaves the proposals and the orders alone.
LEMMA Moves ==
  ASSUME IInv, NEW c \in Calls, NEW new \in Call, call[c].at # "idle",
         new.for = call[c].for,
         \/ new.at = "failed"
         \/ new.at \in {"quotes", "sent"} /\ call[c].at \in {"venue", "quotes"},
         call' = [call EXCEPT ![c] = new], TypeOK',
         UNCHANGED <<proposal, order, orphans>>
  PROVE  IInv'
  <1>0. Shape /\ Shape' /\ OneOrderPerProposal /\ StatusTellsTheTruth /\ Leases /\ TypeOK'
    BY DEF IInv, TypeOK, Shape
  <1> USE <1>0
  <1>1. \A d \in Calls, p \in Proposals : Busy(d, p)' <=> Busy(d, p)
    BY DEF Busy
  <1>2. \A p \in Proposals : OrdersOf(p)' = OrdersOf(p)
    BY DEF OrdersOf
  <1>3. OneOrderPerProposal' /\ StatusTellsTheTruth'
    BY <1>1, <1>2 DEF OneOrderPerProposal, StatusTellsTheTruth, Busy
  <1>4. call'[c] = new /\ \A d \in Calls : d # c => call'[d] = call[d]
    BY DEF Shape
  <1>5. \A p \in Proposals, d \in Calls : Busy(d, p) /\ call'[d].at \in {"venue", "quotes", "sent"} => OrdersOf(p) = {}
    BY <1>4 DEF Leases
  <1>6. \A p \in Proposals, d \in Calls : Busy(d, p) /\ call'[d].at = "ok" => OrdersOf(p) # {}
    BY <1>4 DEF Leases
  <1>7. Leases'
    BY <1>1, <1>2, <1>5, <1>6 DEF Leases
  <1> QED
    BY <1>3, <1>7 DEF IInv

\* A request begins, for a waiting proposal whose lease it writes or for none.
LEMMA Begins ==
  ASSUME IInv, NEW c \in Calls, NEW p \in Proposals \cup {Manual},
         call[c].at = "idle",
         p \in Proposals => proposal[p].status = "pending",
         proposal' = [q \in Proposals |-> IF q = p THEN [proposal[q] EXCEPT !.status = "executing"] ELSE proposal[q]],
         call' = [call EXCEPT ![c] = [at |-> "venue", for |-> p, seen |-> 0]], TypeOK',
         UNCHANGED <<order, orphans>>
  PROVE  IInv'
  <1>0. Shape /\ Shape' /\ OneOrderPerProposal /\ StatusTellsTheTruth /\ Leases /\ TypeOK'
    BY DEF IInv, TypeOK, Shape
  <1> USE <1>0
  <1>1. \A q \in Proposals : OrdersOf(q)' = OrdersOf(q)
    BY DEF OrdersOf
  <1>2. \A d \in Calls, q \in Proposals : Busy(d, q)' <=> IF d = c THEN q = p ELSE Busy(d, q)
    BY DEF Busy, Shape
  <1>3. \A q \in Proposals : q # p => proposal'[q] = proposal[q]
    OBVIOUS
  <1>4. p \in Proposals => /\ proposal'[p].status = "executing" /\ proposal'[p].why = ""
                           /\ OrdersOf(p) = {} /\ \A d \in Calls : ~Busy(d, p)
    <2> SUFFICES ASSUME p \in Proposals
                 PROVE  /\ proposal'[p].status = "executing" /\ proposal'[p].why = ""
                        /\ OrdersOf(p) = {} /\ \A d \in Calls : ~Busy(d, p)
      OBVIOUS
    <2>1. proposal[p].why = "" /\ OrdersOf(p) = {} /\ \A d \in Calls : ~Busy(d, p)
      BY DEF StatusTellsTheTruth, Leases
    <2>2. proposal[p] \in Proposal /\ proposal'[p] = [proposal[p] EXCEPT !.status = "executing"]
      BY DEF Shape
    <2> QED
      BY <2>1, <2>2 DEF Proposal
  <1>5. \A q \in Proposals : ~Busy(c, q)
    BY DEF Busy
  <1>6. OneOrderPerProposal'
    BY <1>1 DEF OneOrderPerProposal
  <1>7. StatusTellsTheTruth'
    <2> SUFFICES ASSUME NEW q \in Proposals
                 PROVE  /\ proposal'[q].status = "approved" => OrdersOf(q)' # {}
                        /\ OrdersOf(q)' # {} => proposal'[q].status \in {"executing", "approved"} \/ proposal'[q].why = "failed"
                        /\ proposal'[q].status = "executing" => q \in orphans' \/ \E d \in Calls : Busy(d, q)'
      BY DEF StatusTellsTheTruth
    <2>1. CASE q = p
      BY <2>1, <1>1, <1>2, <1>4
    <2>2. CASE q # p
      BY <2>2, <1>1, <1>2, <1>3, <1>5 DEF StatusTellsTheTruth
    <2> QED
      BY <2>1, <2>2
  <1>8. call'[c].at = "venue" /\ \A d \in Calls : d # c => call'[d] = call[d]
    BY DEF Shape
  <1>9. \A q \in Proposals, d \in Calls : Busy(d, q)' /\ call'[d].at \in {"venue", "quotes", "sent"} => OrdersOf(q)' = {}
    <2>1. \A q \in Proposals : Busy(c, q)' => q = p /\ p \in Proposals
      BY <1>2
    <2>2. \A q \in Proposals, d \in Calls : d # c /\ Busy(d, q)' /\ call'[d].at \in {"venue", "quotes", "sent"} => OrdersOf(q) = {}
      BY <1>2, <1>8 DEF Leases
    <2> QED
      BY <2>1, <2>2, <1>1, <1>4
  <1>10. Leases'
    <2>1. \A q \in Proposals : proposal'[q].why # "" => proposal'[q].status = "rejected"
      BY <1>3, <1>4 DEF Leases
    <2>2. \A q \in Proposals, d \in Calls : Busy(d, q)' => proposal'[q].status = "executing"
      BY <1>2, <1>3, <1>4 DEF Leases
    <2>3. \A q \in Proposals : \A d, e \in Calls : Busy(d, q)' /\ Busy(e, q)' => d = e
      BY <1>2, <1>4 DEF Leases
    <2>4. \A q \in Proposals, d \in Calls : Busy(d, q)' /\ call'[d].at = "ok" => OrdersOf(q)' # {}
      BY <1>1, <1>2, <1>8 DEF Leases
    <2> QED
      BY <1>9, <2>1, <2>2, <2>3, <2>4 DEF Leases
  <1> QED
    BY <1>6, <1>7, <1>10 DEF IInv

\* The answer of a request.
LEMMA Ends ==
  ASSUME IInv, NEW c \in Calls, call[c].at # "idle",
         \/ Finalize(c, "rejected", "failed")
         \/ Finalize(c, "approved", "") /\ call[c].at = "ok",
         TypeOK', UNCHANGED <<order, orphans>>
  PROVE  IInv'
  <1>0. Shape /\ Shape' /\ OneOrderPerProposal /\ StatusTellsTheTruth /\ Leases /\ TypeOK'
    BY DEF IInv, TypeOK, Shape
  <1> USE <1>0
  <1>1. \A q \in Proposals : OrdersOf(q)' = OrdersOf(q)
    BY DEF OrdersOf
  <1>2. call' = [call EXCEPT ![c] = NoCall]
    BY DEF Finalize
  <1>3. \A d \in Calls, q \in Proposals : Busy(d, q)' <=> d # c /\ Busy(d, q)
    BY <1>2 DEF Busy, Shape, NoCall
  <1>4. \A q \in Proposals : ~Busy(c, q) => proposal'[q] = proposal[q]
    BY DEF Finalize, Busy
  <1>5. \A q \in Proposals : Busy(c, q) =>
           \/ proposal'[q].status = "rejected" /\ proposal'[q].why = "failed"
           \/ proposal'[q].status = "approved" /\ proposal'[q].why = "" /\ OrdersOf(q) # {}
    <2> SUFFICES ASSUME NEW q \in Proposals, Busy(c, q)
                 PROVE  \/ proposal'[q].status = "rejected" /\ proposal'[q].why = "failed"
                        \/ proposal'[q].status = "approved" /\ proposal'[q].why = "" /\ OrdersOf(q) # {}
      OBVIOUS
    <2>1. q = call[c].for /\ proposal[q].status = "executing" /\ (call[c].at = "ok" => OrdersOf(q) # {})
      BY DEF Busy, Leases
    <2>2. CASE Finalize(c, "rejected", "failed")
      BY <2>1, <2>2 DEF Finalize
    <2>3. CASE Finalize(c, "approved", "") /\ call[c].at = "ok"
      BY <2>1, <2>3 DEF Finalize
    <2> QED
      BY <2>2, <2>3
  <1>6. \A q \in Proposals, d \in Calls : Busy(c, q) /\ d # c => ~Busy(d, q)
    BY DEF Leases
  <1>7. OneOrderPerProposal'
    BY <1>1 DEF OneOrderPerProposal
  <1>8. StatusTellsTheTruth'
    <2> SUFFICES ASSUME NEW q \in Proposals
                 PROVE  /\ proposal'[q].status = "approved" => OrdersOf(q)' # {}
                        /\ OrdersOf(q)' # {} => proposal'[q].status \in {"executing", "approved"} \/ proposal'[q].why = "failed"
                        /\ proposal'[q].status = "executing" => q \in orphans' \/ \E d \in Calls : Busy(d, q)'
      BY DEF StatusTellsTheTruth
    <2>1. CASE Busy(c, q)
      BY <2>1, <1>1, <1>5
    <2>2. CASE ~Busy(c, q)
      BY <2>2, <1>1, <1>3, <1>4 DEF StatusTellsTheTruth
    <2> QED
      BY <2>1, <2>2
  <1>9. \A d \in Calls : d # c => call'[d] = call[d]
    BY <1>2 DEF Shape
  <1>10. \A q \in Proposals, d \in Calls : Busy(d, q)' => d # c /\ Busy(d, q) /\ proposal'[q] = proposal[q] /\ call'[d] = call[d]
    BY <1>3, <1>4, <1>6, <1>9
  <1>11. Leases'
    <2>1. \A q \in Proposals : proposal'[q].why # "" => proposal'[q].status = "rejected"
      BY <1>4, <1>5 DEF Leases
    <2>2. \A q \in Proposals, d \in Calls : Busy(d, q)' => proposal'[q].status = "executing"
      BY <1>10 DEF Leases
    <2>3. \A q \in Proposals : \A d, e \in Calls : Busy(d, q)' /\ Busy(e, q)' => d = e
      BY <1>10 DEF Leases
    <2>4. \A q \in Proposals, d \in Calls : Busy(d, q)' /\ call'[d].at \in {"venue", "quotes", "sent"} => OrdersOf(q)' = {}
      BY <1>1, <1>10 DEF Leases
    <2>5. ASSUME NEW q \in Proposals, NEW d \in Calls, Busy(d, q)', call'[d].at = "ok"
          PROVE  OrdersOf(q)' # {}
      <3>1. Busy(d, q) /\ call[d].at = "ok"
        BY <2>5, <1>10
      <3>2. OrdersOf(q) # {}
        BY <3>1 DEF Leases
      <3> QED
        BY <3>2, <1>1
    <2> QED
      BY <2>1, <2>2, <2>3, <2>4, <2>5 DEF Leases
  <1> QED
    BY <1>7, <1>8, <1>11 DEF IInv

\* The venue takes the orders of some of the sent requests, each in a slot of its own.
LEMMA Lands ==
  ASSUME TypeOK, NEW c \in Calls, NEW s \in Slots, NEW state \in {"open", "filled"},
         order[s].state = "none",
         order' = [order EXCEPT ![s] = [for |-> call[c].for, state |-> state]]
  PROVE  \A q \in Proposals : OrdersOf(q)' = IF q = call[c].for THEN OrdersOf(q) \cup {s} ELSE OrdersOf(q)
  BY DEF TypeOK, OrdersOf

LEMMA AcceptKeeps ==
  ASSUME IInv, NEW c \in Calls, NEW s \in Slots, Accept(c, s), TypeOK'
  PROVE  IInv'
  <1>0. Shape /\ Shape' /\ OneOrderPerProposal /\ StatusTellsTheTruth /\ Leases /\ TypeOK'
    BY DEF IInv, TypeOK, Shape
  <1> USE <1>0
  <1> DEFINE for == call[c].for
  <1>1. PICK state \in {"open", "filled"} : order' = [order EXCEPT ![s] = [for |-> for, state |-> state]]
    BY DEF Accept
  <1>2. PICK answer \in {"ok", "failed"} : call' = [call EXCEPT ![c].at = answer]
    BY DEF Accept
  <1>3. call[c].at = "sent" /\ order[s].state = "none" /\ UNCHANGED <<proposal, orphans>>
    BY DEF Accept, desk
  <1>4. \A q \in Proposals : OrdersOf(q)' = IF q = for THEN OrdersOf(q) \cup {s} ELSE OrdersOf(q)
    BY <1>1, <1>3, Lands DEF IInv
  <1>5. for \in Proposals => Busy(c, for) /\ OrdersOf(for) = {} /\ proposal[for].status = "executing"
    BY <1>3 DEF Busy, Leases
  <1>6. \A d \in Calls, q \in Proposals : Busy(d, q)' <=> Busy(d, q)
    BY <1>2, <1>3 DEF Busy
  <1>7. \A d \in Calls : d # c => call'[d] = call[d]
    BY <1>2
  <1>8. call'[c].at \in {"ok", "failed"} /\ call'[c].for = for
    <2>1. call[c] \in Call /\ call'[c] = [call[c] EXCEPT !.at = answer]
      BY <1>2 DEF Shape
    <2> QED
      BY <2>1 DEF Call
  <1>9. OneOrderPerProposal'
    BY <1>4, <1>5 DEF OneOrderPerProposal
  <1>10. StatusTellsTheTruth'
    BY <1>3, <1>4, <1>5, <1>6 DEF StatusTellsTheTruth
  <1>11. \A q \in Proposals, d \in Calls : Busy(d, q) /\ d # c => q # for
    BY <1>5 DEF Leases
  <1>12. Leases'
    <2>1. \A q \in Proposals, d \in Calls : Busy(d, q)' /\ call'[d].at \in {"venue", "quotes", "sent"} => OrdersOf(q)' = {}
      BY <1>4, <1>6, <1>7, <1>8, <1>11 DEF Leases
    <2>2. \A q \in Proposals, d \in Calls : Busy(d, q)' /\ call'[d].at = "ok" => OrdersOf(q)' # {}
      <3> SUFFICES ASSUME NEW q \in Proposals, NEW d \in Calls, Busy(d, q)', call'[d].at = "ok"
                   PROVE  OrdersOf(q)' # {}
        OBVIOUS
      <3>1. CASE d = c
        BY <3>1, <1>4, <1>8 DEF Busy
      <3>2. CASE d # c
        BY <3>2, <1>4, <1>6, <1>7, <1>11 DEF Leases
      <3> QED
        BY <3>1, <3>2
    <2> QED
      BY <1>3, <1>6, <2>1, <2>2 DEF Leases
  <1> QED
    BY <1>9, <1>10, <1>12 DEF IInv

\* Whatever the venue does with an order it has, the proposal's orders are the same ones.
LEMMA OrdersMove ==
  ASSUME IInv, NEW s \in Slots, NEW state \in {"filled", "gone"}, order[s].state # "none",
         order' = [order EXCEPT ![s].state = state], TypeOK', UNCHANGED <<proposal, call, orphans>>
  PROVE  IInv'
  <1>1. \A q \in Proposals : OrdersOf(q)' = OrdersOf(q)
    BY DEF IInv, TypeOK, OrdersOf
  <1>2. \A p \in Proposals, c \in Calls : Busy(c, p)' <=> Busy(c, p)
    BY DEF Busy
  <1>3. OneOrderPerProposal' /\ StatusTellsTheTruth'
    BY <1>1, <1>2 DEF IInv, OneOrderPerProposal, StatusTellsTheTruth
  <1>4. Leases'
    BY <1>1, <1>2 DEF IInv, Leases
  <1> QED
    BY <1>3, <1>4 DEF IInv

LEMMA CrashKeeps ==
  ASSUME IInv, NEW landed \in Landings, Crash(landed), TypeOK'
  PROVE  IInv'
  <1>0. Shape /\ Shape' /\ OneOrderPerProposal /\ StatusTellsTheTruth /\ Leases /\ TypeOK'
    BY DEF IInv, TypeOK, Shape
  <1> USE <1>0
  <1>1. PICK some \in SUBSET {s \in Slots : order[s].state = "none"} :
          /\ landed \in [some -> {c \in Calls : call[c].at = "sent"}]
          /\ \A s, u \in some : landed[s] = landed[u] => s = u
    BY DEF Landings
  <1>2. UNCHANGED proposal /\ call' = [c \in Calls |-> NoCall]
    BY DEF Crash, desk
  <1>3. order' = [s \in Slots |-> IF s \in some THEN [for |-> call[landed[s]].for, state |-> "open"] ELSE order[s]]
    BY <1>1 DEF Crash
  <1>4. \A q \in Proposals : OrdersOf(q)' = OrdersOf(q) \cup {s \in some : call[landed[s]].for = q}
    BY <1>1, <1>3 DEF OrdersOf
  <1>5. \A q \in Proposals : \A s \in some : call[landed[s]].for = q => Busy(landed[s], q) /\ OrdersOf(q) = {} /\ proposal[q].status = "executing"
    BY <1>1 DEF Busy, Leases
  <1>6. \A q \in Proposals : \A s, u \in some : call[landed[s]].for = q /\ call[landed[u]].for = q => s = u
    <2> SUFFICES ASSUME NEW q \in Proposals, NEW s \in some, NEW u \in some, Busy(landed[s], q), Busy(landed[u], q)
                 PROVE  s = u
      BY <1>5
    <2>1. landed[s] \in Calls /\ landed[u] \in Calls
      BY <1>1
    <2>2. landed[s] = landed[u]
      BY <2>1 DEF Leases
    <2> QED
      BY <2>2, <1>1
  <1>7. \A c \in Calls, q \in Proposals : ~Busy(c, q)'
    BY <1>2 DEF Busy, NoCall
  <1>8. \A q \in Proposals : proposal[q].status = "executing" => q \in orphans'
    BY DEF Crash
  <1>9. OneOrderPerProposal'
    BY <1>4, <1>5, <1>6 DEF OneOrderPerProposal
  <1>10. StatusTellsTheTruth'
    BY <1>2, <1>4, <1>5, <1>8 DEF StatusTellsTheTruth
  <1>11. Leases'
    BY <1>2, <1>7 DEF Leases
  <1> QED
    BY <1>9, <1>10, <1>11 DEF IInv

-----------------------------------------------------------------------------
\* A field of a record of one of the functions is set.
LEMMA SetProposal ==
  ASSUME TypeOK, NEW p \in Proposals, NEW new \in Proposal
  PROVE  [proposal EXCEPT ![p] = new] \in [Proposals -> Proposal]
  BY DEF TypeOK

LEMMA SetCall ==
  ASSUME TypeOK, NEW c \in Calls, NEW new \in Call
  PROVE  [call EXCEPT ![c] = new] \in [Calls -> Call]
  BY DEF TypeOK

LEMMA SetOrder ==
  ASSUME TypeOK, NEW s \in Slots, NEW new \in Order
  PROVE  [order EXCEPT ![s] = new] \in [Slots -> Order]
  BY DEF TypeOK

LEMMA Fields ==
  ASSUME TypeOK
  PROVE  /\ \A p \in Proposals : proposal[p] \in Proposal
         /\ \A c \in Calls : call[c] \in Call /\ call[c].for \in Proposals \cup {Manual} /\ call[c].seen \in Nat
         /\ \A s \in Slots : order[s] \in Order /\ order[s].for \in Proposals \cup {Manual}
  <1>1. /\ \A p \in Proposals : proposal[p] \in Proposal
        /\ \A c \in Calls : call[c] \in Call
        /\ \A s \in Slots : order[s] \in Order
    BY DEF TypeOK
  <1> QED
    BY <1>1 DEF Call, Order

LEMMA NewRecords ==
  /\ \A r \in Proposal : /\ [r EXCEPT !.status = "pending"] \in Proposal
                         /\ [r EXCEPT !.status = "executing"] \in Proposal
  /\ \A status \in {"approved", "rejected"}, why \in {"", "owner", "expired", "failed"} :
       [status |-> status, why |-> why] \in Proposal
  /\ NoCall \in Call
  /\ \A p \in Proposals \cup {Manual} : [at |-> "venue", for |-> p, seen |-> 0] \in Call
  /\ \A r \in Call, seen \in Nat : [r EXCEPT !.at = "quotes", !.seen = seen] \in Call
  /\ \A r \in Call : [r EXCEPT !.at = "sent", !.seen = 0] \in Call
  /\ \A r \in Call, at \in {"ok", "failed"} : [r EXCEPT !.at = at] \in Call
  /\ \A p \in Proposals \cup {Manual}, state \in {"open", "filled"} : [for |-> p, state |-> state] \in Order
  /\ \A r \in Order, state \in {"filled", "gone"} : [r EXCEPT !.state = state] \in Order
  BY DEF Proposal, Call, Order, NoCall

\* The actions' updates with whole records.
LEMMA Updates ==
  ASSUME TypeOK
  PROVE  /\ \A p \in Proposals : [proposal EXCEPT ![p].status = "pending"] = [proposal EXCEPT ![p] = [proposal[p] EXCEPT !.status = "pending"]]
         /\ \A p \in Proposals : [proposal EXCEPT ![p].status = "executing"] = [proposal EXCEPT ![p] = [proposal[p] EXCEPT !.status = "executing"]]
         /\ \A c \in Calls, seen \in Nat : [call EXCEPT ![c].at = "quotes", ![c].seen = seen] = [call EXCEPT ![c] = [call[c] EXCEPT !.at = "quotes", !.seen = seen]]
         /\ \A c \in Calls : [call EXCEPT ![c].at = "sent", ![c].seen = 0] = [call EXCEPT ![c] = [call[c] EXCEPT !.at = "sent", !.seen = 0]]
         /\ \A c \in Calls, at \in {"ok", "failed"} : [call EXCEPT ![c].at = at] = [call EXCEPT ![c] = [call[c] EXCEPT !.at = at]]
         /\ \A s \in Slots, state \in {"filled", "gone"} : [order EXCEPT ![s].state = state] = [order EXCEPT ![s] = [order[s] EXCEPT !.state = state]]
  BY DEF TypeOK

LEMMA Moved ==
  ASSUME TypeOK, NEW s \in Slots, NEW state \in {"filled", "gone"}
  PROVE  [order EXCEPT ![s].state = state] \in [Slots -> Order]
  <1>1. [order[s] EXCEPT !.state = state] \in Order
    BY Fields, NewRecords
  <1> QED
    BY <1>1, SetOrder, Updates

LEMMA TypesKept == IInv /\ [Next]_vars => TypeOK'
  <1> SUFFICES ASSUME TypeOK, [Next]_vars
               PROVE  TypeOK'
    BY DEF IInv
  <1> USE DEF desk, flag
  <1>1. ASSUME NEW p \in Proposals, Propose(p)
        PROVE  TypeOK'
    <2>1. proposal' \in [Proposals -> Proposal]
      BY <1>1, SetProposal, Fields, NewRecords, Updates DEF Propose, AddProposal
    <2> QED
      BY <1>1, <2>1 DEF Propose, TypeOK
  <1>2. ASSUME NEW p \in Proposals, Age(p)
        PROVE  TypeOK'
    BY <1>2 DEF Age, TypeOK
  <1>3. ASSUME NEW p \in Proposals, Reject(p) \/ ApproveExpired(p) \/ ApproveOff(p)
        PROVE  TypeOK'
    <2>1. PICK why \in {"owner", "expired", "failed"} : Decline(p, why)
      BY <1>3 DEF Reject, ApproveExpired, ApproveOff
    <2>2. proposal' \in [Proposals -> Proposal]
      BY <2>1, SetProposal, NewRecords DEF Decline
    <2> QED
      BY <2>1, <2>2 DEF Decline, TypeOK
  <1>4. ASSUME NEW c \in Calls, NEW p \in Proposals, Approve(c, p)
        PROVE  TypeOK'
    <2>1. proposal' \in [Proposals -> Proposal]
      BY <1>4, SetProposal, Fields, NewRecords, Updates DEF Approve
    <2>2. call' \in [Calls -> Call]
      BY <1>4, SetCall, NewRecords DEF Approve
    <2> QED
      BY <1>4, <2>1, <2>2 DEF Approve, TypeOK
  <1>5. ASSUME NEW c \in Calls, TradeLive(c)
        PROVE  TypeOK'
    <2>1. call' \in [Calls -> Call]
      BY <1>5, SetCall, NewRecords DEF TradeLive
    <2> QED
      BY <1>5, <2>1 DEF TradeLive, TypeOK
  <1>6. ASSUME NEW c \in Calls, ReadVenue(c)
        PROVE  TypeOK'
    <2>1. Cardinality(Positions) \in Nat
      BY PositionsCount
    <2>2. PICK seen \in Nat : call' = [call EXCEPT ![c].at = "quotes", ![c].seen = seen]
      BY <2>1, <1>6 DEF ReadVenue
    <2>3. call' \in [Calls -> Call]
      BY <2>2, SetCall, Fields, NewRecords, Updates
    <2> QED
      BY <2>3, <1>6 DEF ReadVenue, TypeOK
  <1>7. ASSUME NEW c \in Calls, Send(c) \/ Bounce(c)
        PROVE  TypeOK'
    <2>1. PICK new \in Call : call' = [call EXCEPT ![c] = new]
      <3>1. CASE Send(c)
        BY <3>1, Fields, NewRecords, Updates DEF Send
      <3>2. CASE Bounce(c)
        BY <3>2, Fields, NewRecords, Updates DEF Bounce
      <3> QED
        BY <3>1, <3>2, <1>7
    <2>2. call' \in [Calls -> Call]
      BY <2>1, SetCall
    <2> QED
      BY <1>7, <2>2 DEF Send, Bounce, TypeOK
  <1>8. ASSUME NEW c \in Calls, NEW s \in Slots, Accept(c, s)
        PROVE  TypeOK'
    <2>1. call' \in [Calls -> Call]
      <3>1. PICK answer \in {"ok", "failed"} : call' = [call EXCEPT ![c].at = answer]
        BY <1>8 DEF Accept
      <3>2. [call[c] EXCEPT !.at = answer] \in Call
        BY Fields, NewRecords
      <3> QED
        BY <3>1, <3>2, SetCall, Updates
    <2>2. order' \in [Slots -> Order]
      <3>1. PICK state \in {"open", "filled"} : order' = [order EXCEPT ![s] = [for |-> call[c].for, state |-> state]]
        BY <1>8 DEF Accept
      <3>2. [for |-> call[c].for, state |-> state] \in Order
        BY Fields, NewRecords
      <3> QED
        BY <3>1, <3>2, SetOrder
    <2> QED
      BY <1>8, <2>1, <2>2 DEF Accept, TypeOK
  <1>9. ASSUME NEW c \in Calls, Refuse(c) \/ Finish(c)
        PROVE  TypeOK'
    <2>1. PICK status \in {"approved", "rejected"}, why \in {"", "failed"} : Finalize(c, status, why)
      BY <1>9 DEF Refuse, Finish
    <2>2. call' \in [Calls -> Call]
      BY <2>1, SetCall, NewRecords DEF Finalize
    <2>3. [status |-> status, why |-> why] \in Proposal
      BY NewRecords
    <2>4. proposal' \in [Proposals -> Proposal]
      BY <2>1, <2>3, Fields DEF Finalize
    <2> QED
      BY <1>9, <2>2, <2>4 DEF Refuse, Finish, TypeOK
  <1>10. ASSUME NEW s \in Slots, Trade(s)
         PROVE  TypeOK'
    <2>1. order' \in [Slots -> Order]
      BY <1>10, Moved DEF Trade
    <2> QED
      BY <1>10, <2>1 DEF Trade, TypeOK
  <1>11. CASE EnableLive \/ SaveAccounts
    BY <1>11 DEF EnableLive, SaveAccounts, TypeOK
  <1>12. CASE DisableLive \/ ListOrders \/ DisableEnds
    <2>1. kill' \in Kill
      BY <1>12 DEF DisableLive, ListOrders, DisableEnds, Kill, Idle, TypeOK
    <2> QED
      BY <1>12, <2>1 DEF DisableLive, ListOrders, DisableEnds, TypeOK
  <1>13. ASSUME NEW s \in Slots, CancelOrder(s)
         PROVE  TypeOK'
    <2>1. kill' \in Kill
      BY <1>13 DEF CancelOrder, Kill, TypeOK
    <2>2. order' \in [Slots -> Order]
      BY <1>13, Moved DEF CancelOrder, TypeOK
    <2> QED
      BY <1>13, <2>1, <2>2 DEF CancelOrder, TypeOK
  <1>14. ASSUME NEW landed \in Landings, Crash(landed)
         PROVE  TypeOK'
    <2>1. PICK some \in SUBSET Slots : landed \in [some -> Calls]
      BY DEF Landings
    <2>2. \A s \in some : [for |-> call[landed[s]].for, state |-> "open"] \in Order
      BY <2>1, Fields, NewRecords
    <2>3. order' \in [Slots -> Order]
      BY <2>1, <2>2, <1>14, Fields DEF Crash
    <2>4. crashes' \in 0..MaxCrashes
      BY <1>14, LimitAssumption DEF Crash, TypeOK
    <2>5. call' \in [Calls -> Call] /\ kill' \in Kill
      BY <1>14, NewRecords DEF Crash, Idle, Kill
    <2> QED
      BY <2>3, <2>4, <2>5, <1>14 DEF Crash, TypeOK
  <1>15. CASE UNCHANGED vars
    BY <1>15 DEF vars, TypeOK
  <1> QED
    BY <1>1, <1>2, <1>3, <1>4, <1>5, <1>6, <1>7, <1>8, <1>9, <1>10, <1>11, <1>12, <1>13, <1>14, <1>15
       DEF Next, Serve, KillStep

LEMMA StartsInv == Init => IInv
  <1> SUFFICES ASSUME Init
               PROVE  IInv
    OBVIOUS
  <1>1. TypeOK
    <2>1. [status |-> "none", why |-> ""] \in Proposal /\ NoCall \in Call /\ NoOrder \in Order /\ Idle \in Kill
      BY DEF Proposal, Call, NoCall, Order, NoOrder, Kill, Idle
    <2>2. /\ proposal \in [Proposals -> Proposal]
          /\ call \in [Calls -> Call]
          /\ order \in [Slots -> Order]
          /\ kill \in Kill
      BY <2>1 DEF Init
    <2>3. crashes \in 0..MaxCrashes
      <3>1. crashes = 0 /\ MaxCrashes \in Nat
        BY LimitAssumption DEF Init
      <3> QED
        BY <3>1
    <2> QED
      BY <2>2, <2>3 DEF Init, TypeOK
  <1>2. \A p \in Proposals : OrdersOf(p) = {} /\ \A c \in Calls : ~Busy(c, p)
    BY DEF Init, OrdersOf, Busy, NoOrder, NoCall
  <1>3. \A p \in Proposals : proposal[p].status = "none" /\ proposal[p].why = ""
    BY DEF Init
  <1> QED
    BY <1>1, <1>2, <1>3 DEF IInv, OneOrderPerProposal, StatusTellsTheTruth, Leases

LEMMA StepInv == IInv /\ [Next]_vars => IInv'
  <1> SUFFICES ASSUME IInv, [Next]_vars
               PROVE  IInv'
    OBVIOUS
  <1>0. TypeOK /\ TypeOK'
    BY TypesKept DEF IInv
  <1> USE DEF desk, flag
  <1>1. ASSUME NEW p \in Proposals, Propose(p)
        PROVE  IInv'
    <2> DEFINE new == [proposal[p] EXCEPT !.status = "pending"]
    <2>1. proposal[p].why = "" /\ proposal[p] \in Proposal
      BY <1>0, <1>1 DEF Propose, AddProposal, IInv, Leases, TypeOK
    <2>2. proposal' = [proposal EXCEPT ![p] = new]
      BY <1>0, <1>1, Updates DEF Propose, AddProposal
    <2>3. proposal[p].status \in {"none", "pending"} /\ UNCHANGED <<call, order, orphans>>
      BY <1>1 DEF Propose, AddProposal
    <2>4. new \in Proposal /\ new.status = "pending" /\ new.why = ""
      BY <2>1 DEF Proposal
    <2> HIDE DEF new
    <2> QED
      BY <1>0, <2>2, <2>3, <2>4, Waiting
  <1>2. ASSUME NEW p \in Proposals, Age(p)
        PROVE  IInv'
    BY <1>0, <1>2, Elsewhere DEF Age
  <1>3. ASSUME NEW p \in Proposals, Reject(p) \/ ApproveExpired(p) \/ ApproveOff(p)
        PROVE  IInv'
    <2>1. PICK why \in {"owner", "expired", "failed"} : Decline(p, why)
      BY <1>3 DEF Reject, ApproveExpired, ApproveOff
    <2> DEFINE new == [status |-> "rejected", why |-> why]
    <2>2. /\ proposal' = [proposal EXCEPT ![p] = new] /\ proposal[p].status \in {"none", "pending"}
          /\ UNCHANGED <<call, order, orphans>>
      BY <2>1 DEF Decline
    <2>3. new \in Proposal /\ new.status = "rejected"
      BY DEF Proposal
    <2> HIDE DEF new
    <2> QED
      BY <1>0, <2>2, <2>3, Waiting
  <1>4. ASSUME NEW c \in Calls, NEW p \in Proposals, Approve(c, p)
        PROVE  IInv'
    <2>1. proposal' = [q \in Proposals |-> IF q = p THEN [proposal[q] EXCEPT !.status = "executing"] ELSE proposal[q]]
      BY <1>0, <1>4 DEF Approve, TypeOK
    <2> QED
      BY <1>0, <1>4, <2>1, Begins DEF Approve, Claimable
  <1>5. ASSUME NEW c \in Calls, TradeLive(c)
        PROVE  IInv'
    <2>1. proposal' = [q \in Proposals |-> IF q = Manual THEN [proposal[q] EXCEPT !.status = "executing"] ELSE proposal[q]]
      BY <1>0, <1>5, ManualAssumption DEF TradeLive, TypeOK
    <2> QED
      BY <1>0, <1>5, <2>1, Begins, ManualAssumption DEF TradeLive
  <1>6. ASSUME NEW c \in Calls, ReadVenue(c)
        PROVE  IInv'
    <2>1. Cardinality(Positions) \in Nat
      BY <1>0, PositionsCount
    <2>2. PICK seen \in Nat : call' = [call EXCEPT ![c].at = "quotes", ![c].seen = seen]
      BY <2>1, <1>6 DEF ReadVenue
    <2> DEFINE new == [call[c] EXCEPT !.at = "quotes", !.seen = seen]
    <2>3. call' = [call EXCEPT ![c] = new]
      BY <2>2, <1>0, Updates
    <2>4. new \in Call /\ new.at = "quotes" /\ new.for = call[c].for
      BY <1>0, Fields DEF Call
    <2> HIDE DEF new
    <2> QED
      BY <1>0, <1>6, <2>3, <2>4, Moves DEF ReadVenue
  <1>7. ASSUME NEW c \in Calls, Send(c)
        PROVE  IInv'
    <2> DEFINE new == [call[c] EXCEPT !.at = "sent", !.seen = 0]
    <2>1. call' = [call EXCEPT ![c] = new]
      BY <1>7, <1>0, Updates DEF Send
    <2>2. new \in Call /\ new.at = "sent" /\ new.for = call[c].for
      BY <1>0, Fields DEF Call
    <2> HIDE DEF new
    <2> QED
      BY <1>0, <1>7, <2>1, <2>2, Moves DEF Send
  <1>8. ASSUME NEW c \in Calls, Bounce(c)
        PROVE  IInv'
    <2> DEFINE new == [call[c] EXCEPT !.at = "failed"]
    <2>1. call' = [call EXCEPT ![c] = new]
      BY <1>8, <1>0, Updates DEF Bounce
    <2>2. new \in Call /\ new.at = "failed" /\ new.for = call[c].for
      BY <1>0, Fields DEF Call
    <2> HIDE DEF new
    <2> QED
      BY <1>0, <1>8, <2>1, <2>2, Moves DEF Bounce
  <1>9. ASSUME NEW c \in Calls, NEW s \in Slots, Accept(c, s)
        PROVE  IInv'
    BY <1>0, <1>9, AcceptKeeps
  <1>10. ASSUME NEW c \in Calls, Refuse(c) \/ Finish(c)
         PROVE  IInv'
    BY <1>0, <1>10, Ends DEF Refuse, Finish
  <1>11. ASSUME NEW s \in Slots, Trade(s)
         PROVE  IInv'
    BY <1>0, <1>11, OrdersMove DEF Trade
  <1>12. CASE EnableLive \/ SaveAccounts \/ DisableLive
    BY <1>0, <1>12, Elsewhere DEF EnableLive, SaveAccounts, DisableLive
  <1>13. CASE ListOrders \/ DisableEnds
    BY <1>0, <1>13, Elsewhere DEF ListOrders, DisableEnds
  <1>14. ASSUME NEW s \in Slots, CancelOrder(s)
         PROVE  IInv'
    <2>1. CASE UNCHANGED order
      BY <2>1, <1>0, <1>14, Elsewhere DEF CancelOrder
    <2>2. CASE order[s].state = "open" /\ order' = [order EXCEPT ![s].state = "gone"]
      BY <2>2, <1>0, <1>14, OrdersMove DEF CancelOrder
    <2> QED
      BY <2>1, <2>2, <1>14 DEF CancelOrder
  <1>15. ASSUME NEW landed \in Landings, Crash(landed)
         PROVE  IInv'
    BY <1>0, <1>15, CrashKeeps
  <1>16. CASE UNCHANGED vars
    BY <1>0, <1>16, Elsewhere DEF vars
  <1> QED
    BY <1>1, <1>2, <1>3, <1>4, <1>5, <1>6, <1>7, <1>8, <1>9, <1>10, <1>11, <1>12, <1>13, <1>14, <1>15, <1>16
       DEF Next, Serve, KillStep

LEMMA Always == Spec => []IInv
  BY StartsInv, StepInv, PTL DEF Spec

\* Every variable keeps its type.
THEOREM LiveDeskTypes == Spec => []TypeOK
  <1>1. IInv => TypeOK
    BY DEF IInv
  <1> QED
    BY <1>1, Always, PTL

\* No number of approvals, lost answers and restarts places a proposal's order twice.
THEOREM LiveDeskOneOrder == Spec => []OneOrderPerProposal
  <1>1. IInv => OneOrderPerProposal
    BY DEF IInv
  <1> QED
    BY <1>1, Always, PTL

\* A proposal's status agrees with what the venue has of it.
THEOREM LiveDeskStatus == Spec => []StatusTellsTheTruth
  <1>1. IInv => StatusTellsTheTruth
    BY DEF IInv
  <1> QED
    BY <1>1, Always, PTL

\* Live mode is off from the answer of disableLive to the next enableLive or restart.
StayedOff == killed = "now" => ~live

LEMMA OffKept == Spec => []StayedOff
  <1>1. Init => StayedOff
    BY DEF Init, StayedOff
  <1>2. StayedOff /\ [Next]_vars => StayedOff'
    <2> SUFFICES ASSUME StayedOff, [Next]_vars
                 PROVE  StayedOff'
      OBVIOUS
    <2> USE DEF StayedOff, desk, flag
    <2>1. CASE EnableLive \/ SaveAccounts \/ DisableLive \/ KillStep
      BY <2>1 DEF EnableLive, SaveAccounts, DisableLive, KillStep, ListOrders, CancelOrder, DisableEnds
    <2>2. CASE \E landed \in Landings : Crash(landed)
      BY <2>2 DEF Crash
    <2>3. ASSUME NEW p \in Proposals, Propose(p) \/ Age(p) \/ Reject(p) \/ ApproveExpired(p) \/ ApproveOff(p)
          PROVE  StayedOff'
      BY <2>3 DEF Propose, Age, Reject, ApproveExpired, ApproveOff, Decline
    <2>4. ASSUME NEW c \in Calls, TradeLive(c) \/ Serve(c) \/ \E p \in Proposals : Approve(c, p)
          PROVE  StayedOff'
      BY <2>4 DEF TradeLive, Approve, Serve, ReadVenue, Send, Accept, Bounce, Refuse, Finish
    <2>5. CASE \E s \in Slots : Trade(s)
      BY <2>5 DEF Trade
    <2>6. CASE UNCHANGED vars
      BY <2>6 DEF vars
    <2> QED
      BY <2>1, <2>2, <2>3, <2>4, <2>5, <2>6 DEF Next
  <1> QED
    BY <1>1, <1>2, PTL DEF Spec

\* Once disableLive has answered live mode is off, so no order request begins until
\* enableLive is called again or the process restarts.
THEOREM LiveDeskKill == Spec => KillStopsNewOrders
  <1> DEFINE Stops == killed = "now" /\ killed' = "now" => Running' \subseteq Running
  <1>1. IInv /\ StayedOff /\ [Next]_vars => [Stops]_vars
    <2> SUFFICES ASSUME TypeOK, Next, ~live
                 PROVE  Running' \subseteq Running
      BY DEF IInv, StayedOff
    <2> USE DEF TypeOK, Running, desk, flag
    <2>1. ASSUME NEW p \in Proposals, Propose(p) \/ Age(p) \/ Reject(p) \/ ApproveExpired(p) \/ ApproveOff(p)
          PROVE  Running' \subseteq Running
      BY <2>1 DEF Propose, Age, Reject, ApproveExpired, ApproveOff, Decline
    <2>2. ASSUME NEW c \in Calls, TradeLive(c) \/ \E p \in Proposals : Approve(c, p)
          PROVE  FALSE
      BY <2>2 DEF TradeLive, Approve, LiveOn
    <2>3. ASSUME NEW c \in Calls, Serve(c)
          PROVE  Running' \subseteq Running
      BY <2>3 DEF Serve, ReadVenue, Send, Accept, Bounce, Refuse, Finish, Finalize
    <2>4. CASE (\E s \in Slots : Trade(s)) \/ EnableLive \/ SaveAccounts \/ DisableLive \/ KillStep
      BY <2>4 DEF Trade, EnableLive, SaveAccounts, DisableLive, KillStep, ListOrders, CancelOrder, DisableEnds
    <2>5. CASE \E landed \in Landings : Crash(landed)
      BY <2>5 DEF Crash, NoCall
    <2> QED
      BY <2>1, <2>2, <2>3, <2>4, <2>5 DEF Next
  <1> QED
    BY <1>1, Always, OffKept, PTL DEF Spec, KillStopsNewOrders

-----------------------------------------------------------------------------
(* Triggers                                                                *)

Tick == [running : BOOLEAN, todo : SUBSET Triggers, copy : [Triggers -> States], edited : SUBSET Triggers]
Answers == {"new", "on", "off", "deleted"}

\* An answer stands in a store that has the trigger in this state.
Stands(answer, state) ==
  CASE answer = "on" -> state \in On
    [] answer = "off" -> state = "off"
    [] OTHER -> state = "none"

\* A check's copy has what owners were told, but for the edits it has missed.
CopyHolds == tick.running => \A t \in Triggers \ (tick.edited \cup overwritten) : Stands(told[t], tick.copy[t])
\* What has fired is not armed: in the check's copy while it runs, then in the store.
Spent == \A t \in quiet : (IF tick.running THEN tick.copy[t] ELSE disk[t]) # "armed"

TriggersInv == TriggersTypeOK /\ EditsHoldUnlessOverwritten /\ CopyHolds /\ Spent

LEMMA Told == EditsHoldUnlessOverwritten <=> \A t \in Triggers : t \in overwritten \/ Stands(told[t], disk[t])
  BY DEF EditsHoldUnlessOverwritten, Agrees, Stands

\* A check that has looked at a trigger.
LEMMA CheckedTick ==
  ASSUME TriggersTypeOK, NEW t \in Triggers, NEW state \in On, Checking(t), Checked(t, state)
  PROVE  /\ tick' \in Tick /\ tick'.running = tick.running /\ tick'.edited = tick.edited
         /\ tick'.todo = tick.todo \ {t}
         /\ tick'.copy[t] = state /\ \A u \in Triggers \ {t} : tick'.copy[u] = tick.copy[u]
  <1>1. tick \in Tick /\ state \in States
    BY DEF TriggersTypeOK, Tick, On, States
  <1> QED
    BY <1>1 DEF Checked, Tick

\* Whatever a check makes of a trigger that was on, its owner was told it is on.
LEMMA CheckKeeps ==
  ASSUME TriggersInv, NEW t \in Triggers, NEW state \in On, Checking(t), Checked(t, state),
         UNCHANGED <<disk, told, overwritten, holds, edits, restarts>>,
         proposals' \in [Triggers -> 0..MaxFires],
         quiet' \subseteq quiet \cup {t}, t \in quiet' => state # "armed"
  PROVE  TriggersInv'
  <1>1. /\ tick' \in Tick /\ tick'.running = tick.running /\ tick'.edited = tick.edited
        /\ tick'.todo = tick.todo \ {t}
        /\ tick'.copy[t] = state /\ \A u \in Triggers \ {t} : tick'.copy[u] = tick.copy[u]
    BY CheckedTick DEF TriggersInv
  <1>2. tick.running /\ t \in tick.todo /\ tick.copy[t] \in On
    BY DEF Checking, TriggersInv, TriggersTypeOK
  <1>3. TriggersTypeOK'
    <2>1. \A u \in tick'.todo : tick'.running /\ tick'.copy[u] \in On
      BY <1>1 DEF TriggersInv, TriggersTypeOK
    <2>2. quiet' \subseteq Triggers
      BY DEF TriggersInv, TriggersTypeOK
    <2> QED
      BY <1>1, <2>1, <2>2 DEF TriggersInv, TriggersTypeOK, Tick
  <1>4. EditsHoldUnlessOverwritten'
    BY DEF TriggersInv, EditsHoldUnlessOverwritten, Agrees
  <1>5. CopyHolds'
    <2>1. t \notin tick.edited \cup overwritten => told[t] = "on"
      BY <1>2 DEF TriggersInv, CopyHolds, Stands, On
    <2>2. t \notin tick.edited \cup overwritten => Stands(told[t], state)
      BY <2>1 DEF Stands
    <2> QED
      BY <1>1, <1>2, <2>2 DEF TriggersInv, CopyHolds
  <1>6. Spent'
    <2>1. quiet \subseteq Triggers
      BY DEF TriggersInv, TriggersTypeOK
    <2> QED
      BY <1>1, <1>2, <2>1 DEF TriggersInv, Spent
  <1> QED
    BY <1>3, <1>4, <1>5, <1>6 DEF TriggersInv

LEMMA EditKeeps ==
  ASSUME TriggersInv, NEW t \in Triggers, NEW state \in States, NEW answer \in Answers,
         Edit(t, state, answer), Stands(answer, state)
  PROVE  TriggersInv'
  <1>1. /\ tick \in Tick /\ disk \in [Triggers -> States] /\ told \in [Triggers -> Answers]
        /\ overwritten \subseteq Triggers /\ quiet \subseteq Triggers /\ edits \in 0..MaxEdits /\ MaxEdits \in Nat
        /\ \A u \in tick.todo : tick.running /\ tick.copy[u] \in On
    BY BoundAssumption DEF TriggersInv, TriggersTypeOK, Tick, Answers
  <1>2. /\ edits < MaxEdits /\ edits' = edits + 1
        /\ disk' = [disk EXCEPT ![t] = state] /\ told' = [told EXCEPT ![t] = answer]
        /\ tick' = [tick EXCEPT !.edited = IF tick.running THEN tick.edited \cup {t} ELSE tick.edited]
        /\ overwritten' = overwritten \ {t} /\ quiet' = quiet \ {t}
        /\ UNCHANGED <<holds, proposals, restarts>>
    BY DEF Edit
  <1>3. /\ tick' \in Tick /\ tick'.running = tick.running /\ tick'.todo = tick.todo /\ tick'.copy = tick.copy
        /\ tick.running => tick'.edited = tick.edited \cup {t}
    <2> DEFINE e == IF tick.running THEN tick.edited \cup {t} ELSE tick.edited
    <2>1. e \in SUBSET Triggers
      BY <1>1 DEF Tick
    <2>2. tick.running => e = tick.edited \cup {t}
      OBVIOUS
    <2>3. tick' = [tick EXCEPT !.edited = e]
      BY <1>2
    <2> HIDE DEF e
    <2> QED
      BY <1>1, <2>1, <2>2, <2>3 DEF Tick
  <1>4. /\ disk' \in [Triggers -> States] /\ told' \in [Triggers -> Answers]
        /\ disk'[t] = state /\ told'[t] = answer
        /\ \A u \in Triggers \ {t} : disk'[u] = disk[u] /\ told'[u] = told[u]
    BY <1>1, <1>2
  <1>5. TriggersTypeOK'
    BY <1>1, <1>2, <1>3, <1>4 DEF TriggersInv, TriggersTypeOK, Tick, Answers
  <1>6. EditsHoldUnlessOverwritten'
    <2>1. \A u \in Triggers : u \in overwritten \/ Stands(told[u], disk[u])
      BY Told DEF TriggersInv
    <2>2. ASSUME NEW u \in Triggers PROVE u \in overwritten' \/ Stands(told'[u], disk'[u])
      <3>1. CASE u = t
        BY <1>4, <3>1
      <3>2. CASE u # t
        BY <1>2, <1>4, <2>1, <3>2
      <3> QED
        BY <3>1, <3>2
    <2> QED
      BY <2>2 DEF EditsHoldUnlessOverwritten, Agrees, Stands
  <1>7. CopyHolds'
    BY <1>2, <1>3, <1>4 DEF TriggersInv, CopyHolds
  <1>8. Spent'
    BY <1>1, <1>2, <1>3, <1>4 DEF TriggersInv, Spent
  <1> QED
    BY <1>5, <1>6, <1>7, <1>8 DEF TriggersInv

LEMMA TriggersInitInv == TriggersInit => TriggersInv
  <1> SUFFICES ASSUME TriggersInit PROVE TriggersInv
    OBVIOUS
  <1>1. TriggersTypeOK
    BY BoundAssumption DEF TriggersInit, TriggersTypeOK, NoTick, States
  <1>2. EditsHoldUnlessOverwritten /\ CopyHolds /\ Spent
    BY DEF TriggersInit, NoTick, EditsHoldUnlessOverwritten, Agrees, CopyHolds, Spent
  <1> QED
    BY <1>1, <1>2 DEF TriggersInv

LEMMA TriggersKept == TriggersInv /\ [TriggersNext]_triggersVars => TriggersInv'
  <1> SUFFICES ASSUME TriggersInv, [TriggersNext]_triggersVars PROVE TriggersInv'
    OBVIOUS
  <1>0. /\ tick \in Tick /\ disk \in [Triggers -> States] /\ told \in [Triggers -> Answers]
        /\ proposals \in [Triggers -> 0..MaxFires] /\ overwritten \subseteq Triggers /\ quiet \subseteq Triggers
        /\ MaxFires \in Nat /\ MaxRestarts \in Nat /\ restarts \in 0..MaxRestarts
        /\ \A u \in tick.todo : tick.running /\ tick.copy[u] \in On
    BY BoundAssumption DEF TriggersInv, TriggersTypeOK, Tick, Answers
  <1>1. ASSUME NEW t \in Triggers, Request(t) PROVE TriggersInv'
    <2>1. /\ Stands("on", "armed") /\ Stands("off", "off") /\ Stands("deleted", "none")
          /\ {"armed", "off", "none"} \subseteq States /\ {"on", "off", "deleted"} \subseteq Answers
      BY DEF Stands, On, States, Answers
    <2>2. CASE Edit(t, "armed", "on")
      BY <2>1, <2>2, EditKeeps
    <2>3. CASE Edit(t, "off", "off")
      BY <2>1, <2>3, EditKeeps
    <2>4. CASE Edit(t, "none", "deleted")
      BY <2>1, <2>4, EditKeeps
    <2> QED
      BY <1>1, <2>2, <2>3, <2>4 DEF Request, CreateTrigger, Enable, Disable, DeleteTrigger
  <1>2. ASSUME NEW t \in Triggers, Market(t) PROVE TriggersInv'
    <2>1. holds' \subseteq Triggers /\ UNCHANGED <<disk, tick, proposals, watched, edits, restarts>>
      BY <1>2 DEF Market, TriggersInv, TriggersTypeOK
    <2> QED
      BY <2>1 DEF watched, TriggersInv, TriggersTypeOK, EditsHoldUnlessOverwritten, Agrees, CopyHolds, Spent
  <1>3. CASE CheckTriggers
    <2>1. /\ ~tick.running
          /\ tick' = [running |-> TRUE, todo |-> {t \in Triggers : disk[t] \in On}, copy |-> disk, edited |-> {}]
          /\ UNCHANGED <<disk, holds, proposals, told, overwritten, quiet, edits, restarts>>
      BY <1>3 DEF CheckTriggers, watched
    <2>2. /\ tick'.running /\ tick'.todo = {t \in Triggers : disk[t] \in On} /\ tick'.copy = disk
          /\ tick'.edited = {} /\ tick' \in Tick
      BY <1>0, <2>1 DEF Tick
    <2>3. TriggersTypeOK'
      BY <2>1, <2>2 DEF TriggersInv, TriggersTypeOK, Tick
    <2>4. EditsHoldUnlessOverwritten'
      BY <2>1 DEF TriggersInv, EditsHoldUnlessOverwritten, Agrees
    <2>5. CopyHolds'
      BY <2>1, <2>2, Told DEF TriggersInv, CopyHolds
    <2>6. Spent'
      BY <2>1, <2>2 DEF TriggersInv, Spent
    <2> QED
      BY <2>3, <2>4, <2>5, <2>6 DEF TriggersInv
  <1>4. ASSUME NEW t \in Triggers, Fire(t) PROVE TriggersInv'
    <2>1. proposals' \in [Triggers -> 0..MaxFires]
      <3>1. proposals[t] + 1 \in 0..MaxFires
        BY <1>0, <1>4 DEF Fire
      <3> QED
        BY <1>0, <1>4, <3>1 DEF Fire
    <2> QED
      BY <1>4, <2>1, CheckKeeps DEF Fire, On
  <1>5. ASSUME NEW t \in Triggers, Rearm(t) PROVE TriggersInv'
    BY <1>0, <1>5, CheckKeeps DEF Rearm, On
  <1>6. ASSUME NEW t \in Triggers, Pass(t) PROVE TriggersInv'
    <2>1. /\ Checking(t) /\ Checked(t, tick.copy[t])
          /\ UNCHANGED <<disk, told, overwritten, quiet, holds, proposals, edits, restarts>>
      BY <1>6 DEF Pass, watched
    <2>2. tick.copy[t] \in On
      BY <1>0, <2>1 DEF Checking
    <2>3. t \in quiet => tick.copy[t] # "armed"
      BY <1>0, <2>1 DEF Checking, TriggersInv, Spent
    <2> QED
      BY <1>0, <2>1, <2>2, <2>3, CheckKeeps
  <1>7. CASE SaveStore
    <2>1. /\ tick.running /\ disk' = tick.copy /\ overwritten' = overwritten \cup tick.edited /\ tick' = NoTick
          /\ UNCHANGED <<holds, proposals, told, quiet, edits, restarts>>
      BY <1>7 DEF SaveStore
    <2>2. tick' \in Tick /\ ~tick'.running /\ tick'.todo = {}
      BY <2>1 DEF NoTick, Tick, States
    <2>3. TriggersTypeOK'
      BY <1>0, <2>1, <2>2 DEF TriggersInv, TriggersTypeOK, Tick
    <2>4. EditsHoldUnlessOverwritten'
      BY <2>1 DEF TriggersInv, CopyHolds, EditsHoldUnlessOverwritten, Agrees, Stands
    <2>5. CopyHolds' /\ Spent'
      BY <2>1, <2>2 DEF TriggersInv, CopyHolds, Spent
    <2> QED
      BY <2>3, <2>4, <2>5 DEF TriggersInv
  <1>8. CASE Restart
    <2>1. /\ restarts < MaxRestarts /\ restarts' = restarts + 1 /\ tick' = NoTick
          /\ quiet' = {t \in quiet : disk[t] # "armed"}
          /\ UNCHANGED <<disk, holds, proposals, told, overwritten, edits>>
      BY <1>8 DEF Restart
    <2>2. tick' \in Tick /\ ~tick'.running /\ tick'.todo = {}
      BY <2>1 DEF NoTick, Tick, States
    <2>3. TriggersTypeOK'
      BY <1>0, <2>1, <2>2 DEF TriggersInv, TriggersTypeOK, Tick
    <2>4. EditsHoldUnlessOverwritten'
      BY <2>1 DEF TriggersInv, EditsHoldUnlessOverwritten, Agrees
    <2>5. CopyHolds' /\ Spent'
      BY <2>1, <2>2 DEF CopyHolds, Spent
    <2> QED
      BY <2>3, <2>4, <2>5 DEF TriggersInv
  <1>9. CASE UNCHANGED triggersVars
    BY <1>9 DEF triggersVars, watched, TriggersInv, TriggersTypeOK, EditsHoldUnlessOverwritten, Agrees, CopyHolds, Spent
  <1> QED
    BY <1>1, <1>2, <1>3, <1>4, <1>5, <1>6, <1>7, <1>8, <1>9 DEF TriggersNext, TickStep

LEMMA TriggersAlways == TriggersSpec => []TriggersInv
  BY TriggersInitInv, TriggersKept, PTL DEF TriggersSpec

\* The store, a check's copy of it and the history keep their types, and a check
\* has only triggers before it that were on when it loaded the store.
THEOREM TriggersTyped == TriggersSpec => []TriggersTypeOK
  <1>1. TriggersInv => TriggersTypeOK
    BY DEF TriggersInv
  <1> QED
    BY <1>1, TriggersAlways, PTL

\* What an owner was told of a trigger is what the store has, unless a check that
\* had loaded it before saved it after, for any number of triggers, edits, checks
\* and restarts (createTrigger, setEnabled, deleteTrigger, checkTriggers).
THEOREM TriggerEditsHold == TriggersSpec => []EditsHoldUnlessOverwritten
  <1>1. TriggersInv => EditsHoldUnlessOverwritten
    BY DEF TriggersInv
  <1> QED
    BY <1>1, TriggersAlways, PTL

\* A trigger proposes once per time its condition comes true, and only while its
\* owner has it on (checkTriggers).
THEOREM TriggersProposeOnEdges == TriggersSpec => ProposesOnEdges
  <1> DEFINE Edge == \A t \in Triggers : proposals[t]' > proposals[t] =>
                       /\ t \notin quiet
                       /\ told[t] = "on" \/ t \in tick.edited \cup overwritten
  <1>1. TriggersInv /\ [TriggersNext]_triggersVars => [Edge]_triggersVars
    <2> SUFFICES ASSUME TriggersInv, TriggersNext, NEW t \in Triggers, proposals'[t] > proposals[t]
                 PROVE  t \notin quiet /\ (told[t] = "on" \/ t \in tick.edited \cup overwritten)
      OBVIOUS
    <2>1. proposals[t] \in Int /\ proposals \in [Triggers -> 0..MaxFires]
      BY DEF TriggersInv, TriggersTypeOK
    <2>2. UNCHANGED proposals => FALSE
      BY <2>1
    <2>3. PICK u \in Triggers : Fire(u)
      BY <2>2 DEF TriggersNext, Request, CreateTrigger, Enable, Disable, DeleteTrigger, Edit, Market, CheckTriggers,
                  TickStep, SaveStore, Rearm, Pass, Restart
    <2>4. u = t
      BY <2>1, <2>3 DEF Fire
    <2>5. tick.running /\ t \in tick.todo /\ tick.copy[t] = "armed"
      BY <2>3, <2>4 DEF Fire, Checking
    <2>6. t \notin quiet
      BY <2>5 DEF TriggersInv, Spent
    <2>7. told[t] = "on" \/ t \in tick.edited \cup overwritten
      BY <2>5 DEF TriggersInv, CopyHolds, Stands, On
    <2> QED
      BY <2>6, <2>7
  <1> QED
    BY <1>1, TriggersAlways, PTL DEF TriggersSpec, ProposesOnEdges
=============================================================================
