--------------------------------- MODULE Bridge ---------------------------------
(***************************************************************************)
(* The bridge prototype of contracts/: Phase4Escrow, Phase4Wrapper and     *)
(* Phase4AttestationVerifier, whose calls are transactions and therefore   *)
(* actions. A call that reverts changes nothing and is no step.            *)
(*                                                                         *)
(* An operation is a lock (canonical tokens into the escrow, wrapped ones  *)
(* minted) or a burn (the way back). A message has to repeat every field   *)
(* of the registered proof, so it is the operation itself, whose amount,   *)
(* nonce, block and expiry are constants. A block stands for its number,   *)
(* hash and state root. What observers say about single events is left     *)
(* open: a reorganisation may spare any proof of another block, and an     *)
(* event binding that is asked for may be there. Calls that only the       *)
(* owner or governance may make are taken whenever they are enabled.       *)
(***************************************************************************)
EXTENDS Integers, Sequences, FiniteSets

CONSTANTS Ops, Amount, Nonce, Block, Expiry,     \* messages
          Blocks, Height, NoBlock,               \* a block's number; no header yet
          Observers, ObserverQuorum, StaleDepth, \* configureFinality
          Keys, Signers, Quorum,                 \* possible signers, those of the constructor
          MessageLimit, DailyLimit, Window,      \* setLimits
          MaxNow, MaxChanges                     \* bound the clock and the calls of governance

ASSUME OpsAssumption == IsFiniteSet(Ops)
ASSUME AmountAssumption == Amount \in [Ops -> Nat \ {0}]
ASSUME MessageAssumption == Nonce \in [Ops -> Nat \ {0}] /\ Block \in [Ops -> Blocks] /\ Expiry \in [Ops -> Nat]
ASSUME BlockAssumption == Height \in [Blocks -> Nat \ {0}] /\ NoBlock \notin Blocks
ASSUME LimitAssumption == {ObserverQuorum, StaleDepth, MessageLimit, DailyLimit, Window} \subseteq Nat \ {0}
ASSUME SignerAssumption ==
  /\ IsFiniteSet(Keys) /\ Signers \subseteq Keys
  /\ Quorum \in Nat \ {0} /\ Quorum <= Cardinality(Signers)
ASSUME BoundAssumption == MaxNow \in Nat /\ MaxChanges \in Nat

VARIABLES op,                     \* what the contracts record of every operation
          locked,                 \* escrow.lockedAccounting, its token balance
          minted, burned,         \* the wrapper's accounting, whose difference is its supply
          mintNonce, releaseNonce,\* lastNonce of either side
          paused,                 \* the paused contracts
          strict,                 \* finalityConfigured
          header, order,          \* observerHeaders, _observers
          allowed,                \* isObserver
          head,                   \* the canonical head
          list, active,           \* _signers, isSigner
          window, used,           \* dailyWindowStart, dailyAmountUsed
          now, changes

ledger == <<locked, minted, burned>>
nonces == <<mintNonce, releaseNonce>>
chain == <<header, order>>
limits == <<window, used>>
governed == <<paused, strict, allowed, list, active>>
vars == <<op, ledger, nonces, chain, head, limits, governed, now, changes>>

Contracts == {"escrow", "wrapper"}
Operation == [kind : {"none", "lock", "burn"},      \* operationRegistry
              registered : BOOLEAN, finalized : BOOLEAN,
              anchored : BOOLEAN,                   \* finalized under strict: finalizedBlock* are set
              consumed : BOOLEAN, invalid : BOOLEAN, failed : BOOLEAN,
              executed : BOOLEAN,                   \* minted or released
              returned : BOOLEAN]                   \* refunded or recovered
NoOp == [kind |-> "none", registered |-> FALSE, finalized |-> FALSE, anchored |-> FALSE,
         consumed |-> FALSE, invalid |-> FALSE, failed |-> FALSE, executed |-> FALSE, returned |-> FALSE]

Orders == {s \in [1..Cardinality(Signers) -> Signers] : \A i, j \in DOMAIN s : s[i] = s[j] => i = j}

\* After bootstrap, setSourceContracts and setLimits.
Init ==
  /\ op = [o \in Ops |-> NoOp]
  /\ locked = 0 /\ minted = 0 /\ burned = 0
  /\ mintNonce = 0 /\ releaseNonce = 0
  /\ paused = {}
  /\ strict = FALSE
  /\ header = [v \in Observers |-> NoBlock]
  /\ order = <<>>
  /\ allowed = Observers
  /\ head = NoBlock
  /\ list \in Orders
  /\ active = Signers
  /\ window = 0 /\ used = 0
  /\ now = 0 /\ changes = 0

Supply == minted - burned
Running(contract) == contract \notin paused

-----------------------------------------------------------------------------
(* Observers and the canonical head                                        *)

RegisterHeader(v, b) ==
  /\ v \in allowed
  /\ strict /\ head # NoBlock => Height[b] + StaleDepth >= Height[head]
  /\ header' = [header EXCEPT ![v] = b]
  /\ order' = IF header[v] = NoBlock THEN Append(order, v) ELSE order
  /\ UNCHANGED <<op, ledger, nonces, head, limits, governed, now, changes>>

Holders(b) == {v \in allowed : header[v] = b}
HeaderQuorum(b) == Cardinality(Holders(b)) >= ObserverQuorum

\* The observers, by their place in _observers, whose header is of b's height.
Voters(b) == {i \in DOMAIN order : Height[header[order[i]]] = Height[b]}
HeadAt(i) == header[order[i]]

\* Mutant: the first head with a quorum is taken.
FirstHead(b) == \E i \in Voters(b) : HeadAt(i) = b /\ HeaderQuorum(b)

\* _uniqueHead passes over a head that repeats the one before it.
UniqueHead(b) ==
  LET before(i) == {j \in Voters(b) : j < i}
      repeats(i) == \E j \in before(i) : HeadAt(j) = HeadAt(i) /\ \A k \in before(i) : k <= j
      candidates == {i \in Voters(b) : ~repeats(i) /\ HeaderQuorum(HeadAt(i))}
  IN  (\A i \in candidates : HeadAt(i) = b) /\ Cardinality(candidates) = 1

\* _finalityFor and the checks of reconcileCanonicalHead.
Agreed(b) ==
  /\ \E v \in Observers : header[v] = b
  /\ HeaderQuorum(b)
  /\ UniqueHead(b)
NotBehind(b) == head # NoBlock => Height[b] >= Height[head]

\* reconcileCanonicalHead with _invalidateReorgedProofs; spared are those with an event quorum.
Reconcile(b, spared) ==
  /\ strict /\ NotBehind(b) /\ Agreed(b)
  /\ head' = b
  /\ op' = [o \in Ops |->
       [op[o] EXCEPT !.invalid = @ \/ /\ op[o].registered /\ op[o].finalized /\ ~op[o].consumed
                                      /\ Block[o] # b /\ o \notin spared]]
  /\ UNCHANGED <<ledger, nonces, chain, limits, governed, now, changes>>

-----------------------------------------------------------------------------
(* Limits, attestations and proofs                                         *)

\* consumeLimit
ConsumeLimit(amount) ==
  LET over == now >= window + Window
      spent == IF over THEN 0 ELSE used
  IN  /\ amount <= MessageLimit /\ amount <= DailyLimit
      /\ spent <= DailyLimit - amount
      /\ window' = IF over THEN now ELSE window
      /\ used' = spent + amount

\* verify: as many distinct signers as the quorum asks can be found.
Attested == Cardinality(active) >= Quorum

\* Mutant: whether governance marked the proof as failed is not asked.
ConsumableThoughFailed(o) ==
  /\ op[o].registered /\ op[o].finalized /\ ~op[o].consumed
  /\ ~op[o].invalid
  /\ strict => head = Block[o] /\ op[o].anchored

\* consumeLockProof and consumeLockProofEvent, and those of a burn.
Consumable(o) ==
  /\ op[o].registered /\ op[o].finalized /\ ~op[o].consumed
  /\ ~op[o].invalid /\ ~op[o].failed
  /\ strict => head = Block[o] /\ op[o].anchored

\* Mutant: whether the other side has consumed the proof is not asked.
RecoverableThoughConsumed(o) ==
  /\ op[o].registered
  /\ op[o].invalid \/ op[o].failed \/ now > Expiry[o]

\* lockProofRecoverable, burnProofRecoverable
Recoverable(o) ==
  /\ op[o].registered /\ ~op[o].consumed
  /\ op[o].invalid \/ op[o].failed \/ now > Expiry[o]

Execute(o) == op' = [op EXCEPT ![o].consumed = TRUE, ![o].executed = TRUE]
Return(o) == op' = [op EXCEPT ![o].consumed = TRUE, ![o].returned = TRUE]   \* cancel*Proof

-----------------------------------------------------------------------------
(* From the escrow to the wrapper                                          *)

Lock(o) ==
  /\ Running("escrow")
  /\ op[o].kind = "none"
  /\ op' = [op EXCEPT ![o].kind = "lock"]
  /\ locked' = locked + Amount[o]
  /\ UNCHANGED <<minted, burned, nonces, chain, head, limits, governed, now, changes>>

\* registerLockProof, registerBurnProof and their variants with an event.
RegisterProof(o) ==
  /\ op[o].kind # "none" /\ ~op[o].registered
  /\ op' = [op EXCEPT ![o].registered = TRUE]
  /\ UNCHANGED <<ledger, nonces, chain, head, limits, governed, now, changes>>

MintFromLock(o) ==
  /\ Running("wrapper")
  /\ op[o].kind = "lock" /\ ~op[o].executed
  /\ Expiry[o] >= now
  /\ Nonce[o] > mintNonce
  /\ locked >= Supply + Amount[o]
  /\ Attested /\ Consumable(o) /\ ConsumeLimit(Amount[o])
  /\ Execute(o)
  /\ mintNonce' = Nonce[o]
  /\ minted' = minted + Amount[o]
  /\ UNCHANGED <<locked, burned, releaseNonce, chain, head, governed, now, changes>>

RefundLock(o) ==
  /\ Running("escrow")
  /\ op[o].kind = "lock" /\ ~op[o].returned
  /\ Recoverable(o)
  /\ locked >= Amount[o]
  /\ Return(o)
  /\ locked' = locked - Amount[o]
  /\ UNCHANGED <<minted, burned, nonces, chain, head, limits, governed, now, changes>>

-----------------------------------------------------------------------------
(* From the wrapper to the escrow                                          *)

BurnAndRelease(o) ==
  /\ Running("wrapper")
  /\ op[o].kind = "none"
  /\ Amount[o] <= Supply
  /\ op' = [op EXCEPT ![o].kind = "burn"]
  /\ burned' = burned + Amount[o]
  /\ UNCHANGED <<locked, minted, nonces, chain, head, limits, governed, now, changes>>

ReleaseFromBurn(o) ==
  /\ Running("escrow")
  /\ op[o].kind = "burn" /\ ~op[o].executed
  /\ Expiry[o] >= now
  /\ Nonce[o] > releaseNonce
  /\ Attested /\ Consumable(o) /\ ConsumeLimit(Amount[o])
  /\ locked >= Amount[o]
  /\ Execute(o)
  /\ releaseNonce' = Nonce[o]
  /\ locked' = locked - Amount[o]
  /\ UNCHANGED <<minted, burned, mintNonce, chain, head, governed, now, changes>>

RecoverBurn(o) ==
  /\ Running("wrapper")
  /\ op[o].kind = "burn" /\ ~op[o].returned
  /\ Recoverable(o)
  /\ Return(o)
  /\ minted' = minted + Amount[o]
  /\ UNCHANGED <<locked, burned, nonces, chain, head, limits, governed, now, changes>>

-----------------------------------------------------------------------------
(* Owners and governance                                                   *)

\* finalizeLockProof, finalizeBurnProof
Finalize(o) ==
  /\ op[o].registered /\ ~op[o].finalized
  /\ strict => Agreed(Block[o]) /\ NotBehind(Block[o])
  /\ op' = [op EXCEPT ![o].finalized = TRUE, ![o].anchored = strict]
  /\ head' = IF strict THEN Block[o] ELSE head
  /\ UNCHANGED <<ledger, nonces, chain, limits, governed, now, changes>>

\* markLockProofFailed, markBurnProofFailed
MarkFailed(o) ==
  /\ op[o].registered /\ ~op[o].consumed
  /\ op' = [op EXCEPT ![o].failed = TRUE]
  /\ UNCHANGED <<ledger, nonces, chain, head, limits, governed, now, changes>>

RotateSigner(old, new) ==
  /\ old \in active /\ new \notin active
  /\ active' = (active \ {old}) \cup {new}
  /\ LET first(i) == list[i] = old /\ \A j \in 1..(i - 1) : list[j] # old
     IN  list' = [i \in DOMAIN list |-> IF first(i) THEN new ELSE list[i]]
  /\ UNCHANGED <<limits, paused, strict, allowed>>

\* The active entries of the list must outnumber the quorum.
RevokeSigner(key) ==
  /\ key \in active
  /\ Cardinality({i \in DOMAIN list : list[i] \in active}) > Quorum
  /\ active' = active \ {key}
  /\ UNCHANGED <<limits, paused, strict, allowed, list>>

ConfigureObserver(v) ==
  /\ allowed' \in {allowed \cup {v}, allowed \ {v}} \ {allowed}
  /\ UNCHANGED <<limits, paused, strict, list, active>>

ConfigureFinality ==
  /\ strict' = TRUE
  /\ UNCHANGED <<limits, paused, allowed, list, active>>

SetLimits ==
  /\ window' = now /\ used' = 0
  /\ UNCHANGED governed

Pause(contract) ==
  /\ paused' \in {paused \cup {contract}, paused \ {contract}} \ {paused}
  /\ UNCHANGED <<limits, strict, allowed, list, active>>

Govern ==
  /\ changes < MaxChanges
  /\ changes' = changes + 1
  /\ \/ \E old, new \in Keys : RotateSigner(old, new)
     \/ \E key \in Keys : RevokeSigner(key)
     \/ \E v \in Observers : ConfigureObserver(v)
     \/ ConfigureFinality
     \/ SetLimits
     \/ \E c \in Contracts : Pause(c)
  /\ UNCHANGED <<op, ledger, nonces, chain, head, now>>

Tick ==
  /\ now < MaxNow
  /\ now' = now + 1
  /\ UNCHANGED <<op, ledger, nonces, chain, head, limits, governed, changes>>

Next ==
  \/ \E o \in Ops :
       \/ Lock(o) \/ MintFromLock(o) \/ RefundLock(o)
       \/ BurnAndRelease(o) \/ ReleaseFromBurn(o) \/ RecoverBurn(o)
       \/ RegisterProof(o) \/ Finalize(o) \/ MarkFailed(o)
  \/ \E b \in Blocks : \/ \E spared \in SUBSET Ops : Reconcile(b, spared)
                       \/ \E v \in Observers : RegisterHeader(v, b)
  \/ Govern
  \/ Tick

Spec == Init /\ [][Next]_vars

-----------------------------------------------------------------------------
(* Properties                                                              *)

TypeOK ==
  /\ op \in [Ops -> Operation]
  /\ locked \in Nat /\ minted \in Nat /\ burned \in Nat
  /\ mintNonce \in Nat /\ releaseNonce \in Nat
  /\ window \in Nat /\ used \in Nat /\ now \in Nat /\ changes \in Nat
  /\ paused \subseteq Contracts
  /\ strict \in BOOLEAN
  /\ header \in [Observers -> Blocks \cup {NoBlock}]
  /\ order \in Seq(Observers)
  /\ allowed \subseteq Observers
  /\ head \in Blocks \cup {NoBlock}
  /\ list \in Seq(Keys)
  /\ active \subseteq Keys

\* The tokens of the operations under way: locked and not minted, or burned and not
\* released.
UnderWay(o) == op[o].kind # "none" /\ ~op[o].executed /\ ~op[o].returned
Tokens(o) == {o} \X (1..Amount[o])
Owed == UNION {Tokens(o) : o \in {p \in Ops : UnderWay(p)}}

\* Conservation across both chains: what the escrow holds is the supply of the
\* wrapper and the amounts of the operations under way, in both directions. So no
\* call of any actor, in any order, creates supply or leaves a wrapped token
\* without its canonical one (docs/PHASE4_BRIDGE_DEX_SPEC.md:51).
Backed == locked = Supply + Cardinality(Owed)

\* An operation has one outcome: it never both executes on one side and is given
\* back on the other, whose contracts know of each other only through the proof;
\* and one that governance failed or a reorganisation invalidated never executed
\* (docs/PHASE4_BRIDGE_DEX_SPEC.md:95).
OneOutcome ==
  \A o \in Ops : op[o].executed => ~op[o].returned /\ ~op[o].failed /\ ~op[o].invalid

\* The head moves only to a block with a quorum and without a rival of its height
\* that has one too: _uniqueHead, which counts in one walk over the observers,
\* picks no side of an even split.
NoRivalHead ==
  [][head' # head => /\ HeaderQuorum(head')
                     /\ \A b \in Blocks \ {head'} :
                          Height[b] = Height[head'] /\ Holders(b) # {} => ~HeaderQuorum(b)]_vars

\* Signers can be revoked only while more are active than the quorum asks (the check
\* "quorum-unsafe"): a quorum of active signers is always left.  A signer listed
\* twice is counted twice, so this does not hold (README, Known divergences).
QuorumLeft == Cardinality(active) >= Quorum
=============================================================================
