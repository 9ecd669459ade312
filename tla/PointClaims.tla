------------------------------ MODULE PointClaims ------------------------------
(***************************************************************************)
(* Points converted to AITT: the points ledger and the claims of the       *)
(* server (lib/points.js, lib/aitt-claims.js and their handlers), the      *)
(* PointsConverter contract, and the operator's script that approves a     *)
(* snapshot of claims on chain (contracts/scripts/sync-claims.js).         *)
(*                                                                         *)
(* Amounts are whole points; both sides scale by the same factor. An       *)
(* account has one EVM address and an address one account                  *)
(* (lib/evm-wallets.js), so a user stands for both. A claim is listed in   *)
(* at most one snapshot file: the owner writes the files, no code checks   *)
(* them against each other. Transactions of the operator are mined in the  *)
(* order of their nonces.                                                  *)
(***************************************************************************)
EXTENDS Integers, Sequences, FiniteSets, FiniteSetsExt

CONSTANTS Users, Claims,
          Owner, Points,    \* of a claim
          MaxEarned,        \* bounds what each user earns
          MaxReserve,       \* bounds what the owner funds
          MaxTxs, MaxCrashes \* bound the approval transactions and the stops of a process

ASSUME UsersAssumption == IsFiniteSet(Users)
ASSUME ClaimsAssumption == IsFiniteSet(Claims)
ASSUME OwnerAssumption == Owner \in [Claims -> Users]
ASSUME PointsAssumption == Points \in [Claims -> Nat \ {0}]
ASSUME BoundAssumption == MaxEarned \in [Users -> Nat] /\ {MaxReserve, MaxTxs, MaxCrashes} \subseteq Nat

VARIABLES claim, settledBy, \* aitt-claims-v2.json: status, and which conversion has paid the claim
          earned,           \* credits of the points ledger that are not provisional
          debits, saved,    \* claims the ledger has a conversion_debit for, in memory and in points.json
          proved,    \* requests waiting inside the server: past the release gate, past the chain's evidence
          approved, paid,   \* PointsConverter: approved and claimed, per user
          reserve, outstanding, closed,
          conversions,      \* its Converted events
          txs,              \* approveClaims transactions, by nonce
          snapshot, listed, \* the claims of the operator's file; of every file so far
          entry,            \* the manifests: the transaction that is evidence for a claim, or 0
          run,              \* sync-claims.js, when it runs
          forgotten,        \* history: users a restart has made forget a debit of a settled claim
          unlogged,         \* history: claims sent by a script that stopped before its manifest said so
          crashes

server == <<claim, settledBy, earned, debits, saved, proved, forgotten>>
converter == <<approved, paid, reserve, outstanding, closed, conversions>>
operator == <<snapshot, listed, entry, run, unlogged>>
vars == <<server, converter, txs, operator, crashes>>

Statuses == {"none", "reserved", "approved", "claimed", "released"}
Of(u) == {c \in Claims : Owner[c] = u}
\* The sum of the points of the claims in S, point by point.
Worth(S) == UNION {{c} \X (1..Points[c]) : c \in S}
Total(S) == Cardinality(Worth(S))
NoRun == [at |-> "off", left |-> {}, amount |-> [c \in Claims |-> 0], tx |-> 0]

Init ==
  /\ claim = [c \in Claims |-> "none"] /\ settledBy = [c \in Claims |-> 0]
  /\ earned = [u \in Users |-> 0]
  /\ debits = {} /\ saved = {}
  /\ proved = {}
  /\ approved = [u \in Users |-> 0] /\ paid = [u \in Users |-> 0]
  /\ reserve = 0 /\ outstanding = 0
  /\ closed = FALSE
  /\ conversions = <<>> /\ txs = <<>>
  /\ snapshot = {} /\ listed = {}
  /\ entry = [c \in Claims |-> 0]
  /\ run = NoRun
  /\ forgotten = {} /\ unlogged = {}
  /\ crashes = 0

-----------------------------------------------------------------------------
(* The points ledger and the claims                                        *)

Credit(u) ==
  /\ earned[u] < MaxEarned[u]
  /\ earned' = [earned EXCEPT ![u] = @ + 1]
  /\ saved' = debits
  /\ UNCHANGED <<claim, settledBy, debits, proved, forgotten, converter, txs, operator, crashes>>

Active == {c \in Claims : claim[c] \in {"reserved", "approved"}}

\* Mutant: claims that are approved on chain hold no points any more.
AvailableOnceApproved(u) ==
  earned[u] - Total(debits \cap Of(u)) - Total({c \in Of(u) : claim[c] = "reserved"})

AvailablePoints(u) == earned[u] - Total(debits \cap Of(u)) - Total(Active \cap Of(u))

\* POST /api/points/claim. The release gate was awaited before: it holds the
\* reserve against the claims so far and not against this one; it is open here.
ReserveClaim(c) ==
  /\ claim[c] = "none"
  /\ AvailablePoints(Owner[c]) >= Points[c]
  /\ claim' = [claim EXCEPT ![c] = "reserved"]
  /\ UNCHANGED <<settledBy, earned, debits, saved, proved, forgotten, converter, txs, operator, crashes>>

\* The owner presents the transaction and the amount of the manifest.
ProveApproval(c) ==
  /\ claim[c] = "reserved" /\ c \notin proved /\ entry[c] # 0
  /\ txs[entry[c]].state = "mined"
  /\ approved[Owner[c]] = txs[entry[c]].rows[c]
  /\ proved' = proved \cup {c}
  /\ UNCHANGED <<claim, settledBy, earned, debits, saved, forgotten, converter, txs, operator, crashes>>

MarkApproved(c) ==
  /\ c \in proved
  /\ proved' = proved \ {c}
  /\ claim' = IF claim[c] = "reserved" THEN [claim EXCEPT ![c] = "approved"] ELSE claim
  /\ UNCHANGED <<settledBy, earned, debits, saved, forgotten, converter, txs, operator, crashes>>

\* Mutant: a conversion pays for any number of claims of its amount.
AnyConversion(c, k) ==
  /\ claim[c] = "approved"
  /\ conversions[k] = [user |-> Owner[c], amount |-> Points[c]]

\* The receipt shows a conversion of exactly the claim, which has settled no other.
Settles(c, k) ==
  /\ claim[c] = "approved"
  /\ conversions[k] = [user |-> Owner[c], amount |-> Points[c]]
  /\ \A d \in Claims : settledBy[d] # k

\* debitForConversion finds the debit of an earlier attempt, or writes one.
Debitable(c) == c \in debits \/ earned[Owner[c]] - Total(debits \cap Of(Owner[c])) >= Points[c]

\* confirmClaimedOnchain. A debit that is already in memory is not saved again.
ConfirmClaimed(c, k) ==
  /\ Settles(c, k) /\ Debitable(c)
  /\ debits' = debits \cup {c}
  /\ saved' = IF c \in debits THEN saved ELSE debits'
  /\ claim' = [claim EXCEPT ![c] = "claimed"]
  /\ settledBy' = [settledBy EXCEPT ![c] = k]
  /\ UNCHANGED <<earned, proved, forgotten, converter, txs, operator, crashes>>

\* The save of the points throws, or the one of the claims after it.
ConfirmFails(c, k) ==
  /\ Settles(c, k) /\ Debitable(c)
  /\ debits' = debits \cup {c}
  /\ saved' \in {saved, IF c \in debits THEN saved ELSE debits'}
  /\ UNCHANGED <<claim, settledBy, earned, proved, forgotten, converter, txs, operator, crashes>>

ReleaseClaim(c) ==
  /\ claim[c] = "reserved"
  /\ claim' = [claim EXCEPT ![c] = "released"]
  /\ UNCHANGED <<settledBy, earned, debits, saved, proved, forgotten, converter, txs, operator, crashes>>

Restart ==
  /\ crashes < MaxCrashes /\ crashes' = crashes + 1
  /\ debits' = saved
  /\ forgotten' = forgotten \cup {Owner[c] : c \in {d \in debits \ saved : claim[d] = "claimed"}}
  /\ proved' = {}
  /\ UNCHANGED <<claim, settledBy, earned, saved, converter, txs, operator>>

-----------------------------------------------------------------------------
(* PointsConverter                                                         *)

Owed(c) == approved[Owner[c]] - paid[Owner[c]]
\* What users may still convert, point by point; its size is the sum of a[u] - p[u].
Convertible(S, a, p) == UNION {{u} \X ((p[u] + 1)..a[u]) : u \in S}
Owing(S, a, p) == Cardinality(Convertible(S, a, p))

\* A row overwrites what its user was approved for.
ApprovedBy(rows) ==
  [u \in Users |-> IF \E c \in DOMAIN rows : Owner[c] = u
                   THEN rows[CHOOSE c \in DOMAIN rows : Owner[c] = u]
                   ELSE approved[u]]
OutstandingAfter(rows) ==
  LET S == {Owner[c] : c \in DOMAIN rows}
  IN  outstanding - Owing(S, approved, paid) + Owing(S, ApprovedBy(rows), paid)

\* Mutant: approvals are not held against the funded reserve.
ApprovableUnfunded(rows) ==
  ~closed /\ \A c \in DOMAIN rows : rows[c] >= paid[Owner[c]]

\* approveClaims of a converter that is not paused does not revert.
Approvable(rows) ==
  /\ ~closed
  /\ \A c \in DOMAIN rows : rows[c] >= paid[Owner[c]]
  /\ OutstandingAfter(rows) <= reserve

\* The owner may pause the converter at any time: any transaction may revert.
Mine(n) ==
  /\ txs[n].state = "pending"
  /\ \A m \in 1..(n - 1) : txs[m].state # "pending"
  /\ \/ /\ Approvable(txs[n].rows)
        /\ txs' = [txs EXCEPT ![n].state = "mined"]
        /\ outstanding' = OutstandingAfter(txs[n].rows)
        /\ approved' = ApprovedBy(txs[n].rows)
     \/ /\ txs' = [txs EXCEPT ![n].state = "reverted"]
        /\ UNCHANGED <<outstanding, approved>>
  /\ UNCHANGED <<server, paid, reserve, closed, conversions, operator, crashes>>

Convert(u) ==
  LET amount == approved[u] - paid[u]
  IN  /\ amount > 0 /\ amount <= reserve
      /\ paid' = [paid EXCEPT ![u] = @ + amount]
      /\ reserve' = reserve - amount
      /\ outstanding' = outstanding - amount
      /\ conversions' = Append(conversions, [user |-> u, amount |-> amount])
      /\ UNCHANGED <<server, approved, closed, txs, operator, crashes>>

FundReserve(amount) ==
  /\ reserve + MapThenSumSet(LAMBDA u : paid[u], Users) + amount <= MaxReserve
  /\ reserve' = reserve + amount
  /\ UNCHANGED <<server, approved, paid, outstanding, closed, conversions, txs, operator, crashes>>

\* Mutant: what is owed to users is withdrawn too.
WithdrawOwed(amount) ==
  /\ closed
  /\ reserve' = reserve - amount
  /\ UNCHANGED <<server, approved, paid, outstanding, closed, conversions, txs, operator, crashes>>

WithdrawReserve(amount) ==
  /\ closed /\ amount <= reserve - outstanding
  /\ reserve' = reserve - amount
  /\ UNCHANGED <<server, approved, paid, outstanding, closed, conversions, txs, operator, crashes>>

CloseApprovals ==
  /\ ~closed /\ closed' = TRUE
  /\ UNCHANGED <<server, approved, paid, reserve, outstanding, conversions, txs, operator, crashes>>

-----------------------------------------------------------------------------
(* sync-claims.js                                                          *)

\* The owner writes the file of the next run; an unfinished one is given up.
NewSnapshot(S) ==
  /\ run.at = "off" /\ S # {}
  /\ \A c \in S : claim[c] = "reserved" /\ c \notin listed
  /\ \A c, d \in S : Owner[c] = Owner[d] => c = d
  /\ snapshot' = S
  /\ listed' = listed \cup S
  /\ UNCHANGED <<server, converter, txs, entry, run, unlogged, crashes>>

\* buildApprovalBatch: an approval is cumulative.
Expected(c) == paid[Owner[c]] + Points[c]
Confirmed == {c \in snapshot : entry[c] # 0}

\* The receipts of the manifest, buildApprovalBatch, confirmedClaimIdsFromManifest
\* and planApprovalResume throw nothing.
Plannable ==
  /\ \A c \in Confirmed :
       /\ txs[entry[c]].state = "mined"
       /\ txs[entry[c]].rows[c] = Expected(c)
       /\ approved[Owner[c]] = Expected(c)
  /\ \A c \in snapshot \ Confirmed : approved[Owner[c]] = paid[Owner[c]]
  /\ Total(snapshot) <= reserve
  /\ Total(snapshot \ Confirmed) <= reserve - MapThenSumSet(Owed, Confirmed)

Plan ==
  /\ run.at = "off" /\ snapshot # {} /\ Plannable
  /\ run' = [NoRun EXCEPT !.at = "sending", !.left = snapshot \ Confirmed,
                          !.amount = [c \in Claims |-> IF c \in snapshot THEN Expected(c) ELSE 0]]
  /\ UNCHANGED <<server, converter, txs, snapshot, listed, entry, unlogged, crashes>>

\* The transaction is estimated, signed and on its way; the manifest does not know it yet.
SubmitChunk(chunk) ==
  LET rows == [c \in chunk |-> run.amount[c]]
  IN  /\ run.at = "sending" /\ chunk # {} /\ chunk \subseteq run.left
      /\ Len(txs) < MaxTxs
      /\ Approvable(rows)
      /\ txs' = Append(txs, [rows |-> rows, state |-> "pending"])
      /\ run' = [run EXCEPT !.at = "sent", !.tx = Len(txs) + 1]
      /\ UNCHANGED <<server, converter, snapshot, listed, entry, unlogged, crashes>>

WriteManifest ==
  /\ run.at = "sent"
  /\ entry' = [c \in Claims |-> IF c \in DOMAIN txs[run.tx].rows THEN run.tx ELSE entry[c]]
  /\ run' = [run EXCEPT !.at = "waiting"]
  /\ UNCHANGED <<server, converter, txs, snapshot, listed, unlogged, crashes>>

ChunkConfirmed ==
  /\ run.at = "waiting" /\ txs[run.tx].state = "mined"
  /\ run' = [run EXCEPT !.at = "sending", !.left = @ \ DOMAIN txs[run.tx].rows, !.tx = 0]
  /\ UNCHANGED <<server, converter, txs, snapshot, listed, entry, unlogged, crashes>>

ChunkReverted ==
  /\ run.at = "waiting" /\ txs[run.tx].state = "reverted"
  /\ run' = NoRun
  /\ UNCHANGED <<server, converter, txs, snapshot, listed, entry, unlogged, crashes>>

Complete ==
  /\ run.at = "sending" /\ run.left = {}
  /\ run' = NoRun /\ snapshot' = {}
  /\ UNCHANGED <<server, converter, txs, listed, entry, unlogged, crashes>>

\* It dies, or a call to the chain throws.
ScriptStops ==
  /\ run.at # "off"
  /\ crashes < MaxCrashes /\ crashes' = crashes + 1
  /\ run' = NoRun
  /\ unlogged' = IF run.at = "sent" THEN unlogged \cup DOMAIN txs[run.tx].rows ELSE unlogged
  /\ UNCHANGED <<server, converter, txs, snapshot, listed, entry>>

-----------------------------------------------------------------------------
Handler(c) ==
  \/ ReserveClaim(c) \/ ProveApproval(c) \/ MarkApproved(c) \/ ReleaseClaim(c)
  \/ \E k \in DOMAIN conversions : ConfirmClaimed(c, k) \/ ConfirmFails(c, k)
Chain ==
  \/ \E n \in DOMAIN txs : Mine(n)
  \/ \E u \in Users : Convert(u)
  \/ \E amount \in 1..MaxReserve : FundReserve(amount) \/ WithdrawReserve(amount)
  \/ CloseApprovals
Script ==
  \/ Plan \/ WriteManifest \/ ChunkConfirmed \/ ChunkReverted \/ Complete \/ ScriptStops
  \/ \E S \in SUBSET Claims : SubmitChunk(S) \/ NewSnapshot(S)

Next == (\E u \in Users : Credit(u)) \/ (\E c \in Claims : Handler(c)) \/ Restart \/ Chain \/ Script
Spec == Init /\ [][Next]_vars

-----------------------------------------------------------------------------
(* Properties                                                              *)

Conversion == [user : Users, amount : Nat]
Tx(tx) ==
  /\ tx.state \in {"pending", "mined", "reverted"}
  /\ DOMAIN tx.rows \subseteq Claims /\ \A c \in DOMAIN tx.rows : tx.rows[c] \in Nat

TypeOK ==
  /\ claim \in [Claims -> Statuses] /\ settledBy \in [Claims -> Nat]
  /\ earned \in [Users -> Nat] /\ \A u \in Users : earned[u] <= MaxEarned[u]
  /\ debits \subseteq Claims /\ saved \subseteq debits
  /\ proved \subseteq Claims
  /\ approved \in [Users -> Nat] /\ paid \in [Users -> Nat]
  /\ reserve \in Nat /\ outstanding \in Int
  /\ closed \in BOOLEAN
  /\ conversions \in Seq(Conversion) /\ \A n \in DOMAIN txs : Tx(txs[n])
  /\ snapshot \subseteq listed /\ listed \subseteq Claims
  /\ entry \in [Claims -> 0..Len(txs)]
  /\ run \in [at : {"off", "sending", "sent", "waiting"}, left : SUBSET Claims, amount : [Claims -> Nat], tx : 0..Len(txs)]
  /\ run.at \in {"sent", "waiting"} => run.tx # 0
  /\ forgotten \subseteq Users /\ unlogged \subseteq listed
  /\ crashes \in 0..MaxCrashes

\* Whatever is mined, converted or withdrawn, and in whatever order, the
\* converter's reserve covers what it owes, and what it owes is the sum of what
\* each user may still convert (approveClaims, convert, withdrawReserve).
Solvent ==
  /\ \A u \in Users : paid[u] <= approved[u]
  /\ outstanding = Owing(Users, approved, paid)
  /\ outstanding <= reserve

\* A claim is settled by a conversion of its owner, of exactly its points, that
\* settles no other claim, and it is debited, unless a restart has forgotten
\* that (confirmClaimedOnchain, debitForConversion).
SettledOnce ==
  \A c \in Claims : claim[c] = "claimed" =>
    /\ settledBy[c] \in DOMAIN conversions
    /\ conversions[settledBy[c]] = [user |-> Owner[c], amount |-> Points[c]]
    /\ \A d \in Claims \ {c} : settledBy[d] # settledBy[c]
    /\ c \in debits \/ Owner[c] \in forgotten

\* No one can convert more than they have earned, across snapshots that stop
\* half way and are resumed or given up; unless a claim is released while a file
\* lists it, a transaction is missing from its manifest, or a restart forgets a
\* debit (availablePoints, reserveClaim, buildApprovalBatch, planApprovalResume).
PaidWithinPoints ==
  \A u \in Users \ forgotten :
    (\A c \in Of(u) \cap listed : claim[c] # "released" /\ c \notin unlogged) => approved[u] <= earned[u]

\* The statement of sync-claims.js that a snapshot is safely resumed: no one is
\* approved for more than the claims the operator has listed. (Violated.)
ResumePaysOnce == \A u \in Users : approved[u] <= Total(Of(u) \cap listed)
===============================================================================
