---------------------------- MODULE RuntimeWatch ----------------------------
(***************************************************************************)
(* The watch kept over one agent's runtime (one owner, one key): the       *)
(* supervisors that prove it alive (lib/agent-runtime-supervisor.js), the  *)
(* lease the server keeps of it (lib/agent-runtime.js), and the incidents  *)
(* that quarantine it (lib/agent-incidents.js), with the handlers of       *)
(* server.js that join them.                                               *)
(*                                                                         *)
(* A supervisor owns a file [session, pending].  One cycle reads the       *)
(* server's status, decides, writes the whole next heartbeat to the file,  *)
(* sends it, and clears the file when the answer matches.  Requests and    *)
(* answers are lost or late; a supervisor that dies forgets all but its    *)
(* file.  The server's handlers are synchronous: each is one step, except  *)
(* that it may die between the save of the runtime and the save of the     *)
(* incidents.                                                              *)
(*                                                                         *)
(* Abstracted: the payload's mission, stage and cursor (a supervisor that  *)
(* takes over copies them from the checkpoint it names), time beyond the   *)
(* three ages of a lease and the ten-minute window, resolved incidents,    *)
(* which nothing reads again, and occurrence counts above the threshold.   *)
(***************************************************************************)
EXTENDS Integers, Sequences, FiniteSets, SequencesExt, FiniteSetsExt

CONSTANTS Supervisors,  \* companion processes of one agent key, each with its file
          None,         \* no pending heartbeat
          RECOVERY_FAILURE_QUARANTINE_THRESHOLD,
          MaxBeats,     \* heartbeats ever composed
          MaxOpen,      \* recovery failures open at once
          MaxTroubles   \* messages lost, supervisors restarted, deaths of the server
                        \* inside a handler, and ten-minute windows that pass

ASSUME RuntimeConstants ==
  /\ Supervisors # {}
  /\ RECOVERY_FAILURE_QUARANTINE_THRESHOLD \in Nat \ {0}
  /\ {MaxBeats, MaxOpen, MaxTroubles} \subseteq Nat

VARIABLES
  runtime,     \* the lease on disk: session in charge, sequence, payload, state, age, checkpoint
  quarantine,  \* runtime.quarantine.incidentRefs, saved with the lease
  incidents,   \* the active incidents of each category, oldest first, in their file
  file,        \* each supervisor's state file
  cycle,       \* where each supervisor is in its cycle, and the status it read
  late,        \* heartbeats given up by their sender and still under way
  troubles,
  applied,     \* history: the heartbeats the lease accepted, in order
  issued,      \* history: the heartbeats any supervisor wrote ahead
  torn         \* history: incident refs whose quarantine a crash left half saved

server == <<runtime, quarantine, incidents>>
watchVars == <<server, file, cycle, late, troubles, applied, issued, torn>>

Beats == [session : 1..MaxBeats, seq : 1..MaxBeats, resume : 0..MaxBeats,
          state : {"ready", "draining"}]
ASSUME NoneAssumption == None \notin Beats
Categories == {"runtime-offline", "runtime-recovery-failure"}
Enrolled == runtime.session # 0

\* health(): a draining lease never ages.
Health(r) == IF r.state = "draining" THEN "draining" ELSE r.age
Replaceable == {"offline", "draining"}
Status == [session |-> runtime.session, seq |-> runtime.seq,
           checkpoint |-> runtime.checkpoint, health |-> Health(runtime)]

WatchInit ==
  /\ runtime = [session |-> 0, seq |-> 0, beat |-> None, state |-> "ready",
                age |-> "ready", checkpoint |-> 0]
  /\ quarantine = {} /\ incidents = [c \in Categories |-> <<>>]
  /\ file = [s \in Supervisors |-> [session |-> 0, pending |-> None]]
  /\ cycle = [s \in Supervisors |-> [at |-> "idle", remote |-> None]]
  /\ late = {} /\ troubles = 0
  /\ applied = <<>> /\ issued = {} /\ torn = {}

-----------------------------------------------------------------------------
\* Incidents.  A desk is what the two files say: [incidents, refs].

Desk == [incidents |-> incidents, refs |-> quarantine]

\* crypto.randomUUID(): a reference nothing holds or held.
FreshRef(category, d) ==
  LET used == {i.ref : i \in ToSet(d.incidents[category])}
              \cup {hold[2] : hold \in {h \in d.refs \cup torn : h[1] = category}}
  IN CHOOSE n \in 1..(Cardinality(used) + 1) : n \notin used

Opened(category, d) ==
  [d EXCEPT !.incidents[category] = Append(@,
     [ref |-> FreshRef(category, d), status |-> "open", count |-> 1,
      acked |-> FALSE, quarantined |-> FALSE, recent |-> TRUE])]

\* activeIncident() is the oldest of its category: it is resolved, or marked.
Closed(category, d) == [d EXCEPT !.incidents[category] = Tail(@)]
Marked(category, status, d) == [d EXCEPT !.incidents[category][1].status = status]

\* quarantine() and applyRuntimeQuarantine().
Quarantined(category, n, d) ==
  IF d.incidents[category][n].quarantined THEN d
  ELSE [incidents |-> [d.incidents EXCEPT ![category][n].quarantined = TRUE],
        refs |-> d.refs \cup {<<category, d.incidents[category][n].ref>>}]

OfflineSeen(health, d) ==
  LET active == d.incidents["runtime-offline"] # <<>>
      open == IF active THEN Marked("runtime-offline", "open", d)
              ELSE Opened("runtime-offline", d)
  IN CASE health = "offline" -> Quarantined("runtime-offline", 1, open)
       [] health = "ready" /\ active -> Marked("runtime-offline", "recovery-detected", d)
       [] OTHER -> d

\* Mutant: a failure that quarantined the runtime expires like any other.
WindowElapsed(i) == ~i.recent

\* A failure that quarantined the runtime waits for the owner.
Expired(i) == ~i.quarantined /\ ~i.recent

RecoveryFailureSeen(health, d) ==
  LET active == d.incidents["runtime-recovery-failure"] # <<>>
      i == d.incidents["runtime-recovery-failure"][1]
      reviewable == health = "ready" /\ i.status = "open" /\ (i.quarantined \/ i.acked)
  IN CASE active /\ reviewable -> Marked("runtime-recovery-failure", "recovery-detected", d)
       [] active /\ ~reviewable /\ Expired(i) -> Closed("runtime-recovery-failure", d)
       [] OTHER -> d

\* reconcileRuntimeIncidents() over the one runtime.
Reconciled(health, d) ==
  RecoveryFailureSeen(health, OfflineSeen(health, d))

Swept == IF Enrolled THEN Reconciled(Health(runtime), Desk) ELSE Desk

\* recordRuntimeFailure(): a rejected heartbeat of an enrolled agent.
FailureRecorded(d) ==
  LET failures == d.incidents["runtime-recovery-failure"]
      new == failures = <<>> \/ ~failures[1].recent
      n == IF new THEN Len(failures) + 1 ELSE 1
      seen == IF new THEN Opened("runtime-recovery-failure", d)
              ELSE Marked("runtime-recovery-failure", "open", d)
      count == IF new THEN 1 ELSE Min({failures[1].count + 1, RECOVERY_FAILURE_QUARANTINE_THRESHOLD})
      counted == [seen EXCEPT !.incidents["runtime-recovery-failure"][n].count = count]
  IN IF count = RECOVERY_FAILURE_QUARANTINE_THRESHOLD
     THEN Quarantined("runtime-recovery-failure", n, counted) ELSE counted

SaveDesk(d) == incidents' = d.incidents /\ quarantine' = d.refs

-----------------------------------------------------------------------------
\* The lease: recordAgentHeartbeat() and the handler around it.

Enrols(b) == ~Enrolled /\ b.seq = 1
Renews(b) == Enrolled /\ b.session = runtime.session /\ b.seq > runtime.seq
Replays(b) == Enrolled /\ b = runtime.beat

\* Mutant: any checkpoint of the past will do.
RecoversFromAny(b) ==
  /\ Enrolled /\ b.session # runtime.session
  /\ Health(runtime) \in Replaceable
  /\ b.seq = 1

\* A new session needs a lease that is given up, and its exact checkpoint.
Recovers(b) ==
  /\ Enrolled /\ b.session # runtime.session
  /\ Health(runtime) \in Replaceable
  /\ b.seq = 1 /\ b.resume = runtime.checkpoint

Accepted(b) == Enrols(b) \/ Renews(b) \/ Recovers(b)

\* Mutant: the declared state is not kept.
RenewedReady(b) ==
  [session |-> b.session, seq |-> b.seq, beat |-> b, state |-> "ready",
   age |-> "ready", checkpoint |-> runtime.checkpoint + 1]

Renewed(b) ==
  [session |-> b.session, seq |-> b.seq, beat |-> b, state |-> b.state,
   age |-> "ready", checkpoint |-> runtime.checkpoint + 1]

Trouble == troubles < MaxTroubles /\ troubles' = troubles + 1

\* The refs a step saved with the lease and lost with the incidents.
Tear(refs) ==
  /\ Trouble
  /\ torn' = torn \cup refs

\* Mutant: the heartbeat is recorded before the outage is.
AcceptUnseen(b) ==
  /\ Accepted(b)
  /\ runtime' = Renewed(b)
  /\ applied' = Append(applied, b)
  /\ SaveDesk(Reconciled(Health(Renewed(b)), Desk))
  /\ UNCHANGED <<troubles, torn>>

\* POST /api/agent-runtime/heartbeat accepted: reconcile, record, reconcile.
Accept(b) ==
  /\ Accepted(b)
  /\ runtime' = Renewed(b)
  /\ applied' = Append(applied, b)
  /\ SaveDesk(Reconciled(Health(Renewed(b)), Swept))
  /\ UNCHANGED <<troubles, torn>>

\* ... the server dies before the second reconcile, and answers nothing.
AcceptDies(b) ==
  /\ Accepted(b)
  /\ runtime' = Renewed(b)
  /\ applied' = Append(applied, b)
  /\ SaveDesk(Swept)
  /\ Tear({})

Replay(b) == Replays(b) /\ SaveDesk(Reconciled(Health(runtime), Swept))
                        /\ UNCHANGED <<runtime, applied, troubles, torn>>

\* ... rejected: 409, and a failure of the enrolled agent is recorded.
Reject(b) ==
  /\ ~Accepted(b) /\ ~Replays(b)
  /\ UNCHANGED <<runtime, applied>>
  /\ LET failed == IF Enrolled THEN FailureRecorded(Swept) ELSE Swept
     IN /\ Len(failed.incidents["runtime-recovery-failure"]) <= MaxOpen
        /\ \/ SaveDesk(failed) /\ UNCHANGED <<troubles, torn>>
           \/ /\ failed.refs # Swept.refs         \* died between the two saves
              /\ quarantine' = failed.refs /\ incidents' = Swept.incidents
              /\ Tear(failed.refs \ Swept.refs)

-----------------------------------------------------------------------------
\* A supervisor's cycle: runSupervisorCycle().

At(s, place) == cycle' = [cycle EXCEPT ![s] = [at |-> place, remote |-> None]]
CycleEnds(s) == At(s, "idle")

\* GET /api/agent-runtime reconciles, then answers the status.
Ask(s) ==
  /\ cycle[s].at = "idle"
  /\ cycle' = [cycle EXCEPT ![s] = [at |-> "asked", remote |-> Status]]
  /\ SaveDesk(Swept)
  /\ UNCHANGED <<runtime, file, late, troubles, applied, issued, torn>>

\* remoteAcceptedPending(): the lost answer was a yes.
RemoteAccepted(remote, b) == remote.session = b.session /\ remote.seq = b.seq

\* acceptedState()
Settled(b) == [session |-> b.session, pending |-> None]

Reconcile(s) ==
  /\ cycle[s].at = "asked" /\ file[s].pending # None
  /\ RemoteAccepted(cycle[s].remote, file[s].pending)
  /\ file' = [file EXCEPT ![s] = Settled(file[s].pending)]
  /\ CycleEnds(s)
  /\ UNCHANGED <<server, late, troubles, applied, issued, torn>>

\* The pending heartbeat may go out again.
Resendable(remote, b) ==
  \/ remote.session = b.session /\ remote.seq < b.seq
  \/ remote.session = 0 /\ b.seq = 1 /\ b.resume = 0
  \/ remote.session # b.session /\ remote.health \in Replaceable

Resend(s) ==
  /\ cycle[s].at = "asked" /\ file[s].pending # None
  /\ ~RemoteAccepted(cycle[s].remote, file[s].pending)
  /\ Resendable(cycle[s].remote, file[s].pending)
  /\ At(s, "sent")
  /\ UNCHANGED <<server, file, late, troubles, applied, issued, torn>>

\* createSupervisorSessionId()
FreshSession == Cardinality({b.session : b \in issued}) + 1

\* heartbeatFor(): enrol, renew one's own session, or take over a dead one.
HeartbeatFor(s, remote, state) ==
  CASE remote.session = 0 ->
         {[session |-> FreshSession, seq |-> 1, resume |-> 0, state |-> state]}
    [] remote.session # 0 /\ remote.session = file[s].session ->
         {[session |-> remote.session, seq |-> remote.seq + 1, resume |-> 0, state |-> state]}
    [] remote.session # 0 /\ remote.session # file[s].session /\ remote.health \in Replaceable ->
         {[session |-> FreshSession, seq |-> 1, resume |-> remote.checkpoint, state |-> state]}
    [] OTHER -> {}

\* Written ahead, then sent.
Compose(s) ==
  /\ cycle[s].at = "asked" /\ file[s].pending = None
  /\ Cardinality(issued) < MaxBeats
  /\ \E state \in {"ready", "draining"} : \E b \in HeartbeatFor(s, cycle[s].remote, state) :
       /\ file' = [file EXCEPT ![s].pending = b]
       /\ issued' = issued \cup {b}
  /\ At(s, "sent")
  /\ UNCHANGED <<server, late, troubles, applied, torn>>

\* A cycle that throws: another runtime is in charge and alive.
Refuse(s) ==
  /\ cycle[s].at = "asked"
  /\ IF file[s].pending = None
     THEN HeartbeatFor(s, cycle[s].remote, "ready") = {}
     ELSE /\ ~RemoteAccepted(cycle[s].remote, file[s].pending)
          /\ ~Resendable(cycle[s].remote, file[s].pending)
  /\ CycleEnds(s)
  /\ UNCHANGED <<server, file, late, troubles, applied, issued, torn>>

\* The server takes the request: the answer goes back, a 409 ends the cycle.
Deliver(s) ==
  /\ cycle[s].at = "sent"
  /\ LET b == file[s].pending
     IN \/ (Accept(b) \/ Replay(b)) /\ At(s, "answered")
        \/ (AcceptDies(b) \/ Reject(b)) /\ CycleEnds(s)
  /\ UNCHANGED <<file, late, issued>>

\* A request its sender gave up arrives all the same.
DeliverLate(b) ==
  /\ b \in late /\ late' = late \ {b}
  /\ Accept(b) \/ AcceptDies(b) \/ Replay(b) \/ Reject(b)
  /\ UNCHANGED <<file, cycle, issued>>

Acknowledge(s) ==
  /\ cycle[s].at = "answered"
  /\ file' = [file EXCEPT ![s] = Settled(file[s].pending)]
  /\ CycleEnds(s)
  /\ UNCHANGED <<server, late, troubles, applied, issued, torn>>

\* A timeout, a lost message or a restart: the file is all that stays.
GiveUp(s) ==
  /\ cycle[s].at # "idle" /\ Trouble
  /\ CycleEnds(s)
  /\ \/ UNCHANGED late
     \/ cycle[s].at = "sent" /\ late' = late \cup {file[s].pending}
  /\ UNCHANGED <<server, file, applied, issued, torn>>

-----------------------------------------------------------------------------
\* Time, the ten-second sweep, and the owner.

Later == [ready |-> "degraded", degraded |-> "offline", offline |-> "offline"]

Age ==
  /\ Enrolled /\ runtime.age # "offline"
  /\ runtime' = [runtime EXCEPT !.age = Later[@]]
  /\ UNCHANGED <<quarantine, incidents, file, cycle, late, troubles, applied, issued, torn>>

WindowPasses ==
  /\ Trouble
  /\ \E n \in DOMAIN incidents["runtime-recovery-failure"] :
       /\ incidents["runtime-recovery-failure"][n].recent
       /\ incidents' = [incidents EXCEPT !["runtime-recovery-failure"][n].recent = FALSE]
  /\ UNCHANGED <<runtime, quarantine, file, cycle, late, applied, issued, torn>>

Sweep ==
  /\ Swept # Desk /\ SaveDesk(Swept)
  /\ UNCHANGED <<runtime, file, cycle, late, troubles, applied, issued, torn>>

\* A reconcile dies after the quarantine's save and before the incident's.
SweepDies ==
  /\ Swept.refs # quarantine /\ quarantine' = Swept.refs
  /\ Tear(Swept.refs \ quarantine)
  /\ UNCHANGED <<runtime, incidents, file, cycle, late, applied, issued>>

AcknowledgeIncident(category, n) ==
  /\ ~incidents[category][n].acked
  /\ incidents' = [incidents EXCEPT ![category][n].acked = TRUE]
  /\ UNCHANGED <<runtime, quarantine, file, cycle, late, troubles, applied, issued, torn>>

\* resolveIncident(): acknowledged, and the runtime ready if it is held;
\* releaseRuntimeQuarantine() lets this incident's hold go, and no other.
ResolveIncident(category, n) ==
  LET hold == <<category, incidents[category][n].ref>>
      held == incidents[category][n].quarantined /\ quarantine # {}
  IN /\ incidents[category][n].acked
     /\ held => hold \in quarantine /\ Health(runtime) = "ready"
     /\ quarantine' = IF held THEN quarantine \ {hold} ELSE quarantine
     /\ \/ /\ incidents' = [incidents EXCEPT ![category] = RemoveAt(@, n)]
           /\ UNCHANGED <<troubles, torn>>
        \/ held /\ Tear({hold}) /\ UNCHANGED incidents   \* died between the two saves
     /\ UNCHANGED <<runtime, file, cycle, late, applied, issued>>

WatchNext ==
  \/ \E s \in Supervisors :
       Ask(s) \/ Reconcile(s) \/ Resend(s) \/ Compose(s) \/ Refuse(s)
       \/ Deliver(s) \/ Acknowledge(s) \/ GiveUp(s)
  \/ \E b \in late : DeliverLate(b)
  \/ Age \/ WindowPasses \/ Sweep \/ SweepDies
  \/ \E category \in Categories : \E n \in DOMAIN incidents[category] :
       AcknowledgeIncident(category, n) \/ ResolveIncident(category, n)

WatchSpec == WatchInit /\ [][WatchNext]_watchVars

-----------------------------------------------------------------------------
\* Properties

\* The shape of every variable; an incident is active and has a reference of
\* its own, and a draining lease was declared so by the payload it holds.
WatchTypeOK ==
  /\ runtime \in [session : 0..MaxBeats, seq : 0..MaxBeats, beat : Beats \cup {None},
                  state : {"ready", "draining"}, age : DOMAIN Later, checkpoint : Nat]
  /\ Enrolled => /\ runtime.beat \in Beats /\ runtime.state = runtime.beat.state
                 /\ runtime.session = runtime.beat.session /\ runtime.seq = runtime.beat.seq
  /\ incidents \in [Categories ->
       Seq([ref : Nat \ {0}, status : {"open", "recovery-detected"},
            count : 1..RECOVERY_FAILURE_QUARANTINE_THRESHOLD,
            acked : BOOLEAN, quarantined : BOOLEAN, recent : BOOLEAN])]
  /\ \A c \in Categories : \A m, n \in DOMAIN incidents[c] :
       incidents[c][m].ref = incidents[c][n].ref => m = n
  /\ file \in [Supervisors -> [session : 0..MaxBeats, pending : Beats \cup {None}]]
  /\ \A s \in Supervisors :
       cycle[s].at \in {"sent", "answered"} => file[s].pending # None
  /\ {quarantine, torn} \subseteq SUBSET (Categories \X Nat)
  /\ late \subseteq issued /\ issued \subseteq Beats

\* What the lease accepted is one line of history: every heartbeat once, each
\* session in one stretch that only moves forward, and each handover from the
\* exact checkpoint the session before it left, whatever is lost, resent or
\* late (recordAgentHeartbeat's sequence, health and checkpoint checks).
HistoryIsOneLine ==
  /\ Len(applied) = runtime.checkpoint
  /\ \A i, j \in DOMAIN applied :
       i < j /\ applied[i].session = applied[j].session =>
         /\ applied[i].seq < applied[j].seq
         /\ \A k \in i..j : applied[k].session = applied[i].session
  /\ \A i \in DOMAIN applied \ {1} :
       applied[i].session # applied[i - 1].session =>
         applied[i].seq = 1 /\ applied[i].resume = i - 1

\* A heartbeat that is no longer pending in its supervisor's file was accepted:
\* a lost answer, a restart or a stale status never drops one; and no sequence
\* of a session is ever used for two payloads (the write-ahead record and
\* remoteAcceptedPending, which compares the session and the sequence alone).
\* The lease of its own session is never ahead of a pending heartbeat, so a
\* cycle can always settle it until another supervisor takes the lease over.
WriteAheadIsExact ==
  /\ \A b \in issued : b \in ToSet(applied) \/ \E s \in Supervisors : file[s].pending = b
  /\ \A b, c \in issued : b.session = c.session /\ b.seq = c.seq => b = c
  /\ \A s \in Supervisors :
       file[s].pending # None /\ file[s].pending.session = runtime.session =>
         runtime.beat = file[s].pending \/ runtime.seq + 1 = file[s].pending.seq

\* Write-ahead log and lease together: every heartbeat is accepted exactly once,
\* in one line of sessions.
EveryBeatOnce == HistoryIsOneLine /\ WriteAheadIsExact

\* The lease and the incident file agree on the quarantine: every incident that
\* quarantined the runtime still holds it, and every hold belongs to an active
\* incident the owner can resolve, except where the server died between the
\* two saves (quarantine, resolveIncident, the expiry of failures).
QuarantineAccounted ==
  /\ \A c \in Categories : \A i \in ToSet(incidents[c]) :
       i.quarantined => <<c, i.ref>> \in quarantine \cup torn
  /\ \A hold \in quarantine \ torn :
       \E i \in ToSet(incidents[hold[1]]) : i.ref = hold[2] /\ i.quarantined

\* No outage ends unseen: a lease that leaves "offline" leaves it quarantined,
\* since the heartbeat's handler reconciles before it records, except where a
\* crash has separated an incident from its hold.
NoOutageUnseen ==
  [][Enrolled /\ Health(runtime) = "offline" /\ Health(runtime') # "offline"
       => quarantine' # {} \/ torn # {}]_watchVars

\* "guarantees: deduplicated: true" (agent-incidents.js): one active incident for
\* each symptom.  A failure that quarantined the runtime outlives its window, and
\* every rejected heartbeat after that opens another: this does not hold (README,
\* Known divergences).
Deduplicated == \A c \in Categories : Len(incidents[c]) <= 1
=============================================================================
