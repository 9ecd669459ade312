-------------------------------- MODULE Triggers --------------------------------
(***************************************************************************)
(* User triggers (lib/triggers.js and the tick of server.js): a store that *)
(* requests edit at once, and a check that loads it, awaits a price per    *)
(* trigger and then writes its own copy back. Only one check runs. Values  *)
(* and thresholds are reduced to whether the condition holds now; a        *)
(* trigger that fires and proposes adds to live-proposals.json, a file of  *)
(* its own that is written at once.                                        *)
(***************************************************************************)
EXTENDS Integers, FiniteSets

CONSTANTS Triggers,         \* ids of triggers.json, each given once
          Proposing,        \* those whose action is propose, of an owner
          MaxEdits, MaxFires, MaxRestarts   \* bound the edits, the proposals and the restarts

ASSUME ProposingAssumption == Proposing \subseteq Triggers
ASSUME BoundAssumption == {MaxEdits, MaxFires, MaxRestarts} \subseteq Nat

VARIABLES disk,             \* triggers.json: byId
          tick,             \* checkTriggers: not running, or its copy of the store and what is left of it
          holds,            \* the triggers whose condition the market meets now
          proposals,        \* how many a trigger has proposed, in live-proposals.json
          told,             \* what its owner was last told of a trigger
          overwritten,      \* history: edited under a check that has then saved
          quiet,            \* history: fired, and neither seen false nor enabled since
          edits, restarts

watched == <<told, overwritten, quiet>>
triggersVars == <<disk, tick, holds, proposals, watched, edits, restarts>>

\* A trigger of the store is off, or on and armed or not.
States == {"none", "off", "armed", "fired"}
On == {"armed", "fired"}
NoTick == [running |-> FALSE, todo |-> {}, copy |-> [t \in Triggers |-> "none"], edited |-> {}]

TriggersInit ==
  /\ disk = [t \in Triggers |-> "none"]
  /\ tick = NoTick
  /\ holds \in SUBSET Triggers
  /\ proposals = [t \in Triggers |-> 0]
  /\ told = [t \in Triggers |-> "new"]
  /\ overwritten = {} /\ quiet = {}
  /\ edits = 0 /\ restarts = 0

-----------------------------------------------------------------------------
(* Requests                                                                *)

Edit(t, state, answer) ==
  /\ edits < MaxEdits /\ edits' = edits + 1
  /\ disk' = [disk EXCEPT ![t] = state]
  /\ told' = [told EXCEPT ![t] = answer]
  /\ tick' = [tick EXCEPT !.edited = IF tick.running THEN @ \cup {t} ELSE @]
  /\ overwritten' = overwritten \ {t}
  /\ quiet' = quiet \ {t}
  /\ UNCHANGED <<holds, proposals, restarts>>

CreateTrigger(t) == told[t] = "new" /\ Edit(t, "armed", "on")

\* Mutant: switching a trigger off leaves it armed for the check.
StaysArmed(t) == disk[t] # "none" /\ Edit(t, "armed", "off")

Disable(t) == disk[t] # "none" /\ Edit(t, "off", "off")
Enable(t) == disk[t] # "none" /\ Edit(t, "armed", "on")
DeleteTrigger(t) == disk[t] # "none" /\ Edit(t, "none", "deleted")

Market(t) ==
  /\ holds' = IF t \in holds THEN holds \ {t} ELSE holds \cup {t}
  /\ UNCHANGED <<disk, tick, proposals, watched, edits, restarts>>

-----------------------------------------------------------------------------
(* checkTriggers                                                           *)

\* Mutant: triggers that are off are checked too.
ChecksDisabled ==
  /\ ~tick.running
  /\ tick' = [running |-> TRUE, todo |-> {t \in Triggers : disk[t] # "none"}, copy |-> disk, edited |-> {}]
  /\ UNCHANGED <<disk, holds, proposals, watched, edits, restarts>>

CheckTriggers ==
  /\ ~tick.running
  /\ tick' = [running |-> TRUE, todo |-> {t \in Triggers : disk[t] \in On}, copy |-> disk, edited |-> {}]
  /\ UNCHANGED <<disk, holds, proposals, watched, edits, restarts>>

Checking(t) == tick.running /\ t \in tick.todo
Checked(t, state) == tick' = [tick EXCEPT !.todo = @ \ {t}, !.copy[t] = state]

\* Mutant: a trigger that has fired stays armed.
FiresAgain(t) ==
  /\ Checking(t) /\ t \in holds /\ tick.copy[t] = "armed"
  /\ Checked(t, "armed")
  /\ proposals[t] < MaxFires
  /\ proposals' = [proposals EXCEPT ![t] = IF t \in Proposing THEN @ + 1 ELSE @]
  /\ quiet' = quiet \cup {t}
  /\ UNCHANGED <<disk, holds, told, overwritten, edits, restarts>>

Fire(t) ==
  /\ Checking(t) /\ t \in holds /\ tick.copy[t] = "armed"
  /\ Checked(t, "fired")
  /\ proposals[t] < MaxFires
  /\ proposals' = [proposals EXCEPT ![t] = IF t \in Proposing THEN @ + 1 ELSE @]
  /\ quiet' = quiet \cup {t}
  /\ UNCHANGED <<disk, holds, told, overwritten, edits, restarts>>

Rearm(t) ==
  /\ Checking(t) /\ t \notin holds
  /\ Checked(t, "armed")
  /\ quiet' = quiet \ {t}
  /\ UNCHANGED <<disk, holds, proposals, told, overwritten, edits, restarts>>

\* Mutant: a trigger whose price did not come is tried again at once.
TryAgain(t) == Checking(t) /\ UNCHANGED triggersVars

\* It still holds, or its price did not come.
Pass(t) ==
  /\ Checking(t)
  /\ Checked(t, tick.copy[t])
  /\ UNCHANGED <<disk, holds, proposals, watched, edits, restarts>>

\* The whole store goes back to disk, over every edit since it was loaded.
SaveStore ==
  /\ tick.running /\ tick.todo = {}
  /\ disk' = tick.copy
  /\ overwritten' = overwritten \cup tick.edited
  /\ tick' = NoTick
  /\ UNCHANGED <<holds, proposals, told, quiet, edits, restarts>>

Restart ==
  /\ restarts < MaxRestarts /\ restarts' = restarts + 1
  /\ tick' = NoTick
  /\ quiet' = {t \in quiet : disk[t] # "armed"}
  /\ UNCHANGED <<disk, holds, proposals, told, overwritten, edits>>

TickStep == SaveStore \/ \E t \in Triggers : Fire(t) \/ Rearm(t) \/ Pass(t)
Request(t) == CreateTrigger(t) \/ Disable(t) \/ Enable(t) \/ DeleteTrigger(t)
TriggersNext == (\E t \in Triggers : Request(t) \/ Market(t)) \/ CheckTriggers \/ TickStep \/ Restart

\* The tick comes every minute, and every price is answered or fails.
TriggersFairness == WF_triggersVars(CheckTriggers) /\ WF_triggersVars(TickStep)
TriggersSpec == TriggersInit /\ [][TriggersNext]_triggersVars /\ TriggersFairness

-----------------------------------------------------------------------------
(* Properties                                                              *)

TriggersTypeOK ==
  /\ disk \in [Triggers -> States]
  /\ tick \in [running : BOOLEAN, todo : SUBSET Triggers, copy : [Triggers -> States], edited : SUBSET Triggers]
  /\ \A t \in tick.todo : tick.running /\ tick.copy[t] \in On
  /\ holds \subseteq Triggers
  /\ proposals \in [Triggers -> 0..MaxFires]
  /\ told \in [Triggers -> {"new", "on", "off", "deleted"}]
  /\ overwritten \subseteq Triggers /\ quiet \subseteq Triggers
  /\ edits \in 0..MaxEdits /\ restarts \in 0..MaxRestarts

Agrees(t) ==
  CASE told[t] = "on" -> disk[t] \in On
    [] told[t] = "off" -> disk[t] = "off"
    [] OTHER -> disk[t] = "none"

\* What an owner was told of a trigger is what the store holds, through checks
\* and restarts, unless a check that had loaded the store before the answer
\* saved it after (createTrigger, setEnabled, deleteTrigger, checkTriggers).
EditsHoldUnlessOverwritten == \A t \in Triggers : t \in overwritten \/ Agrees(t)

\* A trigger proposes once per time its condition comes true, restarts aside:
\* not again until a check has seen it false or its owner enables it; and only
\* while its owner has it on, unless a check overtook the edit (checkTriggers).
ProposesOnEdges ==
  [][\A t \in Triggers : proposals[t]' > proposals[t] =>
       /\ t \notin quiet
       /\ told[t] = "on" \/ t \in tick.edited \cup overwritten]_triggersVars

\* Every check ends, so the next one can start: a price that does not come
\* is passed over (checkTriggers, trigRunning of checkTriggersTick).
EveryCheckEnds == tick.running ~> ~tick.running
=============================================================================
