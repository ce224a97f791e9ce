----------------------------- MODULE SelfUpdate -----------------------------
(***************************************************************************)
(* The succession of a self-update: the agent (UpdateAgent) hands over to  *)
(* a detached applier (selfApplyRun in agent/privileged-helper.cpp) that   *)
(* stops it, installs the new package, brings the unit up, asks /healthz,  *)
(* and puts the old package back when a link gives way. Whatever agent     *)
(* starts next settles the operation by its own version.                   *)
(*                                                                         *)
(* dpkg and systemctl are modelled by their effect on the unit and on the  *)
(* installed version. The maintainer scripts stop the unit before a        *)
(* package is unpacked and start it afterwards.                            *)
(***************************************************************************)
EXTENDS UpdateAgent

CONSTANTS
    SystemMayFail,  \* whether systemctl stop/restart and the dpkg of the rollback can fail
    Attempts,       \* bringUp(): how often the restart is tried
    MaxReboots      \* bound: how often the machine reboots

\* The unit an applier works on is the agent's own.
ASSUME SelfAssumption ==
    /\ SelfProject \subseteq OwnService
    /\ SystemMayFail \in BOOLEAN
    /\ Attempts \in Nat \ {0}
    /\ MaxReboots \in Nat

applierElse == <<accepted, seen, applied, crashes, reboots>>

At(id, pc) == applier[id].pc = pc
step(id, pc) == applier' = [applier EXCEPT ![id] = [pc |-> pc, tries |-> 0]]

\* The applier is between its launch and its exit.
Busy(id) == applier[id].pc \notin {"none", "done", "rolled", "lost"}

\* What stopping the unit does to the process, if there is one.
unitEnds ==
    IF phase = "down" THEN UNCHANGED <<storeVars, phase, threadVars>> ELSE endProcess

stopUnit == unit' = "stopped" /\ unitEnds
restartUnit == unit' = "wanted" /\ unitEnds
unitStays == UNCHANGED <<storeVars, phase, threadVars, unit>>

\* dpkg --install: the unit is stopped, the files change, the unit is started.
install(v) == version' = v /\ restartUnit

-----------------------------------------------------------------------------
\* systemctl stop, whose result selfApplyRun() ignores.
ApplierStops(id) ==
    /\ At(id, "stop")
    /\ step(id, "install")
    /\ stopUnit \/ (SystemMayFail /\ unitStays)
    /\ UNCHANGED <<version, applierElse>>

\* dpkg of the new package. It may fail before it touches anything, or with the
\* new files in place and the unit stopped.
ApplierInstalls(id) ==
    /\ At(id, "install")
    /\ \/ step(id, "bring_up") /\ install(disk[id].to)
       \/ step(id, "roll_back") /\ unitStays /\ UNCHANGED version
       \/ step(id, "roll_back") /\ stopUnit /\ version' = disk[id].to
    /\ UNCHANGED applierElse

\* Mutant: bringUp() tries once more than it should.
ApplierBringsUpOnceMore(id) ==
    /\ At(id, "bring_up")
    /\ \/ step(id, "probe") /\ restartUnit
       \/ /\ restartUnit \/ (SystemMayFail /\ unitStays)
          /\ LET tries == applier[id].tries + 1
             IN  applier' = [applier EXCEPT ![id] =
                     IF tries <= Attempts THEN [pc |-> "bring_up", tries |-> tries]
                     ELSE [pc |-> "roll_back", tries |-> 0]]
    /\ UNCHANGED <<version, applierElse>>

\* bringUp(): restart and is-active, tried Attempts times in all.
ApplierBringsUp(id) ==
    /\ At(id, "bring_up")
    /\ \/ step(id, "probe") /\ restartUnit
       \/ /\ restartUnit \/ (SystemMayFail /\ unitStays)
          /\ LET tries == applier[id].tries + 1
             IN  applier' = [applier EXCEPT ![id] =
                     IF tries < Attempts THEN [pc |-> "bring_up", tries |-> tries]
                     ELSE [pc |-> "roll_back", tries |-> 0]]
    /\ UNCHANGED <<version, applierElse>>

\* healthProbe(): the agent answers, or it does not in the time it is given.
ApplierProbes(id) ==
    /\ At(id, "probe")
    /\ step(id, IF phase = "serving" THEN "done" ELSE "roll_back")
    /\ unitStays
    /\ UNCHANGED <<version, applierElse>>

\* Mutant: the rollback brings the unit up without the old package.
ApplierRollsBackNothing(id) ==
    /\ At(id, "roll_back")
    /\ step(id, "bring_up_old")
    /\ unitStays /\ UNCHANGED version
    /\ UNCHANGED applierElse

\* dpkg of the old package, whose result is ignored.
ApplierRollsBack(id) ==
    /\ At(id, "roll_back")
    /\ step(id, "bring_up_old")
    /\ \/ install(disk[id].from)
       \/ SystemMayFail /\ unitStays /\ UNCHANGED version
    /\ UNCHANGED applierElse

\* The last bringUp(), whose result is ignored.
ApplierBringsUpOld(id) ==
    /\ At(id, "bring_up_old")
    /\ step(id, "rolled")
    /\ restartUnit \/ (SystemMayFail /\ unitStays)
    /\ UNCHANGED <<version, applierElse>>

\* The machine reboots: every process is gone, the transient unit of an applier
\* for ever, and the enabled unit of the agent starts again.
Reboot ==
    /\ reboots < MaxReboots
    /\ reboots' = reboots + 1
    /\ restartUnit
    /\ applier' = [id \in Id |-> IF Busy(id) THEN [pc |-> "lost", tries |-> 0] ELSE applier[id]]
    /\ UNCHANGED <<version, historyVars>>

ApplierNext ==
    \E id \in Id : \/ ApplierStops(id) \/ ApplierInstalls(id) \/ ApplierBringsUp(id)
                   \/ ApplierProbes(id) \/ ApplierRollsBack(id) \/ ApplierBringsUpOld(id)

SelfNext == AgentNext \/ ApplierNext \/ Reboot

SelfSpec == AgentInit /\ [][SelfNext]_agentVars

\* The applier is a process of its own: it runs on, and dpkg and systemctl end.
FairSelfSpec ==
    /\ SelfSpec
    /\ AgentFairness
    /\ \A id \in Id :
          WF_agentVars(\/ ApplierStops(id) \/ ApplierInstalls(id) \/ ApplierBringsUp(id)
                       \/ ApplierProbes(id) \/ ApplierRollsBack(id) \/ ApplierBringsUpOld(id))

-----------------------------------------------------------------------------
SelfTypeOK ==
    /\ AgentTypeOK
    /\ \A id \in Id : applier[id].tries < Attempts
    /\ reboots \in 0..MaxReboots

\* No applier works without a way back: from its launch on, the file says that
\* the operation is delegated or settled, which version it came from, and which
\* packages were put aside.
ApplierHasWayBack ==
    \A id \in Id : applier[id].pc # "none" =>
        /\ disk[id].state \in {"delegated"} \cup Final
        /\ disk[id].selfUpdate /\ disk[id].refs
        /\ disk[id].from # NoVersion

\* A self-update is only ever settled by the agent that starts, and as
\* succeeded or rolled back only by the version that verdict names.
VerdictNamesTheRunningVersion ==
    [][\A id \in Id : disk[id].selfUpdate /\ disk'[id].state # disk[id].state =>
          /\ disk'[id].state = "succeeded" => phase = "loaded" /\ version = disk[id].to
          /\ disk'[id].state = "rolled_back" => phase = "loaded" /\ version = disk[id].from
      ]_agentVars

\* A delegated operation blocks every other one (409); while the agent serves,
\* somebody is still at work on it who will end this process or fail it. An
\* operation whose move to delegated could not be written was never handed over.
DelegationIsWatched ==
    phase = "serving" => \A id \in Id :
        operations[id].state = "delegated" /\ disk[id].state = "delegated" =>
            Busy(id) \/ (worker.id = id /\ worker.pc # "idle")

\* The agent comes back after every self-update, to a version that serves.
AgentComesBack == []<>(phase = "serving")

-----------------------------------------------------------------------------
(* What the documentation says and the code does not do.                   *)

\* "Jamais un succes si le service n'est pas sain, meme a la bonne version"
\* (test/contract_test.cpp): a self-update is recorded as succeeded only for a
\* version that serves.
SuccessMeansHealthy ==
    \A id \in Id : disk[id].selfUpdate /\ disk[id].state = "succeeded" => disk[id].to \in Healthy
=============================================================================
