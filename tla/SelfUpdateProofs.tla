--------------------------- MODULE SelfUpdateProofs ---------------------------
(***************************************************************************)
(* Theorems of SelfUpdate: what the agent promises holds with appliers     *)
(* and reboots around it, an applier never works without a way back, and   *)
(* the verdict of a self-update names the version that runs.               *)
(***************************************************************************)
EXTENDS SelfUpdate, AgentThreadProofs

\* The steps of runSelfUpdate(), and those of run() and restart(). fail() is
\* shared.
SelfStep == {"stage_download", "stage", "stage_verify", "prepare", "refs", "delegate", "handoff"}
OrdinaryStep == {"relaunch", "helper_restart", "download", "fetch", "verify", "checksum",
                 "helper_install", "install", "restart", "health", "probe", "succeed", "reserve"}

\* A slot of the own unit runs a self-update, the other slots an ordinary one;
\* the packages are recorded before the operation is delegated, and delegated in
\* the file before it is handed over.
Kinds ==
    /\ http.pc # "idle" /\ http.slot = "run" => http.to \in Version
    /\ http.pc = "emit" =>
           (operations[http.id].selfUpdate <=>
                http.slot = "run" /\ operations[http.id].project \in SelfProject)
    /\ queue # <<>> =>
           (operations[queue[1].id].selfUpdate <=>
                queue[1].slot = "run" /\ operations[queue[1].id].project \in SelfProject)
    /\ worker.pc \in SelfStep => operations[worker.id].selfUpdate
    /\ worker.pc \in OrdinaryStep => ~operations[worker.id].selfUpdate
    /\ worker.pc \in {"delegate", "handoff"} => operations[worker.id].refs
    /\ worker.pc = "handoff" => disk[worker.id] = operations[worker.id]

\* The two versions of a self-update are known from its creation on, and are
\* the same in memory as in the file.
HasVersions(op) == op.selfUpdate => op.from \in Version /\ op.to \in Version
Alike(a, b) == a.selfUpdate = b.selfUpdate /\ a.from = b.from /\ a.to = b.to

Origins ==
    \A id \in Id : HasVersions(disk[id]) /\ (running => Alike(operations[id], disk[id]))

\* An operation an applier was launched for is a self-update whose packages are
\* recorded, delegated or settled since.
Delegable(op) == op.state \in {"delegated"} \cup Final /\ op.selfUpdate /\ op.refs

Launched ==
    \A id \in Id : applier[id].pc # "none" =>
        Delegable(disk[id]) /\ (running => Delegable(operations[id]))

\* A verdict of the start is in the file before the agent serves: main() goes on
\* only with what it has written.
Verdict == {"succeeded", "rolled_back"}

Verdicts ==
    /\ phase \in {"loaded", "reconciled"} => disk = operations
    /\ phase \in {"reconciled", "serving"} =>
           \A id \in Id : operations[id].selfUpdate /\ operations[id].state \in Verdict =>
                              disk[id].state = operations[id].state

Bounded ==
    /\ \A id \in Id : applier[id].tries < Attempts
    /\ reboots \in 0..MaxReboots

SelfInv == OwnedInv /\ Kinds /\ Origins /\ Launched /\ Verdicts /\ Bounded

\* What a step may do to the state of a self-update in the file.
Names ==
    \A id \in Id : disk[id].selfUpdate /\ disk'[id].state # disk[id].state =>
        /\ disk'[id].state = "succeeded" => phase = "loaded" /\ version = disk[id].to
        /\ disk'[id].state = "rolled_back" => phase = "loaded" /\ version = disk[id].from

KeptSelf == Kinds' /\ Origins' /\ Launched' /\ Verdicts' /\ Names

-----------------------------------------------------------------------------
(* The tables of the engine.                                               *)

\* A slot stays a slot of its kind, and only an ordinary one ends as succeeded.
LEMMA KindTable ==
    ASSUME NEW pc \in MovePc, NEW m, m = Moves(pc), NEW next \in {m.next, m.refused}
    PROVE  /\ next \in SelfStep => pc \in SelfStep
           /\ next \in OrdinaryStep => pc \in OrdinaryStep
           /\ next # "delegate"
           /\ m.refused # "handoff"
           /\ next = "handoff" => pc = "delegate"
           /\ m.to \in Verdict => pc \in OrdinaryStep
  <1> USE DEF Move, SelfStep, OrdinaryStep, Verdict
  <1>1. CASE pc \in DOMAIN runMoves
    BY <1>1 DEF Moves, runMoves
  <1>2. CASE pc \notin DOMAIN runMoves /\ pc \in DOMAIN restartMoves
    BY <1>2 DEF Moves, restartMoves
  <1>3. CASE pc \notin DOMAIN runMoves /\ pc \notin DOMAIN restartMoves
    <2>1. m = selfMoves[pc] /\ pc \in {"stage_download", "stage_verify", "prepare", "delegate"}
      BY <1>3 DEF Moves, MovePc, runMoves, restartMoves
    <2> QED
      BY <2>1 DEF selfMoves
  <1> QED
    BY <1>1, <1>2, <1>3

LEMMA WorkKind ==
    ASSUME NEW pc \in DOMAIN Work, NEW end \in {"well", "badly"}
    PROVE  /\ Work[pc][end] \in SelfStep => pc \in SelfStep
           /\ Work[pc][end] \in OrdinaryStep => pc \in OrdinaryStep
           /\ Work[pc][end] \notin {"delegate", "handoff", "refs"}
  BY DEF Work, SelfStep, OrdinaryStep

\* Two steps of different kinds are different.
LEMMA StepsDiffer ==
    /\ "idle" \notin SelfStep \cup OrdinaryStep
    /\ "fail" \notin SelfStep \cup OrdinaryStep
    /\ SelfStep \cap OrdinaryStep = {}
  BY DEF SelfStep, OrdinaryStep

-----------------------------------------------------------------------------
(* What a step of the agent does to the journal, as far as the parts of the*)
(* invariant tell apart.                                                   *)

\* A step of the process that serves, which adds no operation and gives no
\* self-update a verdict.
LEMMA ServingKeeps ==
    ASSUME SelfInv, phase = "serving", phase' = "serving", running', disk' \in {disk, operations'},
           \A id \in Id : /\ Alike(operations'[id], operations[id])
                          /\ Delegable(operations[id]) => Delegable(operations'[id])
                          /\ operations'[id].selfUpdate /\ operations'[id].state \in Verdict =>
                                 operations'[id].state = operations[id].state,
           \A id \in Id : applier'[id].pc # "none" =>
                              applier[id].pc # "none" \/ (Delegable(disk'[id]) /\ Delegable(operations'[id]))
    PROVE  Origins' /\ Launched' /\ Verdicts' /\ Names
  <1>1. running
    BY DEF SelfInv, OwnedInv, ThreadInv, AgentInv, Hands
  <1>2. \A id \in Id : /\ HasVersions(disk[id]) /\ Alike(operations[id], disk[id])
                       /\ operations[id].selfUpdate /\ operations[id].state \in Verdict =>
                              disk[id].state = operations[id].state
    BY <1>1 DEF SelfInv, Origins, Verdicts
  <1>3. \A id \in Id : /\ Alike(operations'[id], disk'[id])
                       /\ Alike(disk'[id], disk[id])
    BY <1>2 DEF Alike
  <1>4. Origins'
    BY <1>2, <1>3 DEF Origins, Alike, HasVersions
  <1>5. Launched'
    BY <1>1 DEF SelfInv, Launched
  <1>6. \A id \in Id : operations'[id].selfUpdate /\ operations'[id].state \in Verdict =>
                           disk[id].state = operations'[id].state
    BY <1>2 DEF Alike
  <1>7. Verdicts'
    BY <1>6 DEF Verdicts
  <1>8. Names
    <2> SUFFICES ASSUME NEW id \in Id, disk[id].selfUpdate, disk'[id].state # disk[id].state
                 PROVE  disk'[id].state \notin Verdict
      BY DEF Names, Verdict
    <2>1. disk' = operations' /\ operations'[id].selfUpdate
      BY <1>2 DEF Alike
    <2> QED
      BY <1>6, <2>1
  <1> QED
    BY <1>4, <1>5, <1>7, <1>8

\* A step that leaves the journal and the threads alone, or ends the process.
LEMMA LeavingKeeps ==
    ASSUME SelfInv,
           \/ UNCHANGED <<storeVars, phase, threadVars>>
           \/ endProcess,
           \A id \in Id : applier'[id].pc # "none" => applier[id].pc # "none"
    PROVE  KeptSelf
  <1>1. CASE UNCHANGED <<storeVars, phase, threadVars>>
    BY <1>1 DEF SelfInv, storeVars, threadVars, KeptSelf, Kinds, Origins, Launched, Verdicts, Names
  <1>2. CASE endProcess
    <2>1. /\ disk' = disk /\ running' = FALSE /\ phase' = "down"
          /\ http' = HttpIdle /\ queue' = <<>> /\ worker' = WorkerIdle
      BY <1>2 DEF endProcess, Exit, forget, threadsGone
    <2>2. Kinds'
      BY <2>1 DEF Kinds, HttpIdle, WorkerIdle, SelfStep, OrdinaryStep
    <2> QED
      BY <2>1, <2>2 DEF SelfInv, KeptSelf, Origins, Launched, Verdicts, Names
  <1> QED
    BY <1>1, <1>2

\* load() keeps a self-update as it is, and the start gives it its verdict.
LEMMA MainKeepsSelf ==
    ASSUME SelfInv, AgentInv', StartUp \/ ReconcileAtStart \/ StartApi
    PROVE  KeptSelf
  <1>1. disk \in [Id -> Operation] /\ operations \in [Id -> Operation]
    BY DEF SelfInv, OwnedInv, ThreadInv, AgentInv, StoreInv, StoreTypeOK
  <1>2. /\ http.pc = "idle" /\ queue = <<>> /\ worker.pc = "idle"
        /\ UNCHANGED <<http, queue, worker, applier>>
    BY DEF StartUp, ReconcileAtStart, StartApi, SelfInv, OwnedInv, ThreadInv, AgentInv, Hands,
           threadVars, successionVars
  <1>3. Kinds'
    BY <1>2, StepsDiffer DEF Kinds
  <1>4. CASE StartUp
    <2>1. /\ disk' = operations' /\ operations' = [id \in Id |-> loadEntry(disk[id])]
          /\ phase' = "loaded"
      BY <1>4 DEF StartUp, Load, load, save
    <2>2. ASSUME NEW id \in Id
          PROVE  /\ Alike(operations'[id], disk[id])
                 /\ disk[id].selfUpdate => operations'[id] = disk[id]
      <3>1. disk[id] \in Operation /\ operations'[id] = loadEntry(disk[id])
        BY <1>1, <2>1
      <3> QED
        BY <3>1 DEF loadEntry, Alike, Operation
    <2>3. Origins'
      BY <2>1, <2>2 DEF SelfInv, Origins, HasVersions, Alike
    <2>4. Launched'
      BY <1>2, <2>1, <2>2 DEF SelfInv, Launched, Delegable
    <2>5. Verdicts' /\ Names
      BY <2>1, <2>2 DEF Verdicts, Names
    <2> QED
      BY <1>3, <2>3, <2>4, <2>5 DEF KeptSelf
  <1>5. CASE ReconcileAtStart
    <2>1. PICK moved \in SaveOutcome, ok \in SaveOutcome :
             /\ reconcileSelfUpdates(version, moved, ok)
             /\ phase' = IF pending = {} \/ ok THEN "reconciled" ELSE "refused"
      BY <1>5 DEF ReconcileAtStart
    <2>2. phase = "loaded" /\ running /\ running' /\ disk = operations
      BY <1>5 DEF ReconcileAtStart, SelfInv, OwnedInv, ThreadInv, AgentInv, Hands, Verdicts
    <2>3. /\ operations' = [id \in Id |-> IF id \in pending THEN settled(operations[id], version)
                                          ELSE operations[id]]
          /\ disk' = IF pending # {} /\ (moved \/ ok) THEN operations' ELSE disk
      BY <2>1 DEF reconcileSelfUpdates
    <2>4. ASSUME NEW id \in Id
          PROVE  \/ operations'[id] = operations[id]
                 \/ /\ operations[id].selfUpdate
                    /\ Alike(operations'[id], operations[id])
                    /\ operations'[id].refs = operations[id].refs
                    /\ operations'[id].state \in Final
                    /\ operations'[id].state = "succeeded" => version = operations[id].to
                    /\ operations'[id].state = "rolled_back" => version = operations[id].from
      <3>1. CASE id \in pending
        <4>1. /\ operations[id] \in Operation /\ Live(operations[id]) /\ operations[id].selfUpdate
              /\ operations'[id] = settled(operations[id], version)
          BY <1>1, <2>3, <3>1 DEF pending
        <4> DEFINE op == operations[id]
                   v == reconcileSelfUpdate(op.from, op.to, TRUE, version)
                   state == IF canTransition(op.state, v) THEN v ELSE "failed"
        <4>2. settled(op, version) = [op EXCEPT !.state = state, !.detail = verdictDetail(v)]
          BY DEF settled
        <4>3. state = "succeeded" => version = op.to
          BY DEF reconcileSelfUpdate
        <4>4. state = "rolled_back" => version = op.from
          BY DEF reconcileSelfUpdate
        <4> HIDE DEF state, v
        <4>5. operations'[id].state = state /\ operations'[id].refs = op.refs
          BY <4>1, <4>2 DEF Operation
        <4>6. operations'[id].state \in Final /\ Alike(operations'[id], op)
          <5>1. LET s == settled(operations[id], version) IN
                /\ s.state \in Final /\ s.from = operations[id].from /\ s.to = operations[id].to
                /\ s.selfUpdate = operations[id].selfUpdate
            BY <4>1, SettledIsFinal
          <5> QED
            BY <4>1, <5>1 DEF Alike
        <4> QED
          BY <4>1, <4>3, <4>4, <4>5, <4>6
      <3>2. CASE id \notin pending
        BY <2>3, <3>2
      <3> QED
        BY <3>1, <3>2
    <2>5. disk' \in {disk, operations'} /\ (phase' = "reconciled" => disk' = operations')
      <3>1. pending = {} => operations' = operations
        BY <1>1, <2>3
      <3> QED
        BY <2>1, <2>2, <2>3, <3>1
    <2>6. Origins'
      BY <2>2, <2>4, <2>5 DEF SelfInv, Origins, HasVersions, Alike
    <2>7. Launched'
      BY <1>2, <2>2, <2>4, <2>5 DEF SelfInv, Launched, Delegable, Alike
    <2>8. Verdicts'
      BY <2>1, <2>5 DEF Verdicts
    <2>9. Names
      BY <2>2, <2>4, <2>5 DEF Names, Alike
    <2> QED
      BY <1>3, <2>6, <2>7, <2>8, <2>9 DEF KeptSelf
  <1>6. CASE StartApi
    <2>1. UNCHANGED <<disk, operations, running, applier>> /\ phase = "reconciled" 
          /\ phase' \in {"serving", "refused"}
      BY <1>6 DEF StartApi, storeVars, successionVars
    <2> QED
      BY <1>3, <2>1 DEF SelfInv, KeptSelf, Origins, Launched, Verdicts, Names
  <1> QED
    BY <1>4, <1>5, <1>6

\* The HTTP thread decides at the creation which slot an operation gets, and
\* whether it is a self-update.
LEMMA HttpKeepsSelf ==
    ASSUME SelfInv, ThreadInv', HttpNext
    PROVE  KeptSelf
  <1>1. operations \in [Id -> Operation] /\ disk \in [Id -> Operation] /\ version \in Version
    BY DEF SelfInv, OwnedInv, ThreadInv, AgentInv, AgentTypeOK, StoreInv, StoreTypeOK
  <1>2. ASSUME UNCHANGED <<disk, operations, phase, running, applier>>
        PROVE  Origins' /\ Launched' /\ Verdicts' /\ Names
    BY <1>2 DEF SelfInv, Origins, Launched, Verdicts, Names
  <1>3. CASE HandleUpdate \/ HandleRestart
    <2>1. PICK slot \in {"run", "restart"}, project \in Project, to \in Version \cup {NoVersion} :
             HandlePost(slot, project, to) /\ (slot = "run" => to \in Version)
      BY <1>3 DEF HandleUpdate, HandleRestart
    <2>2. /\ http' = [pc |-> "create", slot |-> slot, project |-> project, to |-> to, id |-> NoId]
          /\ UNCHANGED <<disk, operations, phase, running, applier, queue, worker>>
      BY <2>1 DEF HandlePost, storeVars, successionVars
    <2> QED
      BY <1>2, <2>1, <2>2 DEF SelfInv, KeptSelf, Kinds
  <1>4. CASE CreateOperation
    <2>1. /\ http.pc = "create" /\ queue = <<>> /\ worker.pc = "idle"
          /\ phase = "serving" /\ running
          /\ UNCHANGED <<running, phase, queue, worker, applier>>
      BY <1>4 DEF CreateOperation, SelfInv, OwnedInv, ThreadInv, AgentInv, Hands, Held, successionVars
    <2> DEFINE self == http.slot = "run" /\ http.project \in SelfProject
               entry == created(http.project, IF self THEN version ELSE NoVersion, http.to, self)
    <2>2. PICK id \in Id, ok \in SaveOutcome :
             /\ create(id, http.project, IF self THEN version ELSE NoVersion, http.to, self, ok)
             /\ http' = IF ok THEN [http EXCEPT !.pc = "emit", !.id = id] ELSE HttpIdle
      BY <1>4 DEF CreateOperation
    <2>3. /\ entry.project = http.project /\ entry.selfUpdate = self
          /\ entry.to = http.to /\ entry.from = (IF self THEN version ELSE NoVersion)
          /\ entry.state = "queued"
      BY DEF created
    <2>4. http.slot = "run" => http.to \in Version
      BY <2>1 DEF SelfInv, Kinds
    <2>5. HasVersions(entry)
      BY <1>1, <2>3, <2>4 DEF HasVersions
    <2> HIDE DEF entry
    <2>6. CASE ok
      <3>1. /\ operations' = [operations EXCEPT ![id] = entry] /\ disk' = operations'
            /\ ~Present(operations[id])
        BY <2>2, <2>6 DEF create, save, entry
      <3>2. /\ operations'[id] = entry
            /\ \A other \in Id \ {id} : operations'[other] = operations[other]
        BY <1>1, <3>1
      <3>3. applier[id].pc = "none"
        BY <2>1, <3>1 DEF SelfInv, Launched, Delegable, Present, Final
      <3>4. /\ http'.pc = "emit" /\ http'.id = id /\ http'.slot = http.slot
            /\ http'.project = http.project /\ http'.to = http.to
        BY <2>2, <2>6 DEF SelfInv, OwnedInv, ThreadInv, AgentInv, AgentTypeOK
      <3>5. Kinds'
        BY <2>1, <2>3, <2>4, <3>2, <3>4, StepsDiffer DEF Kinds
      <3>6. Origins'
        BY <2>1, <2>5, <3>1, <3>2 DEF SelfInv, Origins, Alike, HasVersions
      <3>7. Launched'
        BY <2>1, <3>1, <3>2, <3>3 DEF SelfInv, Launched
      <3>8. Verdicts'
        BY <2>1, <3>1 DEF Verdicts
      <3>9. Names
        <4> SUFFICES ASSUME NEW other \in Id, disk[other].selfUpdate,
                            disk'[other].state # disk[other].state
                     PROVE  disk'[other].state \notin Verdict
          BY DEF Names, Verdict
        <4>1. CASE other = id
          BY <2>3, <3>1, <3>2, <4>1 DEF Verdict
        <4>2. CASE other # id
          BY <2>1, <3>1, <3>2, <4>2 DEF SelfInv, Origins, Alike, Verdicts
        <4> QED
          BY <4>1, <4>2
      <3> QED
        BY <3>5, <3>6, <3>7, <3>8, <3>9 DEF KeptSelf
    <2>7. CASE ~ok
      <3>1. UNCHANGED <<disk, operations>> /\ http'.pc = "idle"
        BY <2>2, <2>7 DEF create, save, HttpIdle
      <3>2. Kinds'
        BY <2>1, <3>1, StepsDiffer DEF Kinds
      <3> QED
        BY <1>2, <2>1, <3>1, <3>2 DEF KeptSelf
    <2> QED
      BY <2>6, <2>7
  <1>5. CASE EmitQueued
    <2>1. /\ http.pc = "emit" /\ queue = <<>> /\ worker.pc = "idle" /\ http' = HttpIdle
          /\ UNCHANGED <<disk, operations, phase, running, applier, worker>>
      BY <1>5 DEF EmitQueued, SelfInv, OwnedInv, ThreadInv, Held, storeVars, successionVars
    <2>2. queue' = <<[slot |-> http.slot, id |-> http.id]>>
      BY <1>5, <2>1 DEF EmitQueued
    <2>3. queue'[1].id = http.id /\ queue'[1].slot = http.slot
      BY <2>2
    <2>4. Kinds'
      BY <2>1, <2>3, StepsDiffer DEF SelfInv, Kinds, HttpIdle
    <2> QED
      BY <1>2, <2>1, <2>4 DEF KeptSelf
  <1>6. CASE \E id \in Id : Get(id)
    <2>1. UNCHANGED <<disk, operations, phase, running, applier, http, queue, worker>>
      BY <1>6 DEF Get, storeVars, threadVars, successionVars
    <2> QED
      BY <1>2, <2>1 DEF SelfInv, KeptSelf, Kinds
  <1> QED
    BY <1>3, <1>4, <1>5, <1>6 DEF HttpNext

\* A slot goes on: the step after is one of its kind.
LEMMA SlotKeepsKinds ==
    ASSUME SelfInv, worker.pc # "idle", NEW pc, goto(pc), UNCHANGED <<http, queue>>,
           pc \in SelfStep => operations'[worker.id].selfUpdate,
           pc \in OrdinaryStep => ~operations'[worker.id].selfUpdate,
           pc \in {"delegate", "handoff"} => operations'[worker.id].refs,
           pc = "handoff" => disk'[worker.id] = operations'[worker.id]
    PROVE  Kinds'
  <1>1. http.pc = "idle" /\ queue = <<>>
    BY DEF SelfInv, OwnedInv, ThreadInv, Held
  <1>2. worker \in [pc: WorkerPc, id: Id \cup {NoId}]
    BY DEF SelfInv, OwnedInv, ThreadInv, AgentInv, AgentTypeOK
  <1>3. worker'.pc = pc /\ (pc # "idle" => worker'.id = worker.id)
    BY <1>2 DEF goto, WorkerIdle
  <1> QED
    BY <1>1, <1>3, StepsDiffer DEF Kinds

\* The worker's slots.
LEMMA WorkerKeepsSelf ==
    ASSUME SelfInv, ThreadInv', WorkerNext, ~HelperRestartsAgent
    PROVE  KeptSelf
  <1>1. operations \in [Id -> Operation] /\ disk \in [Id -> Operation]
        /\ applier \in [Id -> ApplierState]
    BY DEF SelfInv, OwnedInv, ThreadInv, AgentInv, AgentTypeOK, StoreInv, StoreTypeOK
  <1>2. phase = "serving" /\ running
    BY DEF WorkerNext, Deliver, MoveOn, MovePc, DoWork, Work, HelperInstalls, HelperRestarts,
           HelperRefusesAgent, SetRefs, HandOff, SelfInv, OwnedInv, ThreadInv, AgentInv, Hands
  <1>3. phase' = "serving" /\ running'
    BY <1>2 DEF WorkerNext, Deliver, MoveOn, DoWork, HelperInstalls, HelperRestarts,
           HelperRefusesAgent, SetRefs, HandOff, storeVars
  <1>4. ASSUME UNCHANGED <<disk, operations>>, applier' = applier
        PROVE  Origins' /\ Launched' /\ Verdicts' /\ Names
    BY <1>2, <1>3, <1>4 DEF SelfInv, Origins, Launched, Verdicts, Names
  <1>5. CASE Deliver
    <2>1. /\ queue # <<>> /\ http.pc = "idle" /\ Len(queue) = 1
          /\ UNCHANGED <<disk, operations, http, applier>>
      BY <1>5 DEF Deliver, SelfInv, OwnedInv, ThreadInv, Held, storeVars, successionVars
    <2>2. Head(queue) = queue[1] /\ queue' = <<>>
      <3> DEFINE Event == [slot: {"run", "restart"}, id: Id]
      <3>1. queue \in Seq(Event) /\ queue' = Tail(queue)
        BY <1>5 DEF Deliver, SelfInv, OwnedInv, ThreadInv, AgentInv, AgentTypeOK
      <3> HIDE DEF Event
      <3> QED
        BY <2>1, <3>1
    <2>3. /\ worker' = [pc |-> firstStep(queue[1]), id |-> queue[1].id]
          /\ queue[1].slot \in {"run", "restart"}
      <3> DEFINE Event == [slot: {"run", "restart"}, id: Id]
      <3>1. queue \in Seq(Event)
        BY DEF SelfInv, OwnedInv, ThreadInv, AgentInv, AgentTypeOK
      <3>2. queue[1] \in Event
        <4> HIDE DEF Event
        <4> QED
          BY <2>1, <3>1
      <3> QED
        BY <1>5, <2>2, <3>2 DEF Deliver
    <2>4. Kinds'
      BY <2>1, <2>2, <2>3 DEF SelfInv, Kinds, firstStep, SelfStep, OrdinaryStep
    <2> QED
      BY <1>4, <2>1, <2>4 DEF KeptSelf
  <1>6. CASE MoveOn
    <2> DEFINE m == Moves(worker.pc)
               op == operations[worker.id]
    <2>1. /\ worker.pc \in MovePc /\ worker.pc # "idle" /\ worker.id \in Id
          /\ UNCHANGED <<http, queue, applier>>
      BY <1>6 DEF MoveOn, MovePc, SelfInv, OwnedInv, ThreadInv, AgentInv, Hands, successionVars
    <2>2. PICK ok \in SaveOutcome : transition(worker.id, m.to, m.detail, ok)
                                    /\ goto(IF ok THEN m.next ELSE m.refused)
      BY <1>6 DEF MoveOn
    <2>3. PICK next \in {m.next, m.refused} : goto(next) /\ (next = m.refused \/ ok)
      BY <2>2
    <2>4. /\ next \in SelfStep => worker.pc \in SelfStep
          /\ next \in OrdinaryStep => worker.pc \in OrdinaryStep
          /\ next # "delegate"
          /\ next = "handoff" => worker.pc = "delegate" /\ ok
          /\ m.to \in Verdict => worker.pc \in OrdinaryStep
      BY <2>1, <2>3, KindTable
    <2> HIDE DEF m
    <2>5. /\ operations'[worker.id] = [op EXCEPT !.state = m.to, !.detail = m.detail]
          /\ \A other \in Id \ {worker.id} : operations'[other] = operations[other]
          /\ disk' = IF ok THEN operations' ELSE disk
          /\ canTransition(op.state, m.to)
      BY <1>1, <2>1, <2>2 DEF transition, save
    <2>6. /\ Alike(operations'[worker.id], op) /\ operations'[worker.id].refs = op.refs
          /\ operations'[worker.id].state = m.to
      BY <1>1, <2>1, <2>5 DEF Alike, Operation
    <2>7. Delegable(op) => Delegable(operations'[worker.id])
      BY <2>5, <2>6 DEF Delegable, Alike, canTransition, isFinal, Final, Edge
    <2>8. /\ worker.pc \in SelfStep => op.selfUpdate
          /\ worker.pc \in OrdinaryStep => ~op.selfUpdate
          /\ worker.pc = "delegate" => op.refs
      BY DEF SelfInv, Kinds
    <2>9. Kinds'
      BY <2>1, <2>3, <2>4, <2>5, <2>6, <2>8, SlotKeepsKinds DEF Alike
    <2>10. \A id \in Id : /\ Alike(operations'[id], operations[id])
                          /\ Delegable(operations[id]) => Delegable(operations'[id])
                          /\ operations'[id].selfUpdate /\ operations'[id].state \in Verdict =>
                                 operations'[id].state = operations[id].state
      BY <2>4, <2>5, <2>6, <2>7, <2>8 DEF Alike
    <2> QED
      BY <1>2, <1>3, <2>1, <2>5, <2>9, <2>10, ServingKeeps DEF KeptSelf
  <1>7. CASE DoWork
    <2>1. /\ worker.pc \in DOMAIN Work /\ worker.pc # "idle"
          /\ UNCHANGED <<disk, operations, http, queue, applier>>
      BY <1>7 DEF DoWork, Work, storeVars, successionVars
    <2>2. PICK end \in {"well", "badly"} : goto(Work[worker.pc][end])
      BY <1>7 DEF DoWork
    <2>3. Kinds'
      BY <2>1, <2>2, WorkKind, SlotKeepsKinds DEF SelfInv, Kinds
    <2> QED
      BY <1>4, <2>1, <2>3 DEF KeptSelf
  <1>8. CASE HelperInstalls \/ HelperRestarts \/ HelperRefusesAgent
    <2>1. /\ worker.pc \in {"helper_install", "helper_restart"}
          /\ UNCHANGED <<disk, operations, http, queue, applier>>
      BY <1>8 DEF HelperInstalls, HelperRestarts, HelperRefusesAgent, storeVars, successionVars
    <2>2. PICK pc \in {"restart", "health", "fail"} : goto(pc)
      BY <1>8 DEF HelperInstalls, HelperRestarts, HelperRefusesAgent
    <2>3. worker.pc \in OrdinaryStep /\ pc \notin SelfStep
      BY <2>1 DEF OrdinaryStep, SelfStep
    <2>4. Kinds'
      BY <2>1, <2>2, <2>3, SlotKeepsKinds DEF SelfInv, Kinds
    <2> QED
      BY <1>4, <2>1, <2>4 DEF KeptSelf
  <1>9. CASE SetRefs
    <2> DEFINE op == operations[worker.id]
    <2>1. /\ worker.pc = "refs" /\ worker.id \in Id /\ UNCHANGED <<http, queue, applier>>
          /\ op.selfUpdate
      BY <1>9 DEF SetRefs, SelfInv, Kinds, SelfStep, OwnedInv, ThreadInv, AgentInv, Hands,
                  successionVars
    <2>2. PICK ok \in SaveOutcome : setSelfUpdateRefs(worker.id, ok)
                                    /\ goto(IF ok THEN "delegate" ELSE "fail")
      BY <1>9 DEF SetRefs
    <2>3. PICK pc \in {"delegate", "fail"} : goto(pc)
      BY <2>2
    <2>4. /\ operations'[worker.id] = [op EXCEPT !.selfUpdate = TRUE, !.refs = TRUE]
          /\ \A other \in Id \ {worker.id} : operations'[other] = operations[other]
          /\ disk' \in {disk, operations'}
      BY <1>1, <2>1, <2>2 DEF setSelfUpdateRefs, save
    <2>5. /\ Alike(operations'[worker.id], op) /\ operations'[worker.id].refs
          /\ operations'[worker.id].selfUpdate /\ operations'[worker.id].state = op.state
      BY <1>1, <2>1, <2>4 DEF Alike, Operation
    <2>6. Kinds'
      BY <2>1, <2>3, <2>5, SlotKeepsKinds DEF OrdinaryStep
    <2>7. \A id \in Id : /\ Alike(operations'[id], operations[id])
                         /\ Delegable(operations[id]) => Delegable(operations'[id])
                         /\ operations'[id].selfUpdate /\ operations'[id].state \in Verdict =>
                                operations'[id].state = operations[id].state
      BY <2>4, <2>5 DEF Alike, Delegable
    <2> QED
      BY <1>2, <1>3, <2>1, <2>4, <2>6, <2>7, ServingKeeps DEF KeptSelf
  <1>10. CASE HandOff
    <2>1. /\ worker.pc = "handoff" /\ worker.id \in Id
          /\ UNCHANGED <<disk, operations, http, queue>>
      BY <1>10 DEF HandOff, SelfInv, OwnedInv, ThreadInv, AgentInv, Hands, storeVars
    <2>2. Delegable(disk'[worker.id]) /\ Delegable(operations'[worker.id])
      BY <2>1 DEF SelfInv, Kinds, SelfStep, OwnedInv, ThreadInv, Held, Fits, Delegable
    <2>3. \A id \in Id : applier'[id].pc # "none" => applier[id].pc # "none" \/ id = worker.id
      BY <1>1, <1>10, <2>1 DEF HandOff, ApplierState
    <2>4. PICK pc \in {"idle", "fail"} : goto(pc)
      BY <1>10 DEF HandOff
    <2>5. Kinds'
      BY <2>1, <2>4, StepsDiffer, SlotKeepsKinds
    <2> QED
      BY <1>2, <1>3, <2>1, <2>2, <2>3, <2>5, ServingKeeps DEF KeptSelf, Alike
  <1> QED
    BY <1>5, <1>6, <1>7, <1>8, <1>9, <1>10 DEF WorkerNext

-----------------------------------------------------------------------------
(* The appliers and the machine around the agent.                          *)

Outside == ApplierNext \/ Reboot

\* What the rest of the system may do to the agent: end its process or leave it
\* alone, install one of its versions, and start or stop its unit.
LEMMA OutsideDoes ==
    ASSUME SelfInv, Outside
    PROVE  /\ UNCHANGED <<accepted, seen, applied, crashes>>
           /\ UNCHANGED <<storeVars, phase, threadVars>> \/ endProcess
           /\ unit' \in {"wanted", "stopped"} /\ version' \in Version
           /\ applier' \in [Id -> ApplierState]
           /\ \A id \in Id : applier'[id].pc # "none" => applier[id].pc # "none"
           /\ Bounded'
  <1> USE SelfAssumption
  <1>1. /\ unit \in {"wanted", "stopped"} /\ version \in Version
        /\ applier \in [Id -> ApplierState] /\ Bounded
    BY DEF SelfInv, OwnedInv, ThreadInv, AgentInv, AgentTypeOK
  <1>2. ASSUME NEW id \in Id, NEW pc \in ApplierPc, NEW tries \in 0..(Attempts - 1),
               applier[id].pc # "none",
               applier' = [applier EXCEPT ![id] = [pc |-> pc, tries |-> tries]],
               reboots' = reboots
        PROVE  /\ applier' \in [Id -> ApplierState] /\ Bounded'
               /\ \A i \in Id : applier'[i].pc # "none" => applier[i].pc # "none"
    <2>1. [pc |-> pc, tries |-> tries] \in ApplierState /\ tries < Attempts
      BY DEF ApplierState
    <2> QED
      BY <1>1, <1>2, <2>1 DEF Bounded
  <1>3. ASSUME NEW id \in Id, NEW pc \in ApplierPc, applier[id].pc # "none", step(id, pc),
               reboots' = reboots
        PROVE  /\ applier' \in [Id -> ApplierState] /\ Bounded'
               /\ \A i \in Id : applier'[i].pc # "none" => applier[i].pc # "none"
    <2>1. 0 \in 0..(Attempts - 1)
      OBVIOUS
    <2> QED
      BY <1>2, <1>3, <2>1 DEF step
  <1>4. ASSUME NEW id \in Id, applier[id].pc # "none"
        PROVE  disk[id].from \in Version /\ disk[id].to \in Version
    BY <1>4 DEF SelfInv, Launched, Delegable, Origins, HasVersions
  <1>5. ASSUME NEW id \in Id, ApplierStops(id) \/ ApplierProbes(id) \/ ApplierBringsUpOld(id)
        PROVE  /\ applier' \in [Id -> ApplierState] /\ Bounded'
               /\ \A i \in Id : applier'[i].pc # "none" => applier[i].pc # "none"
    BY <1>3, <1>5 DEF ApplierStops, ApplierProbes, ApplierBringsUpOld, At, ApplierPc, applierElse
  <1>6. ASSUME NEW id \in Id, ApplierInstalls(id) \/ ApplierRollsBack(id)
        PROVE  /\ applier' \in [Id -> ApplierState] /\ Bounded' /\ version' \in Version
               /\ \A i \in Id : applier'[i].pc # "none" => applier[i].pc # "none"
    <2>1. applier[id].pc # "none" /\ reboots' = reboots
      BY <1>6 DEF ApplierInstalls, ApplierRollsBack, At, applierElse
    <2>2. version' \in {version, disk[id].from, disk[id].to}
      BY <1>6 DEF ApplierInstalls, ApplierRollsBack, install
    <2>3. \E pc \in ApplierPc : step(id, pc)
      BY <1>6 DEF ApplierInstalls, ApplierRollsBack, ApplierPc
    <2> QED
      BY <1>1, <1>3, <1>4, <2>1, <2>2, <2>3
  <1>7. ASSUME NEW id \in Id, ApplierBringsUp(id)
        PROVE  /\ applier' \in [Id -> ApplierState] /\ Bounded'
               /\ \A i \in Id : applier'[i].pc # "none" => applier[i].pc # "none"
    <2>1. applier[id].pc # "none" /\ reboots' = reboots
      BY <1>7 DEF ApplierBringsUp, At, applierElse
    <2>2. CASE step(id, "probe")
      BY <1>3, <2>1, <2>2 DEF ApplierPc
    <2>3. CASE ~step(id, "probe")
      <3> DEFINE tries == applier[id].tries + 1
      <3>1. applier' = [applier EXCEPT ![id] =
                           IF tries < Attempts THEN [pc |-> "bring_up", tries |-> tries]
                           ELSE [pc |-> "roll_back", tries |-> 0]]
        BY <1>7, <2>3 DEF ApplierBringsUp
      <3>2. tries \in Nat
        BY <1>1 DEF ApplierState
      <3>3. CASE tries < Attempts
        <4>1. applier' = [applier EXCEPT ![id] = [pc |-> "bring_up", tries |-> tries]]
          BY <3>1, <3>3
        <4>2. tries \in 0..(Attempts - 1) /\ "bring_up" \in ApplierPc
          BY <3>2, <3>3 DEF ApplierPc
        <4> HIDE DEF tries
        <4> QED
          BY <1>2, <2>1, <4>1, <4>2
      <3>4. CASE ~(tries < Attempts)
        <4>1. step(id, "roll_back") /\ "roll_back" \in ApplierPc
          BY <3>1, <3>4 DEF step, ApplierPc
        <4> QED
          BY <1>3, <2>1, <4>1
      <3> QED
        BY <3>3, <3>4
    <2> QED
      BY <2>2, <2>3
  <1>8. ASSUME NEW id \in Id,
               \/ ApplierStops(id) \/ ApplierInstalls(id) \/ ApplierBringsUp(id)
               \/ ApplierProbes(id) \/ ApplierRollsBack(id) \/ ApplierBringsUpOld(id)
        PROVE  /\ UNCHANGED <<accepted, seen, applied, crashes>>
               /\ UNCHANGED <<storeVars, phase, threadVars>> \/ endProcess
               /\ unit' \in {"wanted", "stopped"}
               /\ ApplierInstalls(id) \/ ApplierRollsBack(id) \/ version' = version
    BY <1>1, <1>8 DEF ApplierStops, ApplierInstalls, ApplierBringsUp, ApplierProbes, ApplierRollsBack,
       ApplierBringsUpOld, applierElse, stopUnit, restartUnit, unitStays, unitEnds, install
  <1>9. CASE Reboot
    <2>1. /\ UNCHANGED <<accepted, seen, applied, crashes, version>>
          /\ UNCHANGED <<storeVars, phase, threadVars>> \/ endProcess
          /\ unit' = "wanted" /\ reboots < MaxReboots /\ reboots' = reboots + 1
      BY <1>9 DEF Reboot, historyVars, restartUnit, unitEnds
    <2>2. applier' = [id \in Id |-> IF Busy(id) THEN [pc |-> "lost", tries |-> 0] ELSE applier[id]]
      BY <1>9 DEF Reboot
    <2>3. [pc |-> "lost", tries |-> 0] \in ApplierState
      BY DEF ApplierState, ApplierPc
    <2>4. \A id \in Id : applier'[id].pc # "none" => applier[id].pc # "none"
      BY <2>2 DEF Busy
    <2>5. applier' \in [Id -> ApplierState]
      BY <1>1, <2>2, <2>3
    <2>6. \A id \in Id : applier'[id].tries < Attempts
      BY <1>1, <2>2 DEF Bounded
    <2> QED
      BY <1>1, <2>1, <2>4, <2>5, <2>6 DEF Bounded
  <1>10. CASE ApplierNext
    BY <1>1, <1>5, <1>6, <1>7, <1>8, <1>10 DEF ApplierNext
  <1> QED
    BY <1>9, <1>10 DEF Outside

\* An applier that was launched is never forgotten.
LEMMA AppliersStay ==
    ASSUME applier \in [Id -> ApplierState], Outside, NEW id \in Id, applier[id].pc # "none"
    PROVE  applier'[id].pc # "none"
  <1>1. CASE Reboot
    BY <1>1 DEF Reboot
  <1>2. CASE ApplierNext
    <2>1. PICK i \in Id : \/ ApplierStops(i) \/ ApplierInstalls(i) \/ ApplierBringsUp(i)
                          \/ ApplierProbes(i) \/ ApplierRollsBack(i) \/ ApplierBringsUpOld(i)
      BY <1>2 DEF ApplierNext
    <2>2. \E pc, tries : pc # "none" /\ applier' = [applier EXCEPT ![i] = [pc |-> pc, tries |-> tries]]
      <3>1. CASE ApplierStops(i) \/ ApplierInstalls(i) \/ ApplierProbes(i) \/ ApplierRollsBack(i)
                   \/ ApplierBringsUpOld(i)
        <4>1. \E pc \in ApplierPc \ {"none"} : step(i, pc)
          BY <3>1 DEF ApplierStops, ApplierInstalls, ApplierProbes, ApplierRollsBack,
                      ApplierBringsUpOld, ApplierPc
        <4> QED
          BY <4>1 DEF step
      <3>2. CASE ApplierBringsUp(i)
        <4> DEFINE tries == applier[i].tries + 1
        <4>1. \/ step(i, "probe")
              \/ applier' = [applier EXCEPT ![i] =
                               IF tries < Attempts THEN [pc |-> "bring_up", tries |-> tries]
                               ELSE [pc |-> "roll_back", tries |-> 0]]
          BY <3>2 DEF ApplierBringsUp
        <4>2. CASE step(i, "probe")
          BY <4>2 DEF step
        <4>3. CASE ~step(i, "probe") /\ tries < Attempts
          BY <4>1, <4>3
        <4>4. CASE ~step(i, "probe") /\ ~(tries < Attempts)
          BY <4>1, <4>4
        <4> QED
          BY <4>2, <4>3, <4>4
      <3> QED
        BY <2>1, <3>1, <3>2
    <2> QED
      BY <2>2
  <1> QED
    BY <1>1, <1>2 DEF Outside

\* The agent's own part of the invariant, through a step of the others.
LEMMA OutsideKeepsAgent ==
    ASSUME SelfInv, Outside
    PROVE  StoreMoves /\ OwnedInv'
  <1>1. /\ UNCHANGED <<accepted, seen, applied, crashes>>
        /\ UNCHANGED <<storeVars, phase, threadVars>> \/ endProcess
        /\ unit' \in {"wanted", "stopped"} /\ version' \in Version
        /\ applier' \in [Id -> ApplierState]
    BY OutsideDoes
  <1>2. ThreadInv /\ AgentInv /\ AgentTypeOK
    BY DEF SelfInv, OwnedInv, ThreadInv, AgentInv
  <1>3. CASE endProcess
    <2>1. Kept
      BY <1>1, <1>2, <1>3, EndKeeps DEF AgentTypeOK
    <2>2. Kept2
      BY <1>1, <1>2, <1>3, EndKeepsThreads
    <2>3. phase' = "down"
      BY <1>3 DEF endProcess
    <2> QED
      BY <2>1, <2>2, <2>3 DEF Kept, Kept2, ThreadInv, OwnedInv, Cleared, NobodyIsOrphan
  <1>4. CASE UNCHANGED <<storeVars, phase, threadVars>>
    <2>1. StoreMoves
      BY <1>4 DEF StoreMoves
    <2>2. StoreTypeOK' => AgentTypeOK'
      BY <1>1, <1>2, <1>4 DEF AgentTypeOK, threadVars
    <2>3. Hands' /\ Promised'
      BY <1>1, <1>2, <1>4 DEF AgentInv, Hands, Promised, storeVars, threadVars
    <2>4. Kept
      BY <1>2, <2>1, <2>2, <2>3, KeptIf
    <2>5. Held' /\ Real'
      BY <1>1, <1>2, <1>4 DEF ThreadInv, Held, Real, SuccessIsReal, hasActive, Present, storeVars,
                               threadVars
    <2>6. Cleared'
      BY <1>4 DEF SelfInv, OwnedInv, Cleared, storeVars
    <2>7. NobodyIsOrphan'
      <3>1. \A id \in Id : applier[id].pc # "none" => applier'[id].pc # "none"
        BY <1>2, AppliersStay DEF AgentTypeOK
      <3> QED
        BY <1>4, <3>1 DEF SelfInv, OwnedInv, NobodyIsOrphan, storeVars, threadVars
    <2> QED
      BY <2>1, <2>4, <2>5, <2>6, <2>7 DEF Kept, ThreadInv, OwnedInv
  <1> QED
    BY <1>1, <1>3, <1>4

-----------------------------------------------------------------------------
(* The inductive invariant.                                                *)

\* The agent launches an applier in one step of one slot, and no step of its
\* own is a reboot.
LEMMA AgentLeaves ==
    ASSUME [AgentNext]_agentVars
    PROVE  reboots' = reboots /\ (HandOff \/ applier' = applier)
  <1>1. CASE MainNext \/ Crash \/ Wait \/ UNCHANGED agentVars
    BY <1>1 DEF MainNext, StartUp, ReconcileAtStart, StartApi, Quit, Crash, Wait, agentVars,
                successionVars
  <1>2. CASE HttpNext
    BY <1>2 DEF HttpNext, HandleUpdate, HandleRestart, HandlePost, CreateOperation, EmitQueued, Get,
                successionVars
  <1>3. CASE WorkerNext
    BY <1>3 DEF WorkerNext, Deliver, MoveOn, DoWork, HelperInstalls, HelperRestarts,
                HelperRestartsAgent, HelperRefusesAgent, SetRefs, HandOff, successionVars
  <1> QED
    BY <1>1, <1>2, <1>3 DEF AgentNext

LEMMA AgentKeepsSelf ==
    ASSUME SelfInv, [AgentNext]_agentVars
    PROVE  SelfInv' /\ StoreMoves /\ Names
  <1>1. OwnedInv' /\ StoreMoves
    BY OwnedStep, AgentInvStep DEF SelfInv, OwnedInv, ThreadInv, Kept
  <1>2. ThreadInv' /\ AgentInv'
    BY <1>1 DEF OwnedInv, ThreadInv
  <1>3. reboots' = reboots /\ (HandOff \/ applier' = applier)
    BY AgentLeaves
  <1>4. CASE Quit \/ Crash \/ HelperRestartsAgent
    <2>1. endProcess /\ applier' = applier
      BY <1>4 DEF Quit, Crash, HelperRestartsAgent, successionVars
    <2> QED
      BY <1>1, <1>3, <2>1, LeavingKeeps DEF KeptSelf, SelfInv, Bounded
  <1>5. CASE Wait \/ UNCHANGED agentVars
    <2>1. UNCHANGED <<storeVars, phase, threadVars>> /\ applier' = applier
      BY <1>5 DEF Wait, agentVars, successionVars
    <2> QED
      BY <1>1, <1>3, <2>1, LeavingKeeps DEF KeptSelf, SelfInv, Bounded
  <1>6. CASE StartUp \/ ReconcileAtStart \/ StartApi \/ HttpNext \/ (WorkerNext /\ ~HelperRestartsAgent)
    <2>1. KeptSelf
      BY <1>2, <1>6, MainKeepsSelf, HttpKeepsSelf, WorkerKeepsSelf
    <2>2. \A id \in Id : applier'[id].tries = applier[id].tries
      <3>1. CASE applier' = applier
        BY <3>1
      <3>2. CASE HandOff
        <4>1. applier \in [Id -> ApplierState]
          BY DEF SelfInv, OwnedInv, ThreadInv, AgentInv, AgentTypeOK
        <4>2. applier' = applier \/ applier' = [applier EXCEPT ![worker.id].pc = "stop"]
          BY <3>2 DEF HandOff
        <4> QED
          BY <4>1, <4>2 DEF ApplierState
      <3> QED
        BY <1>3, <3>1, <3>2
    <2> QED
      BY <1>1, <1>3, <2>1, <2>2 DEF KeptSelf, SelfInv, Bounded
  <1> QED
    BY <1>4, <1>5, <1>6 DEF AgentNext, MainNext

\* SelfInv is inductive, and every step is one the journal allows and names the
\* version that runs.
LEMMA SelfInvStep ==
    ASSUME SelfInv, [SelfNext]_agentVars
    PROVE  SelfInv' /\ StoreMoves /\ Names
  <1>1. CASE [AgentNext]_agentVars
    BY <1>1, AgentKeepsSelf
  <1>2. CASE Outside
    <2>1. KeptSelf
      BY <1>2, OutsideDoes, LeavingKeeps
    <2> QED
      BY <1>2, <2>1, OutsideDoes, OutsideKeepsAgent DEF KeptSelf, SelfInv
  <1> QED
    BY <1>1, <1>2 DEF SelfNext, Outside

LEMMA SelfInvInit == AgentInit => SelfInv
  <1> SUFFICES ASSUME AgentInit PROVE SelfInv
    OBVIOUS
  <1>1. OwnedInv
    BY OwnedInit
  <1>2. /\ disk = Empty /\ running = FALSE /\ phase = "down" /\ http = HttpIdle /\ queue = <<>>
        /\ worker = WorkerIdle /\ reboots = 0
        /\ \A id \in Id : applier[id] = NoApplier
    BY DEF AgentInit, StoreInit
  <1>3. Kinds
    BY <1>2, StepsDiffer DEF Kinds, HttpIdle, WorkerIdle
  <1>4. Origins
    BY <1>2 DEF Origins, HasVersions, Empty, Absent
  <1>5. Launched /\ Verdicts
    BY <1>2 DEF Launched, Verdicts, NoApplier
  <1>6. Bounded
    BY <1>2, SelfAssumption DEF Bounded, NoApplier
  <1> QED
    BY <1>1, <1>3, <1>4, <1>5, <1>6 DEF SelfInv

LEMMA SelfInvariant == SelfSpec => []SelfInv
  BY SelfInvInit, SelfInvStep, PTL DEF SelfSpec

-----------------------------------------------------------------------------
(* The theorems.                                                           *)

\* Type correctness of the agent with its appliers and reboots.
THEOREM SelfTypeCorrect == SelfSpec => []SelfTypeOK
  <1>1. SelfInv => SelfTypeOK
    BY DEF SelfInv, OwnedInv, ThreadInv, AgentInv, Bounded, SelfTypeOK
  <1> QED
    BY <1>1, SelfInvariant, PTL

\* From its launch on, the applier finds in the file which version to go back
\* to and that both packages were put aside, whatever writes failed before.
THEOREM WayBackExists == SelfSpec => []ApplierHasWayBack
  <1>1. SelfInv => ApplierHasWayBack
    BY StoreAssumption
       DEF SelfInv, Launched, Delegable, Origins, HasVersions, ApplierHasWayBack
  <1> QED
    BY <1>1, SelfInvariant, PTL

\* Only the start of an agent gives a self-update a verdict, and it names the
\* version that runs.
THEOREM VerdictsNameTheVersion == SelfSpec => VerdictNamesTheRunningVersion
  <1>1. SelfInv /\ [SelfNext]_agentVars =>
            [\A id \in Id : disk[id].selfUpdate /\ disk'[id].state # disk[id].state =>
                /\ disk'[id].state = "succeeded" => phase = "loaded" /\ version = disk[id].to
                /\ disk'[id].state = "rolled_back" => phase = "loaded" /\ version = disk[id].from
            ]_agentVars
    BY SelfInvStep DEF Names
  <1> QED
    BY <1>1, SelfInvariant, PTL DEF SelfSpec, VerdictNamesTheRunningVersion

\* With appliers and reboots around it the agent still calls the journal only
\* with arguments of its types and while it is loaded.
LEMMA SelfCallsStore == SelfSpec => StoreSpec
  <1>1. AgentInit => StoreInit
    BY DEF AgentInit
  <1>2. SelfInv /\ [SelfNext]_agentVars => [StoreNext]_storeVars
    BY SelfInvStep DEF StoreMoves
  <1> QED
    BY <1>1, <1>2, SelfInvariant, PTL DEF SelfSpec, StoreSpec

\* Through the processes of a succession, killed and started by appliers and by
\* reboots, no entry of the file goes back, disappears or leaves a final state,
\* and never are two in progress.
THEOREM SuccessionKeepsJournal == SelfSpec => JournalSpec /\ []JournalHasOneLive
  BY SelfCallsStore, StoreImplementsJournal, OneLiveOnDisk

\* What the agent promises by itself it promises while appliers stop it and
\* replace its version, and through reboots.
THEOREM PromisesHoldAround ==
    SelfSpec => [](/\ HandoverIsClean /\ EngineKeepsContract /\ SuccessIsReal
                   /\ AcceptedIsDurable /\ NobodyIsOrphan)
  <1>1. SelfInv => /\ HandoverIsClean /\ EngineKeepsContract /\ SuccessIsReal
                   /\ AcceptedIsDurable /\ NobodyIsOrphan
    BY ThreadsShow, PromisedShows DEF SelfInv, OwnedInv, ThreadInv
  <1> QED
    BY <1>1, SelfInvariant, PTL

-----------------------------------------------------------------------------
\* Only StartApi begins to serve.
LEMMA ServingBegins ==
    ASSUME SelfInv, [SelfNext]_agentVars, phase # "serving", phase' = "serving"
    PROVE  StartApi
  <1>1. ~(ApplierNext \/ Reboot)
    BY OutsideDoes DEF Outside, endProcess
  <1>2. [AgentNext]_agentVars => StartApi
    BY DEF AgentNext, MainNext, StartUp, ReconcileAtStart, StartApi, Quit, Crash,
       HttpNext, HandleUpdate, HandleRestart, HandlePost, CreateOperation, EmitQueued, Get,
       WorkerNext, Deliver, MoveOn, DoWork, HelperInstalls, HelperRestarts, HelperRestartsAgent,
       HelperRefusesAgent, SetRefs, HandOff, Wait, agentVars, endProcess
  <1> QED
    BY <1>1, <1>2 DEF SelfNext

\* Whatever the processes before it left in progress, an agent begins to serve with
\* nothing in progress, in memory and in the file: what load() and
\* reconcileSelfUpdates() settled is written, or main() has returned.
THEOREM EveryStartServesFree == SelfSpec => ServesFree
  <1>1. SelfInv /\ [SelfNext]_agentVars =>
            [phase # "serving" /\ phase' = "serving" =>
                /\ ~hasActive'
                /\ \A id \in Id : ~Live(operations'[id]) /\ ~Live(disk'[id])]_agentVars
    <2> SUFFICES ASSUME SelfInv, [SelfNext]_agentVars, phase # "serving", phase' = "serving"
                 PROVE  /\ ~hasActive'
                        /\ \A id \in Id : ~Live(operations'[id]) /\ ~Live(disk'[id])
      OBVIOUS
    <2>1. phase = "reconciled" /\ UNCHANGED <<operations, disk, activeId, running>>
      BY ServingBegins DEF StartApi, storeVars
    <2>2. \A id \in Id : ~Live(operations[id]) /\ disk[id] = operations[id]
      BY <2>1 DEF SelfInv, OwnedInv, Cleared, Verdicts
    <2>3. running /\ activeId \in Id \cup {NoId} /\ ActiveIsTheLiveOne
      BY <2>1 DEF SelfInv, OwnedInv, ThreadInv, AgentInv, Hands, StoreInv, StoreTypeOK
    <2>4. activeId = NoId
      BY <2>2, <2>3 DEF ActiveIsTheLiveOne
    <2> QED
      BY <2>1, <2>2, <2>4 DEF hasActive
  <1> QED
    BY <1>1, SelfInvariant, PTL DEF SelfSpec, ServesFree

-----------------------------------------------------------------------------
(* Delegated operations, on a machine whose systemctl and dpkg work: an    *)
(* applier that has done more than being launched has stopped the agent,   *)
(* and the agent that starts after it settles the operation.               *)

Stopping ==
    phase = "serving" => \A id \in Id :
        operations[id].state = "delegated" /\ applier[id].pc # "none" => At(id, "stop")

LEMMA StoppingStep ==
    ASSUME SystemMayFail = FALSE, SelfInv, Stopping, [SelfNext]_agentVars
    PROVE  Stopping'
  <1>1. SelfInv'
    BY SelfInvStep
  <1>2. applier \in [Id -> ApplierState]
    BY DEF SelfInv, OwnedInv, ThreadInv, AgentInv, AgentTypeOK
  <1>3. CASE Outside
    <2>1. UNCHANGED <<storeVars, phase, threadVars>> \/ phase' = "down"
      BY <1>3, OutsideDoes DEF endProcess
    <2>2. CASE Reboot \/ \E i \in Id : ApplierStops(i)
      <3>1. unitEnds
        BY <2>2 DEF Reboot, ApplierStops, restartUnit, stopUnit
      <3>2. phase' = "down"
        BY <3>1 DEF unitEnds, endProcess
      <3> QED
        BY <3>2 DEF Stopping
    <2>3. CASE UNCHANGED <<storeVars, phase, threadVars>> /\ ~Reboot /\ ~\E i \in Id : ApplierStops(i)
      <3>1. PICK i \in Id : \/ ApplierInstalls(i) \/ ApplierBringsUp(i)
                            \/ ApplierProbes(i) \/ ApplierRollsBack(i) \/ ApplierBringsUpOld(i)
        BY <1>3, <2>3 DEF Outside, ApplierNext
      <3>2. ~At(i, "stop") /\ applier[i].pc # "none"
        BY <3>1 DEF ApplierInstalls, ApplierBringsUp, ApplierProbes, ApplierRollsBack,
                    ApplierBringsUpOld, At
      <3>3. \A id \in Id \ {i} : applier'[id] = applier[id]
        BY <1>2, <3>1 DEF ApplierInstalls, ApplierBringsUp, ApplierProbes, ApplierRollsBack,
                    ApplierBringsUpOld, step
      <3> QED
        BY <2>3, <3>2, <3>3 DEF Stopping, At, storeVars
    <2> QED
      BY <2>1, <2>2, <2>3 DEF Stopping
  <1>4. CASE [AgentNext]_agentVars
    <2>1. HandOff \/ applier' = applier
      BY <1>4, AgentLeaves
    <2>2. CASE phase # "serving" \/ phase' # "serving"
      <3>1. phase # "serving" /\ phase' = "serving" => StartApi
        BY ServingBegins
      <3>2. StartApi => \A id \in Id : ~Live(operations'[id])
        BY DEF StartApi, storeVars, SelfInv, OwnedInv, Cleared
      <3> QED
        BY <2>2, <3>1, <3>2 DEF Stopping, Live, InProgress
    <2>3. CASE phase = "serving" /\ phase' = "serving"
      <3>1. \A id \in Id : applier'[id].pc \in {applier[id].pc, "stop"}
        BY <1>2, <2>1 DEF HandOff, ApplierState
      <3>2. ASSUME NEW id \in Id, operations'[id].state = "delegated", applier[id].pc # "none"
            PROVE  applier[id].pc = "stop"
        <4>1. running /\ running' /\ Delegable(operations[id])
          BY <1>1, <2>3, <3>2 DEF SelfInv, Launched, OwnedInv, ThreadInv, AgentInv, Hands
        <4>2. isFinal(operations[id].state) => operations'[id].state = operations[id].state
          BY <1>4, <4>1, AgentKeepsSelf, MemoryVerdictStep
             DEF StoreMoves, SelfInv, OwnedInv, ThreadInv, AgentInv
        <4>3. operations[id].state = "delegated"
          BY <3>2, <4>1, <4>2 DEF Delegable, isFinal, Final
        <4> QED
          BY <2>3, <3>2, <4>3 DEF Stopping, At
      <3> QED
        BY <3>1, <3>2 DEF Stopping, At
    <2> QED
      BY <2>2, <2>3
  <1> QED
    BY <1>3, <1>4 DEF SelfNext, Outside

\* When systemctl and dpkg do what they are asked to, a delegated operation is
\* never left to nobody: its applier is about to stop this process, or the
\* worker is about to launch it or to fail it.
THEOREM DelegationStaysWatched ==
    ASSUME SystemMayFail = FALSE
    PROVE  SelfSpec => []DelegationIsWatched
  <1>1. AgentInit => Stopping
    BY DEF AgentInit, Stopping
  <1>2. SelfInv /\ Stopping /\ [SelfNext]_agentVars => Stopping'
    BY StoppingStep
  <1>3. SelfInv /\ Stopping => DelegationIsWatched
    <2> SUFFICES ASSUME SelfInv, Stopping, phase = "serving", NEW id \in Id,
                        operations[id].state = "delegated", disk[id].state = "delegated"
                 PROVE  Busy(id) \/ (worker.id = id /\ worker.pc # "idle")
      BY DEF DelegationIsWatched
    <2>1. ~(http.pc = "emit" /\ http.id = id) /\ ~\E i \in DOMAIN queue : queue[i].id = id
      BY ThreadsShow DEF SelfInv, OwnedInv, HandoverIsClean
    <2>2. applier[id].pc # "none" \/ (worker.id = id /\ worker.pc # "idle")
      BY <2>1 DEF SelfInv, OwnedInv, NobodyIsOrphan, Live, InProgress
    <2> QED
      BY <2>2 DEF Stopping, At, Busy
  <1> QED
    BY <1>1, <1>2, <1>3, SelfInvariant, PTL DEF SelfSpec

\* When writes succeed, what a client was told of an operation stays true through
\* self-updates, rollbacks and reboots.
THEOREM VerdictStaysAround ==
    ASSUME SaveMayFail = FALSE
    PROVE  SelfSpec => []VerdictIsStable
  <1>1. AgentInit => Told
    BY DEF AgentInit, StoreInit, Told
  <1>2. SelfInv /\ Told /\ [SelfNext]_agentVars => Told'
    <2> SUFFICES ASSUME SelfInv, Told, [SelfNext]_agentVars PROVE Told'
      OBVIOUS
    <2>1. AgentInv
      BY DEF SelfInv, OwnedInv, ThreadInv
    <2>2. CASE [AgentNext]_agentVars
      BY <2>1, <2>2, ToldStep
    <2>3. CASE Outside
      <3>1. seen' = seen /\ [StoreNext]_storeVars
        BY <2>3, OutsideDoes, OutsideKeepsAgent DEF StoreMoves
      <3>2. running' => disk' = operations'
        BY <2>1, <3>1, EveryChangeIsWritten DEF Told, AgentInv
      <3>3. \A id \in Id : isFinal(disk[id].state) =>
                disk'[id].state = disk[id].state /\ disk'[id].detail = disk[id].detail
        BY <2>1, <3>1, VerdictStep DEF AgentInv
      <3> QED
        BY <3>1, <3>2, <3>3 DEF Told
    <2> QED
      BY <2>2, <2>3 DEF SelfNext, Outside
  <1>3. SelfInv /\ Told => VerdictIsStable
    BY DEF SelfInv, OwnedInv, ThreadInv, AgentInv, Hands, Told, VerdictIsStable
  <1> QED
    BY <1>1, <1>2, <1>3, SelfInvariant, PTL DEF SelfSpec

-----------------------------------------------------------------------------
(* Why a succession ends.                                                  *)

\* How many links of selfApplyRun() are at most ahead, counting all turns of
\* bringUp() as one.
LinksAhead == [none |-> 7, stop |-> 6, install |-> 5, bring_up |-> 4, probe |-> 3, roll_back |-> 2,
               bring_up_old |-> 1, done |-> 0, rolled |-> 0, lost |-> 0]

ApplierGoesOn(id) ==
    \/ LinksAhead[applier'[id].pc] < LinksAhead[applier[id].pc]
    \/ applier'[id].pc = applier[id].pc /\ applier[id].tries < applier'[id].tries

\* An operation about to be handed over has no applier yet.
NotYetLaunched == worker.pc = "handoff" => applier[worker.id].pc = "none"

LEMMA NotYetLaunchedStep ==
    ASSUME SelfInv, NotYetLaunched, [SelfNext]_agentVars
    PROVE  NotYetLaunched'
  <1>1. /\ worker \in [pc: WorkerPc, id: Id \cup {NoId}]
        /\ worker.pc # "idle" => running /\ worker.id \in Id
    BY DEF SelfInv, OwnedInv, ThreadInv, AgentInv, AgentTypeOK, Hands
  <1>2. applier \in [Id -> ApplierState]
    BY DEF SelfInv, OwnedInv, ThreadInv, AgentInv, AgentTypeOK
  <1>3. CASE Outside
    <2>1. CASE endProcess
      BY <2>1 DEF endProcess, threadsGone, WorkerIdle, NotYetLaunched
    <2>2. CASE UNCHANGED threadVars
      BY <1>1, <1>3, <2>2, OutsideDoes DEF NotYetLaunched, threadVars
    <2> QED
      BY <1>3, <2>1, <2>2, OutsideDoes DEF threadVars
  <1>4. CASE [AgentNext]_agentVars
    <2> SUFFICES ASSUME worker'.pc = "handoff" PROVE applier'[worker'.id].pc = "none"
      BY DEF NotYetLaunched
    <2>1. worker.pc # "idle"
      <3> SUFFICES ASSUME worker.pc = "idle" PROVE worker'.pc # "handoff"
        OBVIOUS
      <3>1. Deliver \/ worker' \in {worker, WorkerIdle}
        BY <1>4 DEF AgentNext, MainNext, StartUp, ReconcileAtStart, StartApi, Quit, Crash, HttpNext,
           HandleUpdate, HandleRestart, HandlePost, CreateOperation, EmitQueued, Get, WorkerNext,
           MoveOn, DoWork, HelperInstalls, HelperRestarts, HelperRestartsAgent, HelperRefusesAgent,
           SetRefs, HandOff, Wait, agentVars, threadVars, endProcess, threadsGone, MovePc, Work
      <3> QED
        BY <3>1 DEF Deliver, firstStep, WorkerIdle
    <2>2. CASE worker' = worker
      <3>1. applier' = applier \/ HandOff
        BY <1>4, AgentLeaves
      <3>2. ~HandOff
        BY <1>1, <2>1, <2>2 DEF HandOff, goto, WorkerIdle
      <3> QED
        BY <2>2, <3>1, <3>2 DEF NotYetLaunched
    <2>3. CASE worker' # worker
      <3>1. MoveOn /\ worker.pc = "delegate"
        <4>0. \A pc : goto(pc) => pc = "handoff"
          BY <1>1 DEF goto, WorkerIdle
        <4>1. MoveOn
          <5>1. ~DoWork
            BY <4>0, WorkKind DEF DoWork
          <5>2. ~(HelperInstalls \/ HelperRestarts \/ HelperRefusesAgent \/ SetRefs \/ HandOff)
            BY <4>0 DEF HelperInstalls, HelperRestarts, HelperRefusesAgent, SetRefs, HandOff
          <5>3. ~(HelperRestartsAgent \/ Quit \/ Crash)
            BY DEF HelperRestartsAgent, Quit, Crash, endProcess, threadsGone, WorkerIdle
          <5>4. ~(Deliver \/ StartUp \/ ReconcileAtStart \/ StartApi \/ HttpNext \/ Wait
                  \/ UNCHANGED agentVars)
            BY <2>1, <2>3 DEF Deliver, StartUp, ReconcileAtStart, StartApi, HttpNext, HandleUpdate,
               HandleRestart, HandlePost, CreateOperation, EmitQueued, Get, Wait, agentVars, threadVars
          <5> QED
            BY <1>4, <5>1, <5>2, <5>3, <5>4 DEF AgentNext, MainNext, WorkerNext
        <4>2. PICK next \in {Moves(worker.pc).next, Moves(worker.pc).refused} : goto(next)
          BY <4>1 DEF MoveOn
        <4>3. next = "handoff"
          BY <4>0, <4>2
        <4> QED
          BY <4>1, <4>2, <4>3, KindTable DEF MoveOn
      <3>2. worker'.id = worker.id /\ applier' = applier
        BY <1>1, <1>4, <3>1, AgentLeaves DEF MoveOn, goto, HandOff, WorkerIdle
      <3>3. operations[worker.id].state = "rollback_prepared"
        BY <3>1 DEF SelfInv, OwnedInv, ThreadInv, Held, Fits
      <3> QED
        BY <1>1, <3>1, <3>2, <3>3 DEF SelfInv, Launched, Delegable, Final
    <2> QED
      BY <2>2, <2>3
  <1> QED
    BY <1>3, <1>4 DEF SelfNext, Outside

\* One link of an applier.
LEMMA LinkLeadsOn ==
    ASSUME applier \in [Id -> ApplierState], NEW id \in Id,
           \/ ApplierStops(id) \/ ApplierInstalls(id) \/ ApplierBringsUp(id)
           \/ ApplierProbes(id) \/ ApplierRollsBack(id) \/ ApplierBringsUpOld(id)
    PROVE  /\ ApplierGoesOn(id)
           /\ \A other \in Id \ {id} : applier'[other] = applier[other]
  <1>1. ASSUME NEW pc, step(id, pc), LinksAhead[pc] < LinksAhead[applier[id].pc]
        PROVE  /\ ApplierGoesOn(id)
               /\ \A other \in Id \ {id} : applier'[other] = applier[other]
    BY <1>1 DEF step, ApplierGoesOn
  <1>2. CASE ApplierBringsUp(id)
    <2>1. CASE step(id, "probe")
      BY <1>1, <1>2, <2>1 DEF ApplierBringsUp, At, LinksAhead
    <2>2. CASE /\ applier' = [applier EXCEPT ![id] = [pc |-> "roll_back", tries |-> 0]]
               /\ applier[id].pc = "bring_up"
      BY <2>2 DEF ApplierGoesOn, LinksAhead
    <2>3. CASE /\ applier' = [applier EXCEPT ![id] = [pc |-> "bring_up", tries |-> applier[id].tries + 1]]
               /\ applier[id].pc = "bring_up"
      <3>1. applier[id].tries \in Nat
        BY DEF ApplierState
      <3> QED
        BY <2>3, <3>1 DEF ApplierGoesOn
    <2> QED
      BY <1>2, <2>1, <2>2, <2>3 DEF ApplierBringsUp, At
  <1>3. CASE ~ApplierBringsUp(id)
    <2>1. PICK pc \in ApplierPc : step(id, pc) /\ LinksAhead[pc] < LinksAhead[applier[id].pc]
      BY <1>3 DEF ApplierStops, ApplierInstalls, ApplierProbes, ApplierRollsBack, ApplierBringsUpOld,
         At, LinksAhead, ApplierPc
    <2> QED
      BY <1>1, <2>1
  <1> QED
    BY <1>2, <1>3

\* An operation has one applier in its life, which runs each link once and repeats
\* only the start of the unit: through any crashes and reboots, nobody installs
\* a second time what was installed or rolled back.
THEOREM ApplierRunsOnce ==
    SelfSpec => [][\A id \in Id : applier'[id] # applier[id] => ApplierGoesOn(id)]_agentVars
  <1>1. AgentInit => NotYetLaunched
    BY DEF AgentInit, NotYetLaunched, WorkerIdle
  <1>2. SelfInv /\ NotYetLaunched /\ [SelfNext]_agentVars => NotYetLaunched'
    BY NotYetLaunchedStep
  <1>3. SelfInv /\ NotYetLaunched /\ [SelfNext]_agentVars =>
            [\A id \in Id : applier'[id] # applier[id] => ApplierGoesOn(id)]_agentVars
    <2> SUFFICES ASSUME SelfInv, NotYetLaunched, [SelfNext]_agentVars,
                        NEW id \in Id, applier'[id] # applier[id]
                 PROVE  ApplierGoesOn(id)
      OBVIOUS
    <2>1. applier \in [Id -> ApplierState]
      BY DEF SelfInv, OwnedInv, ThreadInv, AgentInv, AgentTypeOK
    <2>2. CASE ApplierNext
      BY <2>1, <2>2, LinkLeadsOn DEF ApplierNext
    <2>3. CASE Reboot
      <3>1. Busy(id) /\ applier'[id].pc = "lost"
        BY <2>3 DEF Reboot
      <3> QED
        BY <2>1, <3>1 DEF ApplierGoesOn, Busy, LinksAhead, ApplierState, ApplierPc
    <2>4. CASE HandOff
      <3>1. applier' = [applier EXCEPT ![worker.id].pc = "stop"] /\ worker.pc = "handoff"
        BY <2>4 DEF HandOff
      <3>2. worker.id = id /\ applier[id].pc = "none" /\ applier'[id].pc = "stop"
        BY <2>1, <3>1 DEF NotYetLaunched, ApplierState
      <3> QED
        BY <3>2 DEF ApplierGoesOn, LinksAhead
    <2> QED
      BY <2>2, <2>3, <2>4, AgentLeaves DEF SelfNext
  <1> QED
    BY <1>1, <1>2, <1>3, SelfInvariant, PTL DEF SelfSpec
=============================================================================
