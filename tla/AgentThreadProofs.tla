-------------------------- MODULE AgentThreadProofs --------------------------
(***************************************************************************)
(* Proofs about the two threads of UpdateAgent: an operation is handed     *)
(* over from one to the other and never held by both, the slots of the     *)
(* engine respect the state contract, and a success had its helper call.   *)
(***************************************************************************)
EXTENDS UpdateAgentProofs

\* The state of the operation at each step of a slot.
Fits(pc, s) ==
    \/ pc \in {"download", "relaunch", "stage_download"} /\ s = "queued"
    \/ pc \in {"fetch", "verify", "stage", "stage_verify"} /\ s = "downloading"
    \/ pc \in {"checksum", "install", "prepare"} /\ s = "verifying"
    \/ pc \in {"helper_install", "restart"} /\ s = "installing"
    \/ pc \in {"helper_restart", "health"} /\ s = "restarting"
    \/ pc \in {"probe", "succeed", "reserve"} /\ s = "health_check"
    \/ pc \in {"refs", "delegate"} /\ s = "rollback_prepared"
    \/ pc = "handoff" /\ s = "delegated"
    \/ pc = "fail" /\ s \in InProgress \ {"queued"}

\* One of the HTTP thread, the queue and the worker holds the operation in
\* progress, and the holder knows its state.
Held ==
    /\ http.pc = "create" => ~hasActive /\ queue = <<>> /\ worker.pc = "idle"
    /\ http.pc = "emit" =>
           operations[http.id].state = "queued" /\ queue = <<>> /\ worker.pc = "idle"
    /\ queue # <<>> =>
           /\ http.pc = "idle" /\ worker.pc = "idle" /\ Len(queue) = 1
           /\ operations[queue[1].id].state = "queued"
    /\ worker.pc # "idle" =>
           /\ http.pc = "idle" /\ queue = <<>>
           /\ Fits(worker.pc, operations[worker.id].state)

\* The steps of a slot after its helper call.
AfterHelper == {"restart", "health", "probe", "succeed", "reserve"}

\* A success, in memory or in the file, had its helper call.
Real ==
    /\ worker.pc \in AfterHelper => worker.id \in applied
    /\ \A id \in Id : operations[id].state = "succeeded" /\ ~operations[id].selfUpdate => id \in applied
    /\ SuccessIsReal

ThreadInv == AgentInv /\ Held /\ Real

-----------------------------------------------------------------------------
(* The tables of the engine.                                               *)

\* At every step of a slot the state of the operation allows the next move, and
\* the move leads to the state the step after it expects.
LEMMA MoveTable ==
    ASSUME NEW pc \in MovePc, NEW s, Fits(pc, s)
    PROVE  LET m == Moves(pc) IN
           /\ canTransition(s, m.to)
           /\ m.next = "idle" \/ Fits(m.next, m.to)
           /\ m.refused = "idle" \/ Fits(m.refused, m.to)
           /\ m.to = "succeeded" => pc \in {"succeed", "reserve"}
           /\ m.next \in AfterHelper \/ m.refused \in AfterHelper => pc \in AfterHelper
<1> USE DEF Fits, Move, canTransition, isFinal, Final, InProgress, Edge, AfterHelper
<1>1. CASE pc \in {"download", "verify", "install", "restart", "health"}
  BY <1>1 DEF Moves, runMoves
<1>2. CASE pc \in {"succeed", "reserve"}
  BY <1>2 DEF Moves, runMoves
<1>3. CASE pc = "fail"
  BY <1>3 DEF Moves, runMoves
<1>4. CASE pc = "relaunch"
  <2>1. Moves(pc) = restartMoves["relaunch"]
    BY <1>4 DEF Moves, runMoves, restartMoves
  <2> QED
    BY <1>4, <2>1 DEF restartMoves
<1>5. CASE pc = "stage_download"
  <2>1. Moves(pc) = selfMoves["stage_download"]
    BY <1>5 DEF Moves, runMoves, restartMoves
  <2> QED
    BY <1>5, <2>1 DEF selfMoves
<1>6. CASE pc = "stage_verify"
  <2>1. Moves(pc) = selfMoves["stage_verify"]
    BY <1>6 DEF Moves, runMoves, restartMoves
  <2> QED
    BY <1>6, <2>1 DEF selfMoves
<1>7. CASE pc = "prepare"
  <2>1. Moves(pc) = selfMoves["prepare"]
    BY <1>7 DEF Moves, runMoves, restartMoves
  <2> QED
    BY <1>7, <2>1 DEF selfMoves
<1>8. CASE pc = "delegate"
  <2>1. Moves(pc) = selfMoves["delegate"]
    BY <1>8 DEF Moves, runMoves, restartMoves
  <2> QED
    BY <1>8, <2>1 DEF selfMoves
<1> QED
  BY <1>1, <1>2, <1>3, <1>4, <1>5, <1>6, <1>7, <1>8 DEF MovePc

\* A slot is over after a written move only when the move is a verdict.
LEMMA NoIdleBeforeTheEnd ==
    ASSUME NEW pc \in MovePc, Moves(pc).next = "idle"
    PROVE  Moves(pc).to \in Final
  <1>1. CASE pc \in DOMAIN runMoves
    BY <1>1 DEF Moves, runMoves, Move, Final
  <1>2. CASE pc \notin DOMAIN runMoves
    BY <1>2 DEF Moves, runMoves, restartMoves, selfMoves, Move, MovePc
  <1> QED
    BY <1>1, <1>2

\* The work between two moves leaves the state to the step after it.
LEMMA WorkTable ==
    ASSUME NEW pc \in DOMAIN Work, NEW end \in {"well", "badly"}, NEW s, Fits(pc, s)
    PROVE  /\ Fits(Work[pc][end], s)
           /\ Work[pc][end] \in AfterHelper => pc \in AfterHelper
  <1>1. pc \in {"fetch", "checksum", "probe", "stage"}
    BY DEF Work
  <1> QED
    BY <1>1 DEF Work, Fits, AfterHelper, InProgress

\* A step of a slot is a step of an operation in progress.
LEMMA FitsIsLive ==
    ASSUME NEW pc, NEW s, Fits(pc, s)
    PROVE  s \in InProgress
  BY DEF Fits, InProgress

\* An operation in progress is the active one.
LEMMA LiveIsActive ==
    ASSUME AgentInv, running, NEW id \in Id, operations[id].state \in InProgress
    PROVE  hasActive /\ id = activeId
  <1>1. id = activeId
    BY DEF AgentInv, StoreInv, ActiveIsTheLiveOne, Live
  <1>2. activeId # NoId /\ Present(operations[activeId])
    BY <1>1, StoreAssumption DEF Present, InProgress
  <1> QED
    BY <1>1, <1>2 DEF hasActive

\* While nothing is active the queue is empty and the worker idle.
LEMMA FreeIsIdle ==
    ASSUME ThreadInv, ~hasActive
    PROVE  queue = <<>> /\ worker.pc = "idle"
  <1>1. queue = <<>>
    <2> SUFFICES ASSUME queue # <<>> PROVE FALSE
      OBVIOUS
    <2>1. operations[queue[1].id].state = "queued" /\ running /\ Len(queue) = 1
      BY DEF ThreadInv, Held, AgentInv, Hands
    <2>2. queue[1].id \in Id
      <3> DEFINE Event == [slot: {"run", "restart"}, id: Id]
      <3>1. queue \in Seq(Event)
        BY DEF ThreadInv, AgentInv, AgentTypeOK
      <3>2. queue[1] \in Event
        <4> HIDE DEF Event
        <4> QED
          BY <2>1, <3>1
      <3> QED
        BY <3>2
    <2>3. operations[queue[1].id].state \in InProgress
      BY <2>1 DEF InProgress
    <2> QED
      BY <2>1, <2>2, <2>3, LiveIsActive DEF ThreadInv
  <1>2. worker.pc = "idle"
    <2> SUFFICES ASSUME worker.pc # "idle" PROVE FALSE
      OBVIOUS
    <2>1. worker.id \in Id /\ running /\ operations[worker.id].state \in InProgress
      BY FitsIsLive DEF ThreadInv, Held, AgentInv, Hands
    <2> QED
      BY <2>1, LiveIsActive DEF ThreadInv
  <1> QED
    BY <1>1, <1>2

-----------------------------------------------------------------------------
(* One lemma per action, or per group of actions that move the same things. *)

Kept2 == Held' /\ Real'

\* Nothing is active or done before the first start.
LEMMA ThreadInvInit == AgentInit => ThreadInv
  <1> SUFFICES ASSUME AgentInit PROVE ThreadInv
    OBVIOUS
  <1>1. AgentInv
    BY AgentInvInit
  <1>2. \A id \in Id : operations[id].state = "absent" /\ disk[id].state = "absent"
    BY DEF AgentInit, StoreInit, Empty, Absent
  <1>3. Held /\ Real
    BY <1>2 DEF Held, Real, AgentInit, HttpIdle, WorkerIdle, AfterHelper, SuccessIsReal
  <1> QED
    BY <1>1, <1>3 DEF ThreadInv

\* The process ends, and its threads with it; the file stays.
LEMMA EndKeepsThreads ==
    ASSUME ThreadInv, endProcess, applied \subseteq applied'
    PROVE  Kept2
  <1>1. /\ http' = HttpIdle /\ queue' = <<>> /\ worker' = WorkerIdle
        /\ operations' = Empty /\ disk' = disk
    BY DEF endProcess, threadsGone, Exit, forget
  <1>2. \A id \in Id : operations'[id].state = "absent"
    BY <1>1 DEF Empty, Absent
  <1>3. Held'
    BY <1>1 DEF Held, HttpIdle, WorkerIdle
  <1>4. Real'
    BY <1>1, <1>2 DEF Real, WorkerIdle, AfterHelper, SuccessIsReal, ThreadInv
  <1> QED
    BY <1>3, <1>4 DEF Kept2

\* main() works while no thread holds anything.
LEMMA MainKeepsThreads == ThreadInv /\ (StartUp \/ ReconcileAtStart \/ StartApi) => Kept2
  <1> SUFFICES ASSUME ThreadInv, StartUp \/ ReconcileAtStart \/ StartApi PROVE Kept2
    OBVIOUS
  <1>1. /\ http.pc = "idle" /\ queue = <<>> /\ worker.pc = "idle"
        /\ UNCHANGED <<http, queue, worker, applied>>
    BY DEF StartUp, ReconcileAtStart, StartApi, ThreadInv, AgentInv, Hands, threadVars, historyVars
  <1>2. Held'
    BY <1>1 DEF Held
  <1>3. worker'.pc \notin AfterHelper
    BY <1>1 DEF AfterHelper
  <1>4. disk \in [Id -> Operation] /\ operations \in [Id -> Operation]
    BY DEF ThreadInv, AgentInv, StoreInv, StoreTypeOK
  <1>5. CASE StartUp
    <2>1. disk' = operations' /\ operations' = [id \in Id |-> loadEntry(disk[id])]
      BY <1>5 DEF StartUp, Load, load, save
    <2>2. ASSUME NEW id \in Id, operations'[id].state = "succeeded", ~operations'[id].selfUpdate
          PROVE  id \in applied'
      <3>1. disk[id] \in Operation /\ operations'[id] = loadEntry(disk[id])
        BY <1>4, <2>1
      <3>2. operations'[id] = disk[id]
        BY <2>2, <3>1 DEF loadEntry, Operation
      <3> QED
        BY <1>1, <2>2, <3>2 DEF ThreadInv, Real, SuccessIsReal
    <2> QED
      BY <1>2, <1>3, <2>1, <2>2 DEF Kept2, Real, SuccessIsReal
  <1>6. CASE ReconcileAtStart
    <2>1. PICK moved \in SaveOutcome, ok \in SaveOutcome : reconcileSelfUpdates(version, moved, ok)
      BY <1>6 DEF ReconcileAtStart
    <2>2. disk' \in {disk, operations'}
      BY <2>1 DEF reconcileSelfUpdates
    <2>3. ASSUME NEW id \in Id, operations'[id].state = "succeeded", ~operations'[id].selfUpdate
          PROVE  id \in applied'
      <3>1. operations'[id] = IF id \in pending THEN settled(operations[id], version) ELSE operations[id]
        BY <2>1 DEF reconcileSelfUpdates
      <3>2. CASE id \in pending
        <4>1. operations[id].selfUpdate /\ operations[id] \in Operation
          BY <1>4, <3>2 DEF pending
        <4>2. settled(operations[id], version).selfUpdate = operations[id].selfUpdate
          BY <4>1 DEF settled, Operation
        <4> QED
          BY <2>3, <3>1, <3>2, <4>1, <4>2
      <3>3. CASE id \notin pending
        BY <1>1, <2>3, <3>1, <3>3 DEF ThreadInv, Real
      <3> QED
        BY <3>2, <3>3
    <2>4. SuccessIsReal'
      BY <1>1, <2>2, <2>3 DEF SuccessIsReal, ThreadInv, Real
    <2> QED
      BY <1>2, <1>3, <2>3, <2>4 DEF Kept2, Real
  <1>7. CASE StartApi
    BY <1>1, <1>2, <1>3, <1>7 DEF StartApi, storeVars, Kept2, Real, SuccessIsReal, ThreadInv
  <1> QED
    BY <1>5, <1>6, <1>7

\* The HTTP thread hands an operation to the worker through the queue.
LEMMA HttpKeepsThreads == ThreadInv /\ HttpNext => Kept2
  <1>1. ASSUME ThreadInv, HandleUpdate \/ HandleRestart PROVE Kept2
    <2>1. PICK slot \in {"run", "restart"}, project \in Project, to \in Version \cup {NoVersion} :
             HandlePost(slot, project, to)
      BY <1>1 DEF HandleUpdate, HandleRestart
    <2>2. /\ ~hasActive /\ http'.pc = "create"
          /\ UNCHANGED <<disk, operations, activeId, queue, worker, applied>>
      BY <2>1 DEF HandlePost, storeVars, historyVars
    <2>3. queue = <<>> /\ worker.pc = "idle"
      BY <1>1, <2>2, FreeIsIdle
    <2>4. ~hasActive'
      BY <2>2 DEF hasActive, Present
    <2> QED
      BY <1>1, <2>2, <2>3, <2>4 DEF Kept2, Held, Real, SuccessIsReal, ThreadInv
  <1>2. ASSUME ThreadInv, CreateOperation PROVE Kept2
    <2>1. /\ http.pc = "create" /\ queue = <<>> /\ worker.pc = "idle"
          /\ UNCHANGED <<queue, worker, applied>>
      BY <1>2 DEF CreateOperation, ThreadInv, Held, historyVars
    <2>2. PICK id \in Id, ok \in SaveOutcome, from \in Version \cup {NoVersion}, self \in BOOLEAN :
             /\ create(id, http.project, from, http.to, self, ok)
             /\ http' = IF ok THEN [http EXCEPT !.pc = "emit", !.id = id] ELSE HttpIdle
      BY <1>2 DEF CreateOperation, ThreadInv, AgentInv, AgentTypeOK
    <2>3. operations \in [Id -> Operation]
      BY <1>2 DEF ThreadInv, AgentInv, StoreInv, StoreTypeOK
    <2>4. http'.pc \in {"idle", "emit"} /\ (http'.pc = "emit" => ok /\ http'.id = id)
      BY <1>2, <2>2 DEF HttpIdle, ThreadInv, AgentInv, AgentTypeOK
    <2>5. /\ ok => operations'[id].state = "queued"
          /\ \A j \in Id : operations'[j] = operations[j] \/ operations'[j].state = "queued"
          /\ disk' = operations' \/ disk' = disk
      BY <2>2, <2>3 DEF create, created, save
    <2>6. Held'
      BY <2>1, <2>4, <2>5 DEF Held
    <2>7. Real'
      BY <1>2, <2>1, <2>5 DEF Real, SuccessIsReal, ThreadInv
    <2> QED
      BY <2>6, <2>7 DEF Kept2
  <1>3. ASSUME ThreadInv, EmitQueued PROVE Kept2
    <2>1. /\ http.pc = "emit" /\ queue = <<>> /\ worker.pc = "idle"
          /\ operations[http.id].state = "queued" /\ http' = HttpIdle
          /\ UNCHANGED <<disk, operations, worker, applied>>
      BY <1>3 DEF EmitQueued, ThreadInv, Held, storeVars
    <2>2. queue' = <<[slot |-> http.slot, id |-> http.id]>>
      BY <1>3, <2>1 DEF EmitQueued
    <2>3. Len(queue') = 1 /\ queue'[1].id = http.id
      BY <2>2
    <2> QED
      BY <1>3, <2>1, <2>3 DEF Kept2, Held, Real, SuccessIsReal, ThreadInv, HttpIdle
  <1>4. ASSUME ThreadInv, NEW id \in Id, Get(id) PROVE Kept2
    <2>1. UNCHANGED <<disk, operations, activeId, http, queue, worker, applied>>
      BY <1>4 DEF Get, storeVars, threadVars
    <2> QED
      BY <1>4, <2>1 DEF Kept2, Held, Real, SuccessIsReal, ThreadInv, hasActive, Present
  <1> QED
    BY <1>1, <1>2, <1>3, <1>4 DEF HttpNext

\* A slot goes on: the step after is one the state of its operation fits.
LEMMA SlotGoesOn ==
    ASSUME ThreadInv, worker.pc # "idle", NEW pc, goto(pc), UNCHANGED <<http, queue>>,
           pc = "idle" \/ Fits(pc, operations'[worker.id].state),
           pc \in AfterHelper => worker.id \in applied', applied \subseteq applied',
           disk' \in {disk, operations'},
           \A id \in Id : operations'[id].state = "succeeded" /\ ~operations'[id].selfUpdate =>
                              id \in applied'
    PROVE  Kept2
  <1>1. http.pc = "idle" /\ queue = <<>>
    BY DEF ThreadInv, Held
  <1>2. worker \in [pc: WorkerPc, id: Id \cup {NoId}]
    BY DEF ThreadInv, AgentInv, AgentTypeOK
  <1>3. worker'.pc = pc /\ (pc # "idle" => worker'.id = worker.id)
    BY <1>2 DEF goto, WorkerIdle
  <1>4. Held'
    BY <1>1, <1>3 DEF Held
  <1>5. SuccessIsReal'
    BY DEF SuccessIsReal, ThreadInv, Real
  <1>6. "idle" \notin AfterHelper
    BY DEF AfterHelper
  <1> QED
    BY <1>3, <1>4, <1>5, <1>6 DEF Kept2, Real

\* The slots of the engine.
LEMMA WorkerKeepsThreads == ThreadInv /\ WorkerNext => Kept2
  <1>1. ASSUME ThreadInv, Deliver PROVE Kept2
    <2>1. /\ queue # <<>> /\ http.pc = "idle" /\ Len(queue) = 1
          /\ operations[Head(queue).id].state = "queued"
          /\ UNCHANGED <<disk, operations, http, applied>>
      BY <1>1 DEF Deliver, ThreadInv, Held, storeVars, historyVars
    <2>2. queue' = <<>>
      <3> DEFINE Event == [slot: {"run", "restart"}, id: Id]
      <3>1. queue \in Seq(Event) /\ queue' = Tail(queue)
        BY <1>1 DEF Deliver, ThreadInv, AgentInv, AgentTypeOK
      <3> QED
        <4> HIDE DEF Event
        <4> QED
          BY <2>1, <3>1
    <2>3. /\ worker'.pc \in {"relaunch", "stage_download", "download"}
          /\ worker'.id = Head(queue).id
      BY <1>1 DEF Deliver, firstStep
    <2>4. Fits(worker'.pc, operations'[worker'.id].state) /\ worker'.pc \notin AfterHelper
      BY <2>1, <2>3 DEF Fits, AfterHelper
    <2> QED
      BY <1>1, <2>1, <2>2, <2>4 DEF Kept2, Held, Real, SuccessIsReal, ThreadInv
  <1>2. ASSUME ThreadInv, MoveOn PROVE Kept2
    <2> DEFINE m == Moves(worker.pc)
    <2>1. /\ worker.pc \in MovePc /\ worker.pc # "idle" /\ worker.id \in Id
          /\ Fits(worker.pc, operations[worker.id].state)
          /\ UNCHANGED <<http, queue, applied>> /\ operations \in [Id -> Operation]
      BY <1>2 DEF MoveOn, MovePc, ThreadInv, Held, AgentInv, Hands, historyVars, StoreInv,
                  StoreTypeOK
    <2>2. /\ m.next = "idle" \/ Fits(m.next, m.to)
          /\ m.refused = "idle" \/ Fits(m.refused, m.to)
          /\ m.to = "succeeded" => worker.pc \in AfterHelper
          /\ m.next \in AfterHelper \/ m.refused \in AfterHelper => worker.pc \in AfterHelper
      BY <2>1, MoveTable DEF AfterHelper
    <2>3. PICK ok \in SaveOutcome : transition(worker.id, m.to, m.detail, ok)
                                    /\ goto(IF ok THEN m.next ELSE m.refused)
      BY <1>2 DEF MoveOn
    <2> HIDE DEF m
    <2>4. PICK pc : pc \in {m.next, m.refused} /\ goto(pc)
      BY <2>3
    <2>5. /\ operations'[worker.id].state = m.to /\ disk' \in {disk, operations'}
          /\ \A id \in Id : id # worker.id => operations'[id] = operations[id]
      BY <2>1, <2>3 DEF transition, save, Operation
    <2>6. worker.pc \in AfterHelper => worker.id \in applied
      BY <1>2 DEF ThreadInv, Real
    <2>7. \A id \in Id : operations'[id].state = "succeeded" /\ ~operations'[id].selfUpdate =>
                              id \in applied'
      BY <1>2, <2>1, <2>2, <2>5, <2>6 DEF ThreadInv, Real
    <2> QED
      BY <1>2, <2>1, <2>2, <2>4, <2>5, <2>6, <2>7, SlotGoesOn
  <1>3. ASSUME ThreadInv, DoWork PROVE Kept2
    <2>1. /\ worker.pc \in DOMAIN Work /\ worker.pc # "idle"
          /\ Fits(worker.pc, operations[worker.id].state)
          /\ UNCHANGED <<disk, operations, http, queue, applied>>
      BY <1>3 DEF DoWork, Work, ThreadInv, Held, storeVars, historyVars
    <2>2. PICK end \in {"well", "badly"} : goto(Work[worker.pc][end])
      BY <1>3 DEF DoWork
    <2>3. /\ Fits(Work[worker.pc][end], operations'[worker.id].state)
          /\ Work[worker.pc][end] \in AfterHelper => worker.pc \in AfterHelper
      BY <2>1, WorkTable
    <2> QED
      BY <1>3, <2>1, <2>2, <2>3, SlotGoesOn DEF ThreadInv, Real
  <1>4. ASSUME ThreadInv, HelperInstalls \/ HelperRestarts \/ HelperRefusesAgent PROVE Kept2
    <2>1. /\ worker.pc \in {"helper_install", "helper_restart"}
          /\ Fits(worker.pc, operations[worker.id].state)
          /\ UNCHANGED <<disk, operations, http, queue>> /\ applied \subseteq applied'
      BY <1>4 DEF HelperInstalls, HelperRestarts, HelperRefusesAgent, ThreadInv, Held, storeVars,
                  historyVars
    <2>2. PICK pc \in {"restart", "health", "fail"} :
             /\ goto(pc)
             /\ pc = "restart" => worker.pc = "helper_install" /\ worker.id \in applied'
             /\ pc = "health" => worker.pc = "helper_restart" /\ worker.id \in applied'
      BY <1>4 DEF HelperInstalls, HelperRestarts, HelperRefusesAgent
    <2>3. Fits(pc, operations'[worker.id].state)
      BY <2>1, <2>2 DEF Fits, InProgress
    <2>4. pc \in AfterHelper => worker.id \in applied'
      BY <2>2 DEF AfterHelper
    <2> QED
      BY <1>4, <2>1, <2>2, <2>3, <2>4, SlotGoesOn DEF ThreadInv, Real
  <1>5. ASSUME ThreadInv, SetRefs PROVE Kept2
    <2>1. /\ worker.pc = "refs" /\ worker.id \in Id /\ UNCHANGED <<http, queue, applied>>
          /\ Fits(worker.pc, operations[worker.id].state) /\ operations \in [Id -> Operation]
      BY <1>5 DEF SetRefs, ThreadInv, Held, AgentInv, Hands, historyVars, StoreInv, StoreTypeOK
    <2>2. PICK ok \in SaveOutcome : setSelfUpdateRefs(worker.id, ok)
                                    /\ goto(IF ok THEN "delegate" ELSE "fail")
      BY <1>5 DEF SetRefs
    <2>3. PICK pc \in {"delegate", "fail"} : goto(pc)
      BY <2>2
    <2>4. /\ \A id \in Id : operations'[id].state = operations[id].state
          /\ \A id \in Id : operations[id].selfUpdate => operations'[id].selfUpdate
          /\ disk' \in {disk, operations'}
      BY <2>1, <2>2 DEF setSelfUpdateRefs, save, Operation
    <2>5. Fits(pc, operations'[worker.id].state) /\ pc \notin AfterHelper
      BY <2>1, <2>3, <2>4 DEF Fits, InProgress, AfterHelper
    <2> QED
      BY <1>5, <2>1, <2>3, <2>4, <2>5, SlotGoesOn DEF ThreadInv, Real
  <1>6. ASSUME ThreadInv, HandOff PROVE Kept2
    <2>1. /\ worker.pc = "handoff" /\ Fits(worker.pc, operations[worker.id].state)
          /\ UNCHANGED <<disk, operations, http, queue, applied>>
      BY <1>6 DEF HandOff, ThreadInv, Held, storeVars, historyVars
    <2>2. PICK pc \in {"idle", "fail"} : goto(pc)
      BY <1>6 DEF HandOff
    <2>3. (pc = "idle" \/ Fits(pc, operations'[worker.id].state)) /\ pc \notin AfterHelper
      BY <2>1, <2>2 DEF Fits, InProgress, AfterHelper
    <2> QED
      BY <1>6, <2>1, <2>2, <2>3, SlotGoesOn DEF ThreadInv, Real
  <1>7. ASSUME ThreadInv, HelperRestartsAgent PROVE Kept2
    BY <1>7, EndKeepsThreads DEF HelperRestartsAgent
  <1> QED
    BY <1>1, <1>2, <1>3, <1>4, <1>5, <1>6, <1>7 DEF WorkerNext

\* ThreadInv is inductive.
LEMMA ThreadInvStep == ThreadInv /\ [AgentNext]_agentVars => ThreadInv'
  <1> SUFFICES ASSUME ThreadInv, [AgentNext]_agentVars PROVE ThreadInv'
    OBVIOUS
  <1>1. AgentInv'
    BY AgentInvStep DEF ThreadInv, Kept
  <1>2. CASE Quit \/ Crash
    <2>1. endProcess /\ applied \subseteq applied'
      BY <1>2 DEF Quit, Crash, historyVars
    <2> QED
      BY <1>1, <2>1, EndKeepsThreads DEF ThreadInv, Kept2
  <1>3. CASE Wait \/ UNCHANGED agentVars
    <2>1. UNCHANGED <<disk, operations, activeId, http, queue, worker, applied>>
      BY <1>3 DEF Wait, agentVars, storeVars, threadVars, historyVars
    <2>2. Held' /\ Real'
      BY <2>1 DEF ThreadInv, Held, Real, SuccessIsReal, hasActive, Present
    <2> QED
      BY <1>1, <2>2 DEF ThreadInv
  <1> QED
    BY <1>1, <1>2, <1>3, MainKeepsThreads, HttpKeepsThreads, WorkerKeepsThreads
       DEF AgentNext, MainNext, ThreadInv, Kept2

-----------------------------------------------------------------------------
(* The theorems.                                                           *)

\* The invariant of the two threads.
LEMMA ThreadInvariant == AgentSpec => []ThreadInv
  BY ThreadInvInit, ThreadInvStep, PTL DEF AgentSpec

\* What ThreadInv says of the properties that are checked.
LEMMA ThreadsShow ==
    ThreadInv => HandoverIsClean /\ EngineKeepsContract /\ SuccessIsReal
  <1>1. ThreadInv => HandoverIsClean
    <2> SUFFICES ASSUME ThreadInv PROVE HandoverIsClean
      OBVIOUS
    <2>1. queue = <<>> \/ Len(queue) = 1
      BY DEF ThreadInv, Held
    <2>2. Len(queue) <= 1 /\ \A i \in DOMAIN queue : i = 1 /\ queue # <<>>
      <3> DEFINE Event == [slot: {"run", "restart"}, id: Id]
      <3>1. queue \in Seq(Event)
        BY DEF ThreadInv, AgentInv, AgentTypeOK
      <3> HIDE DEF Event
      <3>2. CASE queue = <<>>
        BY <3>2
      <3>3. CASE Len(queue) = 1
        <4>1. queue # <<>>
          BY <3>3
        <4>2. DOMAIN queue = 1..Len(queue)
          BY <3>1
        <4> QED
          BY <3>3, <4>1, <4>2
      <3> QED
        BY <2>1, <3>2, <3>3
    <2> QED
      BY <2>2 DEF ThreadInv, Held, HandoverIsClean, Nested
  <1>2. ThreadInv => EngineKeepsContract
    <2> SUFFICES ASSUME ThreadInv, worker.pc \in MovePc
                 PROVE  canTransition(operations[worker.id].state, Moves(worker.pc).to)
      BY DEF EngineKeepsContract
    <2>1. Fits(worker.pc, operations[worker.id].state)
      BY DEF ThreadInv, Held, MovePc
    <2> QED
      BY <2>1, MoveTable
  <1> QED
    BY <1>1, <1>2 DEF ThreadInv, Real

\* What the HTTP thread found free is free when it creates, and an event reaches
\* only an idle worker and a queued operation: no slot runs inside another.
THEOREM HandoverStaysClean == AgentSpec => []HandoverIsClean
  BY ThreadsShow, ThreadInvariant, PTL

\* No slot ever asks the journal for a move the state contract refuses.
THEOREM ContractIsKept == AgentSpec => []EngineKeepsContract
  BY ThreadsShow, ThreadInvariant, PTL

\* A reported success of an ordinary operation had its helper call succeed.
THEOREM SuccessStaysReal == AgentSpec => []SuccessIsReal
  BY ThreadsShow, ThreadInvariant, PTL

-----------------------------------------------------------------------------
(* Nobody is orphaned. At the start no thread holds anything, so there     *)
(* must be nothing to hold: load() leaves only self-updates in progress,   *)
(* and reconcileSelfUpdates() none.                                        *)

\* What is still in progress while main() starts.
Cleared ==
    /\ phase = "loaded" => \A id \in Id : Live(operations[id]) => operations[id].selfUpdate
    /\ phase = "reconciled" => \A id \in Id : ~Live(operations[id])

OwnedInv == ThreadInv /\ Cleared /\ NobodyIsOrphan

\* In a process that serves, whoever holds an operation is enough to know that
\* none is orphaned: there is only the one.
LEMMA HolderIsEnough ==
    ASSUME AgentInv', NEW id \in Id, phase' = "serving",
           ~Live(operations'[id])
             \/ (http'.pc = "emit" /\ http'.id = id)
             \/ (\E i \in DOMAIN queue' : queue'[i].id = id)
             \/ (worker'.pc # "idle" /\ worker'.id = id)
             \/ applier'[id].pc # "none"
             \/ disk'[id].state # operations'[id].state,
           \A other \in Id \ {id} : Live(operations'[id]) \/ ~Live(operations'[other])
    PROVE  NobodyIsOrphan' /\ Cleared'
  <1>1. \A i, j \in Id : Live(operations'[i]) /\ Live(operations'[j]) => i = j
    BY DEF AgentInv, Hands, StoreInv, ActiveIsTheLiveOne
  <1>2. NobodyIsOrphan'
    BY <1>1 DEF NobodyIsOrphan
  <1> QED
    BY <1>2 DEF Cleared

LEMMA OwnedInit == AgentInit => OwnedInv
  BY ThreadInvInit DEF AgentInit, OwnedInv, Cleared, NobodyIsOrphan

\* main() settles everything before the threads begin.
LEMMA MainOwns ==
    ASSUME OwnedInv, ThreadInv', StartUp \/ ReconcileAtStart \/ StartApi
    PROVE  Cleared' /\ NobodyIsOrphan'
  <1>1. disk \in [Id -> Operation] /\ operations \in [Id -> Operation]
    BY DEF OwnedInv, ThreadInv, AgentInv, StoreInv, StoreTypeOK
  <1>2. CASE StartUp
    <2>1. phase' = "loaded" /\ operations' = [id \in Id |-> loadEntry(disk[id])]
      BY <1>2 DEF StartUp, Load, load
    <2>2. \A id \in Id : Live(operations'[id]) => operations'[id].selfUpdate
      BY <1>1, <2>1, LoadedEntry DEF loadEntry
    <2> QED
      BY <2>1, <2>2 DEF Cleared, NobodyIsOrphan
  <1>3. CASE ReconcileAtStart
    <2>1. PICK moved \in SaveOutcome, ok \in SaveOutcome : reconcileSelfUpdates(version, moved, ok)
      BY <1>3 DEF ReconcileAtStart
    <2>2. phase = "loaded" /\ phase' \in {"reconciled", "refused"}
      BY <1>3 DEF ReconcileAtStart
    <2>3. ASSUME NEW id \in Id PROVE ~Live(operations'[id])
      <3>1. operations'[id] = IF id \in pending THEN settled(operations[id], version) ELSE operations[id]
        BY <2>1 DEF reconcileSelfUpdates
      <3>2. CASE id \in pending
        BY <1>1, <3>1, <3>2, SettledIsFinal DEF pending, Live, InProgress, Final
      <3>3. CASE id \notin pending
        BY <2>2, <3>1, <3>3 DEF OwnedInv, Cleared, pending
      <3> QED
        BY <3>2, <3>3
    <2> QED
      BY <2>2, <2>3 DEF Cleared, NobodyIsOrphan
  <1>4. CASE StartApi
    BY <1>4 DEF StartApi, storeVars, OwnedInv, Cleared, NobodyIsOrphan
  <1> QED
    BY <1>2, <1>3, <1>4

\* The HTTP thread holds what it created until it is posted.
LEMMA HttpOwns ==
    ASSUME OwnedInv, ThreadInv', HttpNext
    PROVE  Cleared' /\ NobodyIsOrphan'
  <1>1. CASE HandleUpdate \/ HandleRestart
    <2>1. /\ http.pc = "idle" /\ phase = "serving"
          /\ UNCHANGED <<disk, operations, phase, queue, worker, applier>>
      BY <1>1 DEF HandleUpdate, HandleRestart, HandlePost, storeVars, successionVars
    <2> QED
      BY <2>1 DEF OwnedInv, Cleared, NobodyIsOrphan
  <1>2. CASE CreateOperation
    <2>1. phase = "serving" /\ phase' = "serving" /\ running /\ ~hasActive
      BY <1>2 DEF CreateOperation, OwnedInv, ThreadInv, AgentInv, Hands, Held
    <2>2. \A id \in Id : ~Live(operations[id])
      BY <2>1, LiveIsActive DEF OwnedInv, ThreadInv, Live
    <2>3. PICK id \in Id, ok \in SaveOutcome, from \in Version \cup {NoVersion}, self \in BOOLEAN :
             /\ create(id, http.project, from, http.to, self, ok)
             /\ http' = IF ok THEN [http EXCEPT !.pc = "emit", !.id = id] ELSE HttpIdle
      <3>1. version \in Version
        BY DEF OwnedInv, ThreadInv, AgentInv, AgentTypeOK
      <3> QED
        BY <1>2, <3>1 DEF CreateOperation
    <2>4. \A other \in Id \ {id} : operations'[other] = operations[other]
      BY <2>3 DEF create, OwnedInv, ThreadInv, AgentInv, StoreInv, StoreTypeOK
    <2>5. ~Live(operations'[id]) \/ (http'.pc = "emit" /\ http'.id = id)
      <3>1. CASE ok
        BY <2>3, <3>1 DEF OwnedInv, ThreadInv, AgentInv, AgentTypeOK
      <3>2. CASE ~ok
        BY <2>2, <2>3, <3>2 DEF create
      <3> QED
        BY <3>1, <3>2
    <2> QED
      BY <2>1, <2>2, <2>4, <2>5, HolderIsEnough DEF ThreadInv
  <1>3. CASE EmitQueued
    <2>1. /\ http.pc = "emit" /\ phase = "serving" /\ queue = <<>> /\ worker.pc = "idle"
          /\ http.id \in Id /\ operations[http.id].state = "queued"
          /\ UNCHANGED <<disk, operations, phase>>
      BY <1>3 DEF EmitQueued, OwnedInv, ThreadInv, AgentInv, Hands, Held, storeVars
    <2>2. queue' = <<[slot |-> http.slot, id |-> http.id]>>
      BY <1>3, <2>1 DEF EmitQueued
    <2>3. 1 \in DOMAIN queue' /\ queue'[1].id = http.id
      BY <2>2
    <2>4. Live(operations'[http.id])
      BY <2>1 DEF Live, InProgress
    <2> QED
      BY <2>1, <2>3, <2>4, HolderIsEnough DEF ThreadInv
  <1>4. CASE \E id \in Id : Get(id)
    <2>1. UNCHANGED <<disk, operations, phase, http, queue, worker, applier>>
      BY <1>4 DEF Get, storeVars, threadVars, successionVars
    <2> QED
      BY <2>1 DEF OwnedInv, Cleared, NobodyIsOrphan
  <1> QED
    BY <1>1, <1>2, <1>3, <1>4 DEF HttpNext

\* A slot ends with a verdict, with a write that failed, or with an applier.
LEMMA WorkerOwns ==
    ASSUME OwnedInv, ThreadInv', WorkerNext
    PROVE  Cleared' /\ NobodyIsOrphan'
  <1>1. CASE Deliver
    <2>1. /\ phase = "serving" /\ Head(queue).id \in Id /\ worker'.id = Head(queue).id
          /\ worker'.pc # "idle"
          /\ operations[Head(queue).id].state = "queued"
          /\ UNCHANGED <<disk, operations, phase>>
      <3> DEFINE Event == [slot: {"run", "restart"}, id: Id]
      <3>1. queue \in Seq(Event) /\ queue # <<>>
        BY <1>1 DEF Deliver, OwnedInv, ThreadInv, AgentInv, AgentTypeOK
      <3>2. Head(queue) \in Event
        <4> HIDE DEF Event
        <4> QED
          BY <3>1
      <3> QED
        BY <1>1, <3>2 DEF Deliver, firstStep, OwnedInv, ThreadInv, AgentInv, Hands, storeVars
    <2>2. Live(operations'[worker'.id])
      BY <2>1 DEF Live, InProgress
    <2> QED
      BY <2>1, <2>2, HolderIsEnough DEF ThreadInv
  <1>2. ASSUME worker.pc # "idle", worker'.pc # "idle", worker'.id = worker.id, phase' = phase
        PROVE  Cleared' /\ NobodyIsOrphan'
    <2>1. phase' = "serving" /\ worker.id \in Id
      BY <1>2 DEF OwnedInv, ThreadInv, AgentInv, Hands
    <2>2. Live(operations'[worker.id])
      BY <1>2, FitsIsLive DEF ThreadInv, Held, Live
    <2> QED
      BY <1>2, <2>1, <2>2, HolderIsEnough DEF ThreadInv
  <1>3. ASSUME worker.pc # "idle", NEW pc, pc # "idle", goto(pc), phase' = phase
        PROVE  Cleared' /\ NobodyIsOrphan'
    <2>1. worker \in [pc: WorkerPc, id: Id \cup {NoId}]
      BY DEF OwnedInv, ThreadInv, AgentInv, AgentTypeOK
    <2>2. worker'.pc = pc /\ worker'.id = worker.id
      BY <1>3, <2>1 DEF goto
    <2> QED
      BY <1>2, <1>3, <2>2
  <1>4. CASE MoveOn
    <2> DEFINE m == Moves(worker.pc)
    <2>1. /\ worker.pc \in MovePc /\ worker.pc # "idle" /\ worker.id \in Id
          /\ phase = "serving" /\ phase' = phase /\ running
          /\ operations \in [Id -> Operation] /\ disk \in [Id -> Operation]
          /\ Fits(worker.pc, operations[worker.id].state)
      BY <1>4 DEF MoveOn, MovePc, OwnedInv, ThreadInv, Held, AgentInv, Hands, StoreInv, StoreTypeOK
    <2>2. PICK ok \in SaveOutcome : transition(worker.id, m.to, m.detail, ok)
                                    /\ goto(IF ok THEN m.next ELSE m.refused)
      BY <1>4 DEF MoveOn
    <2>3. /\ m.to \in UpdateState /\ canTransition(operations[worker.id].state, m.to)
          /\ m.next = "idle" => m.to \in Final
      BY <2>1, MoveFacts, MoveTable, NoIdleBeforeTheEnd
    <2> HIDE DEF m
    <2>4. /\ operations'[worker.id].state = m.to /\ disk' = IF ok THEN operations' ELSE disk
          /\ \A other \in Id \ {worker.id} : operations'[other] = operations[other]
      BY <2>1, <2>2 DEF transition, save, Operation
    <2>5. \A other \in Id \ {worker.id} : ~Live(operations'[other])
      <3>1. operations[worker.id].state \in InProgress
        BY <2>1, FitsIsLive
      <3> QED
        BY <2>1, <2>4, <3>1, LiveIsActive DEF OwnedInv, ThreadInv, Live
    <2>6. CASE ok /\ m.next = "idle"
      <3>1. ~Live(operations'[worker.id])
        BY <2>3, <2>4, <2>6 DEF Live, InProgress, Final
      <3> QED
        BY <2>1, <2>5, <3>1, HolderIsEnough DEF ThreadInv
    <2>7. CASE ~ok
      <3>1. disk[worker.id].state # m.to
        <4>1. /\ disk[worker.id].state \in UpdateState \cup {"absent"}
              /\ operations[worker.id].state \in UpdateState
              /\ Advances(disk[worker.id].state, operations[worker.id].state)
          BY <2>1, FitsIsLive, EntryCases DEF OwnedInv, ThreadInv, AgentInv, StoreInv,
             JournalNotAhead, UpdateState
        <4>2. Stage(operations[worker.id].state) < Stage(m.to)
          BY <2>3, <4>1, TransitionClimbs
        <4> QED
          BY <2>3, <4>1, <4>2, StageRange, SMT DEF Advances
      <3> QED
        BY <2>1, <2>4, <2>5, <2>7, <3>1, HolderIsEnough DEF ThreadInv
    <2>8. CASE ok /\ m.next # "idle"
      BY <1>3, <2>1, <2>2, <2>8
    <2> QED
      BY <2>6, <2>7, <2>8
  <1>5. CASE DoWork
    <2>1. PICK end \in {"well", "badly"} : goto(Work[worker.pc][end])
      BY <1>5 DEF DoWork
    <2>2. worker.pc # "idle" /\ Work[worker.pc][end] # "idle" /\ phase' = phase
      BY <1>5 DEF DoWork, Work
    <2> QED
      BY <1>3, <2>1, <2>2
  <1>6. CASE HelperInstalls \/ HelperRestarts \/ HelperRefusesAgent
    <2>1. PICK pc \in {"restart", "health", "fail"} : goto(pc)
      BY <1>6 DEF HelperInstalls, HelperRestarts, HelperRefusesAgent
    <2>2. worker.pc # "idle" /\ phase' = phase
      BY <1>6 DEF HelperInstalls, HelperRestarts, HelperRefusesAgent
    <2> QED
      BY <1>3, <2>1, <2>2
  <1>7. CASE SetRefs
    <2>1. PICK pc \in {"delegate", "fail"} : goto(pc)
      BY <1>7 DEF SetRefs
    <2> QED
      BY <1>3, <1>7, <2>1 DEF SetRefs
  <1>8. CASE HandOff
    <2>1. CASE goto("fail")
      BY <1>3, <1>8, <2>1 DEF HandOff
    <2>2. CASE applier' = [applier EXCEPT ![worker.id].pc = "stop"]
      <3>1. /\ phase = "serving" /\ phase' = phase /\ worker.id \in Id
            /\ Live(operations'[worker.id]) 
        BY <1>8, FitsIsLive DEF HandOff, OwnedInv, ThreadInv, Held, AgentInv, Hands, storeVars, Live
      <3>2. applier'[worker.id].pc = "stop"
        BY <2>2, <3>1 DEF OwnedInv, ThreadInv, AgentInv, AgentTypeOK, ApplierState
      <3> QED
        BY <3>1, <3>2, HolderIsEnough DEF ThreadInv
    <2> QED
      BY <1>8, <2>1, <2>2 DEF HandOff
  <1>9. CASE HelperRestartsAgent
    BY <1>9 DEF HelperRestartsAgent, endProcess, Cleared, NobodyIsOrphan
  <1> QED
    BY <1>1, <1>4, <1>5, <1>6, <1>7, <1>8, <1>9 DEF WorkerNext

\* OwnedInv is inductive.
LEMMA OwnedStep == OwnedInv /\ [AgentNext]_agentVars => OwnedInv'
  <1> SUFFICES ASSUME OwnedInv, [AgentNext]_agentVars PROVE Cleared' /\ NobodyIsOrphan'
    BY ThreadInvStep DEF OwnedInv
  <1>1. ThreadInv'
    BY ThreadInvStep DEF OwnedInv
  <1>2. CASE Quit \/ Crash
    BY <1>2 DEF Quit, Crash, endProcess, Cleared, NobodyIsOrphan
  <1>3. CASE Wait \/ UNCHANGED agentVars
    BY <1>3 DEF Wait, agentVars, storeVars, threadVars, successionVars, OwnedInv, Cleared, NobodyIsOrphan
  <1> QED
    BY <1>1, <1>2, <1>3, MainOwns, HttpOwns, WorkerOwns DEF AgentNext, MainNext

\* While the agent serves, every operation in progress, which refuses all others
\* with a 409, is held by a thread or an applier, or its last write failed.
THEOREM NobodyStaysOrphan == AgentSpec => []NobodyIsOrphan
  <1>1. OwnedInv => NobodyIsOrphan
    BY DEF OwnedInv
  <1> QED
    BY <1>1, OwnedInit, OwnedStep, PTL DEF AgentSpec

-----------------------------------------------------------------------------
(* Verdicts, when every write succeeds. A client may be told what the file *)
(* does not have; what the file has stays (VerdictStep).                   *)

\* The file is the memory, and has every verdict a client was told.
Told ==
    /\ running => disk = operations
    /\ \A id \in Id : seen[id] # Unseen =>
           /\ isFinal(disk[id].state)
           /\ disk[id].state = seen[id].state /\ disk[id].detail = seen[id].detail

\* A journal whose writes succeed writes every change.
LEMMA EveryChangeIsWritten ==
    ASSUME SaveMayFail = FALSE, StoreInv, running => disk = operations, [StoreNext]_storeVars
    PROVE  running' => disk' = operations'
  <1>1. SaveOutcome = {TRUE}
    BY DEF SaveOutcome
  <1>2. CASE Load
    BY <1>2 DEF Load, load, save
  <1>3. CASE Exit
    BY <1>3 DEF Exit
  <1>4. CASE Create
    BY <1>1, <1>4 DEF Create, create, save
  <1>5. CASE Transition
    BY <1>1, <1>5 DEF Transition, transition, save
  <1>6. CASE SetSelfUpdateRefs
    BY <1>1, <1>6 DEF SetSelfUpdateRefs, setSelfUpdateRefs, save
  <1>7. CASE Reconcile
    <2>1. running /\ \E v \in Version : reconcileSelfUpdates(v, TRUE, TRUE)
      BY <1>1, <1>7 DEF Reconcile
    <2>2. CASE pending = {}
      BY <2>1, <2>2 DEF reconcileSelfUpdates, StoreInv, StoreTypeOK
    <2>3. CASE pending # {}
      BY <2>1, <2>3 DEF reconcileSelfUpdates
    <2> QED
      BY <2>2, <2>3
  <1>8. CASE UNCHANGED storeVars
    BY <1>8 DEF storeVars
  <1> QED
    BY <1>2, <1>3, <1>4, <1>5, <1>6, <1>7, <1>8 DEF StoreNext

LEMMA ToldStep ==
    ASSUME SaveMayFail = FALSE, AgentInv, Told, [AgentNext]_agentVars
    PROVE  Told'
  <1>1. [StoreNext]_storeVars
    BY AgentInvStep DEF Kept, StoreMoves
  <1>2. running' => disk' = operations'
    BY <1>1, EveryChangeIsWritten DEF Told, AgentInv
  <1>3. seen \in [Id -> [state: Final \cup {"none"}, detail: Detail]]
    BY DEF AgentInv, AgentTypeOK
  <1>4. ASSUME NEW id \in Id, seen'[id] # Unseen
        PROVE  /\ isFinal(disk'[id].state)
               /\ disk'[id].state = seen'[id].state /\ disk'[id].detail = seen'[id].detail
    <2>1. CASE seen'[id] = seen[id]
      <3>1. /\ isFinal(disk[id].state)
            /\ disk[id].state = seen[id].state /\ disk[id].detail = seen[id].detail
        BY <1>4, <2>1 DEF Told
      <3>2. disk'[id].state = disk[id].state /\ disk'[id].detail = disk[id].detail
        BY <1>1, <3>1, VerdictStep DEF AgentInv
      <3> QED
        BY <2>1, <3>1, <3>2
    <2>2. CASE seen'[id] # seen[id]
      <3>1. PICK j \in Id : Get(j)
        BY <2>2 DEF AgentNext, MainNext, StartUp, ReconcileAtStart, StartApi, Quit, Crash, HttpNext,
           HandleUpdate, HandleRestart, HandlePost, CreateOperation, EmitQueued, WorkerNext, Deliver,
           MoveOn, DoWork, HelperInstalls, HelperRestarts, HelperRestartsAgent, HelperRefusesAgent,
           SetRefs, HandOff, Wait, historyVars, agentVars
      <3>2. j = id
        BY <1>3, <2>2, <3>1 DEF Get
      <3>3. running /\ disk = operations /\ disk' = disk
        BY <3>1 DEF Get, AgentInv, Hands, Told, storeVars
      <3> QED
        BY <1>3, <3>1, <3>2, <3>3 DEF Get
    <2> QED
      BY <2>1, <2>2
  <1> QED
    BY <1>2, <1>4 DEF Told

\* When writes succeed, a final answer given to a client is the one every later
\* GET gives, through any crash. (A verdict whose write fails is told from
\* memory and gone with the process.)
THEOREM VerdictStays ==
    ASSUME SaveMayFail = FALSE
    PROVE  AgentSpec => []VerdictIsStable
  <1>1. AgentInit => Told
    BY DEF AgentInit, StoreInit, Told
  <1>2. AgentInv /\ Told /\ [AgentNext]_agentVars => Told'
    BY ToldStep
  <1>3. AgentInv /\ Told => VerdictIsStable
    BY DEF AgentInv, Hands, Told, VerdictIsStable
  <1> QED
    BY <1>1, <1>2, <1>3, AgentInvariant, PTL DEF AgentSpec

-----------------------------------------------------------------------------
(* Why a slot ends.                                                        *)

\* How many steps of a slot are at most ahead.
StepsAhead == [idle |-> 0, fail |-> 1, succeed |-> 1, reserve |-> 1, handoff |-> 2, probe |-> 2,
               delegate |-> 3, health |-> 3, refs |-> 4, restart |-> 4, helper_restart |-> 4,
               prepare |-> 5, helper_install |-> 5, relaunch |-> 5, stage_verify |-> 6,
               install |-> 6, stage |-> 7, checksum |-> 7, stage_download |-> 8, verify |-> 8,
               fetch |-> 9, download |-> 10]

\* The slot goes on with its operation and is nearer its end, or is over.
SlotIsNearer ==
    /\ StepsAhead[worker'.pc] < StepsAhead[worker.pc]
    /\ worker'.pc # "idle" => worker'.id = worker.id

\* The tables of the slots only lead ahead.
LEMMA MovesLeadOn ==
    ASSUME NEW pc \in MovePc, NEW next \in {Moves(pc).next, Moves(pc).refused}
    PROVE  StepsAhead[next] < StepsAhead[pc]
  <1>1. CASE pc \in DOMAIN runMoves
    BY <1>1 DEF Moves, runMoves, Move, StepsAhead
  <1>2. CASE pc \notin DOMAIN runMoves
    BY <1>2 DEF Moves, runMoves, restartMoves, selfMoves, Move, MovePc, StepsAhead
  <1> QED
    BY <1>1, <1>2

LEMMA WorkLeadsOn ==
    ASSUME NEW pc \in DOMAIN Work, NEW end \in {"well", "badly"}
    PROVE  StepsAhead[Work[pc][end]] < StepsAhead[pc]
  BY DEF Work, StepsAhead

\* The end of the process is the end of the slot.
LEMMA EndLeadsOn ==
    ASSUME AgentTypeOK, worker.pc # "idle", worker' = WorkerIdle
    PROVE  SlotIsNearer
  <1>1. worker.pc \in WorkerPc
    BY DEF AgentTypeOK
  <1> QED
    BY <1>1 DEF SlotIsNearer, StepsAhead, WorkerIdle, WorkerPc, MovePc, Work

LEMMA SlotStep ==
    ASSUME AgentTypeOK, [AgentNext]_agentVars, worker.pc # "idle"
    PROVE  worker' = worker \/ SlotIsNearer
  <1>1. worker \in [pc: WorkerPc, id: Id \cup {NoId}]
    BY DEF AgentTypeOK
  <1>2. ASSUME NEW pc, goto(pc), StepsAhead[pc] < StepsAhead[worker.pc]
        PROVE  SlotIsNearer
    BY <1>1, <1>2 DEF goto, SlotIsNearer, WorkerIdle
  <1>3. CASE MoveOn
    <2>1. PICK next \in {Moves(worker.pc).next, Moves(worker.pc).refused} : goto(next)
      BY <1>3 DEF MoveOn
    <2> QED
      BY <1>2, <1>3, <2>1, MovesLeadOn DEF MoveOn
  <1>4. CASE DoWork
    BY <1>2, <1>4, WorkLeadsOn DEF DoWork
  <1>5. CASE HelperInstalls \/ HelperRestarts \/ HelperRefusesAgent \/ SetRefs \/ HandOff
    <2>1. PICK pc \in {"idle", "fail", "health", "restart", "delegate"} :
             goto(pc) /\ StepsAhead[pc] < StepsAhead[worker.pc]
      BY <1>5 DEF HelperInstalls, HelperRestarts, HelperRefusesAgent, SetRefs, HandOff, StepsAhead
    <2> QED
      BY <1>2, <2>1
  <1>6. CASE HelperRestartsAgent \/ Quit \/ Crash
    BY <1>6, EndLeadsOn DEF HelperRestartsAgent, Quit, Crash, endProcess, threadsGone
  <1>7. CASE Deliver
    BY <1>7 DEF Deliver
  <1>8. CASE StartUp \/ ReconcileAtStart \/ StartApi \/ HttpNext \/ Wait \/ UNCHANGED agentVars
    BY <1>8 DEF StartUp, ReconcileAtStart, StartApi, HttpNext, HandleUpdate, HandleRestart,
       HandlePost, CreateOperation, EmitQueued, Get, Wait, agentVars, threadVars
  <1> QED
    BY <1>3, <1>4, <1>5, <1>6, <1>7, <1>8 DEF AgentNext, MainNext, WorkerNext

\* No slot takes a step twice, whatever writes fail and however its work ends: it
\* is over after ten steps at the most, with the operation it began with.
THEOREM SlotsOnlyGoOn ==
    AgentSpec => [][worker.pc # "idle" /\ worker' # worker => SlotIsNearer]_agentVars
  <1>1. AgentInv /\ [AgentNext]_agentVars =>
            [worker.pc # "idle" /\ worker' # worker => SlotIsNearer]_agentVars
    BY SlotStep DEF AgentInv
  <1> QED
    BY <1>1, AgentInvariant, PTL DEF AgentSpec
=============================================================================
