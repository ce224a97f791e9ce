------------------------- MODULE UpdateAgentProofs -------------------------
(***************************************************************************)
(* Proofs about UpdateAgent: its types, that the agent is a behaviour of   *)
(* the journal (so that every theorem of OperationStoreProofs holds of     *)
(* it), and that an operation answered with 202 is never lost.             *)
(***************************************************************************)
EXTENDS UpdateAgent, OperationStoreProofs

-----------------------------------------------------------------------------
(* The tables of the engine.                                               *)

\* Every row of the tables names a state, a detail and two steps of the slots.
LEMMA MoveFacts ==
    ASSUME NEW pc \in MovePc
    PROVE  /\ Moves(pc).to \in UpdateState
           /\ Moves(pc).detail \in EngineDetail
           /\ Moves(pc).next \in WorkerPc
           /\ Moves(pc).refused \in WorkerPc
  <1> USE DEF Moves, Move, UpdateState, InProgress, Final, EngineDetail, WorkerPc, MovePc, Work
  <1>1. CASE pc \in {"download", "verify", "install", "restart", "health", "succeed",
                     "reserve", "fail"}
    BY <1>1 DEF runMoves
  <1>2. CASE pc = "relaunch"
    BY <1>2 DEF runMoves, restartMoves
  <1>3. CASE pc \in {"stage_download", "stage_verify", "prepare", "delegate"}
    BY <1>3 DEF runMoves, restartMoves, selfMoves
  <1> QED
    BY <1>1, <1>2, <1>3

LEMMA WorkFacts ==
    ASSUME NEW pc \in DOMAIN Work, NEW end \in {"well", "badly"}
    PROVE  Work[pc][end] \in WorkerPc
  BY DEF Work, WorkerPc, MovePc

-----------------------------------------------------------------------------
(* The inductive invariant.                                                *)

\* Whose hands hold what: a thread is busy only in a process that serves, and
\* on a project or an operation that exists.
Hands ==
    /\ running <=> phase # "down"
    /\ http.pc # "idle" => phase = "serving" /\ http.project \in Project
    /\ http.pc = "emit" => http.id \in Id /\ Present(disk[http.id])
    /\ queue # <<>> => phase = "serving"
    /\ worker.pc # "idle" => phase = "serving" /\ worker.id \in Id

\* A 202 stands in the file.
Promised == \A id \in accepted : Present(disk[id])

AgentInv ==
    /\ StoreInv
    /\ AgentTypeOK
    /\ Hands
    /\ Promised

\* What a step of the agent does to the journal, and what it leaves to the rest.
StoreMoves == [StoreNext]_storeVars

\* Entries of the file stay.
LEMMA EntriesStay ==
    ASSUME StoreInv, StoreMoves
    PROVE  /\ StoreInv'
           /\ \A id \in Id : Present(disk[id]) => Present(disk'[id])
  <1>1. StoreInv' /\ EntriesAdvance
    BY StoreInvStep DEF StoreMoves
  <1>2. ASSUME NEW id \in Id, Present(disk[id]) PROVE Present(disk'[id])
    <2>1. disk[id] \in Operation
      BY DEF StoreInv, StoreTypeOK
    <2>2. Advances(disk[id].state, disk'[id].state)
      BY <1>1, <1>2 DEF EntriesAdvance, Present
    <2>3. disk[id].state \in UpdateState
      BY <2>1, <1>2, EntryCases
    <2>4. disk'[id].state \in UpdateState
      BY <2>2, <2>3 DEF Advances
    <2> QED
      BY <2>4 DEF Present, UpdateState, InProgress, Final
  <1> QED
    BY <1>1, <1>2

LEMMA AgentInvInit == AgentInit => AgentInv
  <1> SUFFICES ASSUME AgentInit PROVE AgentInv
    OBVIOUS
  <1> USE AgentAssumption DEF AgentInit
  <1>1. StoreInv
    BY StoreInvInit
  <1>2. AgentTypeOK
    <2>1. StoreTypeOK
      BY <1>1 DEF StoreInv
    <2>2. seen \in [Id -> [state: Final \cup {"none"}, detail: Detail]]
      BY DEF Unseen, Detail
    <2>3. http \in [pc: {"idle", "create", "emit"}, slot: {"run", "restart"},
                    project: Project \cup {NoProject}, to: Version \cup {NoVersion},
                    id: Id \cup {NoId}]
      BY DEF HttpIdle
    <2>5. applier \in [Id -> ApplierState]
      BY DEF NoApplier, ApplierState, ApplierPc
    <2>4. worker \in [pc: WorkerPc, id: Id \cup {NoId}]
      BY DEF WorkerIdle, WorkerPc
    <2> QED
      BY <2>1, <2>2, <2>3, <2>4, <2>5 DEF AgentTypeOK
  <1>3. Hands
    BY DEF Hands, StoreInit, HttpIdle, WorkerIdle
  <1>4. Promised
    BY DEF Promised
  <1> QED
    BY <1>1, <1>2, <1>3, <1>4 DEF AgentInv

-----------------------------------------------------------------------------
(* One lemma per action, or per group of actions that move the same things. *)

Kept == StoreMoves /\ AgentInv'

\* Where goto() leads.
LEMMA GotoType ==
    ASSUME worker \in [pc: WorkerPc, id: Id \cup {NoId}], NEW pc \in WorkerPc, goto(pc)
    PROVE  /\ worker' \in [pc: WorkerPc, id: Id \cup {NoId}]
           /\ worker'.pc # "idle" => worker'.id = worker.id
  BY DEF goto, WorkerIdle, WorkerPc

\* What is left to show once the journal has made one of its steps.
LEMMA KeptIf ==
    ASSUME AgentInv, StoreMoves,
           StoreTypeOK' => AgentTypeOK',
           (\A id \in Id : Present(disk[id]) => Present(disk'[id])) => Hands' /\ Promised'
    PROVE  Kept
  <1>1. StoreInv' /\ \A id \in Id : Present(disk[id]) => Present(disk'[id])
    BY EntriesStay DEF AgentInv
  <1> QED
    BY <1>1 DEF Kept, AgentInv, StoreInv

\* systemd starts the process; main() loads, settles, opens the API.
LEMMA MainKeeps == AgentInv /\ (StartUp \/ ReconcileAtStart \/ StartApi) => Kept
  <1> USE DEF AgentInv, Hands, Promised, AgentTypeOK, threadVars, historyVars, successionVars,
              storeVars
  <1>1. ASSUME AgentInv, StartUp PROVE Kept
    <2>1. StoreMoves
      BY <1>1 DEF StoreMoves, StoreNext, StartUp
    <2> QED
      BY <1>1, <2>1, KeptIf DEF StartUp, Load
  <1>2. ASSUME AgentInv, ReconcileAtStart PROVE Kept
    <2>1. StoreMoves
      <3>1. running /\ UNCHANGED running /\ version \in Version
        BY <1>2 DEF ReconcileAtStart
      <3>2. \E v \in Version, moved, ok \in SaveOutcome : reconcileSelfUpdates(v, moved, ok)
        BY <1>2, <3>1 DEF ReconcileAtStart
      <3>3. Reconcile
        BY <3>1, <3>2 DEF Reconcile
      <3> QED
        BY <3>3 DEF StoreMoves, StoreNext
    <2>2. phase = "loaded" /\ phase' \in {"reconciled", "refused"}
      BY <1>2 DEF ReconcileAtStart
    <2> QED
      BY <1>2, <2>1, <2>2, KeptIf DEF ReconcileAtStart
  <1>3. ASSUME AgentInv, StartApi PROVE Kept
    <2>1. StoreMoves
      BY <1>3 DEF StoreMoves, StartApi
    <2> QED
      BY <1>3, <2>1, KeptIf DEF StartApi
  <1> QED
    BY <1>1, <1>2, <1>3

\* The process ends, and its threads with it.
LEMMA EndKeeps ==
    ASSUME AgentInv, endProcess, seen' = seen, accepted' = accepted,
           unit' \in {"wanted", "stopped"}, version' \in Version,
           applier' \in [Id -> ApplierState], applied' \subseteq Id, crashes' \in 0..MaxCrashes
    PROVE  Kept
  <1>1. StoreMoves
    BY DEF endProcess, StoreMoves, StoreNext
  <1>2. /\ phase' = "down" /\ http' = HttpIdle /\ queue' = <<>> /\ worker' = WorkerIdle
        /\ running' = FALSE
    BY DEF endProcess, threadsGone, Exit
  <1>3. StoreTypeOK' => AgentTypeOK'
    <2>1. /\ HttpIdle \in [pc: {"idle", "create", "emit"}, slot: {"run", "restart"},
                           project: Project \cup {NoProject}, to: Version \cup {NoVersion},
                           id: Id \cup {NoId}]
          /\ WorkerIdle \in [pc: WorkerPc, id: Id \cup {NoId}]
      BY DEF HttpIdle, WorkerIdle, WorkerPc
    <2> QED
      BY <1>2, <2>1 DEF AgentInv, AgentTypeOK
  <1> QED
    BY <1>1, <1>2, <1>3, KeptIf DEF AgentInv, AgentTypeOK, Hands, Promised, HttpIdle, WorkerIdle

LEMMA EndingsKeep == AgentInv /\ (Quit \/ Crash \/ HelperRestartsAgent) => Kept
  <1>1. ASSUME AgentInv, Quit PROVE Kept
    BY <1>1, EndKeeps DEF Quit, AgentInv, AgentTypeOK, historyVars, successionVars
  <1>2. ASSUME AgentInv, Crash PROVE Kept
    <2>1. crashes' \in 0..MaxCrashes
      BY <1>2, AgentAssumption DEF Crash, AgentInv, AgentTypeOK
    <2> QED
      BY <1>2, <2>1, EndKeeps DEF Crash, AgentInv, AgentTypeOK, successionVars
  <1>3. ASSUME AgentInv, HelperRestartsAgent PROVE Kept
    <2>1. applied' \subseteq Id
      BY <1>3 DEF HelperRestartsAgent, AgentInv, AgentTypeOK, Hands
    <2> QED
      BY <1>3, <2>1, EndKeeps DEF HelperRestartsAgent, AgentInv, AgentTypeOK, successionVars
  <1> QED
    BY <1>1, <1>2, <1>3

\* The HTTP thread: the check of a POST, the creation, the 202, a GET.
LEMMA HttpKeeps == AgentInv /\ HttpNext => Kept
  <1>1. ASSUME AgentInv, HandleUpdate \/ HandleRestart PROVE Kept
    <2>1. PICK slot \in {"run", "restart"}, project \in Project, to \in Version \cup {NoVersion} :
             HandlePost(slot, project, to)
      BY <1>1 DEF HandleUpdate, HandleRestart
    <2>2. StoreMoves
      BY <2>1 DEF HandlePost, StoreMoves
    <2> QED
      BY <1>1, <2>1, <2>2, KeptIf
         DEF HandlePost, AgentInv, AgentTypeOK, Hands, Promised, storeVars, historyVars,
             successionVars
  <1>2. ASSUME AgentInv, CreateOperation PROVE Kept
    <2>1. phase = "serving" /\ running /\ running' = running /\ http.project \in Project
      BY <1>2 DEF CreateOperation, AgentInv, Hands
    <2>2. PICK id \in Id, ok \in SaveOutcome, from \in Version \cup {NoVersion}, self \in BOOLEAN :
             /\ create(id, http.project, from, http.to, self, ok)
             /\ http' = IF ok THEN [http EXCEPT !.pc = "emit", !.id = id] ELSE HttpIdle
      BY <1>2 DEF CreateOperation, AgentInv, AgentTypeOK
    <2>3. http.to \in Version \cup {NoVersion}
      BY <1>2 DEF AgentInv, AgentTypeOK
    <2>4. StoreMoves
      <3>1. Create
        BY <2>1, <2>2, <2>3 DEF Create
      <3> QED
        BY <3>1 DEF StoreMoves, StoreNext
    <2>5. ok => Present(disk'[id])
      BY <1>2, <2>2 DEF create, save, created, Present, AgentInv, AgentTypeOK, StoreTypeOK
    <2>6. http' \in [pc: {"idle", "create", "emit"}, slot: {"run", "restart"},
                     project: Project \cup {NoProject}, to: Version \cup {NoVersion},
                     id: Id \cup {NoId}]
      BY <1>2, <2>2 DEF HttpIdle, AgentInv, AgentTypeOK
    <2>7. /\ http'.pc # "idle" => ok /\ http'.project = http.project
          /\ http'.pc = "emit" => http'.id = id
      BY <1>2, <2>2 DEF HttpIdle, AgentInv, AgentTypeOK
    <2>8. UNCHANGED <<phase, queue, worker, historyVars, successionVars>>
      BY <1>2 DEF CreateOperation
    <2> QED
      BY <1>2, <2>1, <2>4, <2>5, <2>6, <2>7, <2>8, KeptIf
         DEF AgentInv, AgentTypeOK, Hands, Promised, historyVars, successionVars
  <1>3. ASSUME AgentInv, EmitQueued PROVE Kept
    <2>1. StoreMoves
      BY <1>3 DEF EmitQueued, StoreMoves
    <2>2. /\ phase = "serving" /\ http.id \in Id /\ Present(disk[http.id])
          /\ http.slot \in {"run", "restart"}
      BY <1>3 DEF EmitQueued, AgentInv, AgentTypeOK, Hands
    <2>3. queue' \in Seq([slot: {"run", "restart"}, id: Id])
      BY <1>3, <2>2 DEF EmitQueued, AgentInv, AgentTypeOK
    <2>4. HttpIdle \in [pc: {"idle", "create", "emit"}, slot: {"run", "restart"},
                        project: Project \cup {NoProject}, to: Version \cup {NoVersion},
                        id: Id \cup {NoId}]
      BY DEF HttpIdle
    <2>5. HttpIdle.pc = "idle"
      BY DEF HttpIdle
    <2> QED
      BY <1>3, <2>1, <2>2, <2>3, <2>4, <2>5, KeptIf
         DEF EmitQueued, AgentInv, AgentTypeOK, Hands, Promised, storeVars, successionVars
  <1>4. ASSUME AgentInv, NEW id \in Id, Get(id) PROVE Kept
    <2>1. StoreMoves
      BY <1>4 DEF Get, StoreMoves
    <2>2. operations[id].state \in Final /\ operations[id].detail \in Detail
      BY <1>4 DEF Get, isFinal, AgentInv, AgentTypeOK, StoreTypeOK, Operation
    <2>3. seen' \in [Id -> [state: Final \cup {"none"}, detail: Detail]]
      BY <1>4, <2>2 DEF Get, AgentInv, AgentTypeOK
    <2> QED
      BY <1>4, <2>1, <2>3, KeptIf
         DEF Get, AgentInv, AgentTypeOK, Hands, Promised, storeVars, threadVars, successionVars
  <1> QED
    BY <1>1, <1>2, <1>3, <1>4 DEF HttpNext

\* The worker moves its program counter and leaves the journal alone.
LEMMA WorkerKeeps ==
    ASSUME AgentInv, StoreMoves, worker.pc # "idle", NEW pc \in WorkerPc, goto(pc),
           UNCHANGED <<phase, http, queue, accepted, seen, crashes, unit, version>>,
           running' = running, applied' \subseteq Id, applier' \in [Id -> ApplierState]
    PROVE  Kept
  <1>1. worker' \in [pc: WorkerPc, id: Id \cup {NoId}]
        /\ (worker'.pc # "idle" => worker'.id = worker.id)
    BY GotoType DEF AgentInv, AgentTypeOK
  <1> QED
    BY <1>1, KeptIf DEF AgentInv, AgentTypeOK, Hands, Promised

\* The slots of the engine.
LEMMA SlotKeeps == AgentInv /\ WorkerNext => Kept
  <1>1. ASSUME AgentInv, Deliver PROVE Kept
    <2>1. StoreMoves
      BY <1>1 DEF Deliver, StoreMoves
    <2>2. /\ phase = "serving" /\ Head(queue).id \in Id
          /\ queue' \in Seq([slot: {"run", "restart"}, id: Id])
      <3> DEFINE Event == [slot: {"run", "restart"}, id: Id]
      <3>1. queue \in Seq(Event) /\ queue # <<>> /\ queue' = Tail(queue)
        BY <1>1 DEF Deliver, AgentInv, AgentTypeOK
      <3>2. Head(queue) \in Event /\ Tail(queue) \in Seq(Event)
        <4> HIDE DEF Event
        <4> QED
          BY <3>1
      <3> QED
        BY <1>1, <3>1, <3>2 DEF AgentInv, Hands
    <2>3. firstStep(Head(queue)) \in WorkerPc
      BY DEF firstStep, WorkerPc, MovePc
    <2>4. worker' \in [pc: WorkerPc, id: Id \cup {NoId}] /\ worker'.id \in Id
      BY <1>1, <2>2, <2>3 DEF Deliver
    <2> QED
      BY <1>1, <2>1, <2>2, <2>4, KeptIf
         DEF Deliver, AgentInv, AgentTypeOK, Hands, Promised, storeVars, historyVars,
             successionVars
  <1>2. ASSUME AgentInv, MoveOn PROVE Kept
    <2> DEFINE m == Moves(worker.pc)
    <2>1. /\ worker.pc # "idle" /\ running /\ running' = running /\ worker.id \in Id
          /\ UNCHANGED <<phase, http, queue, accepted, seen, applied, crashes, unit, version, applier>>
      BY <1>2 DEF MoveOn, MovePc, AgentInv, Hands, historyVars, successionVars
    <2>2. m.to \in UpdateState /\ m.detail \in CallerDetail /\ m.next \in WorkerPc
          /\ m.refused \in WorkerPc
      BY <1>2, MoveFacts, AgentAssumption DEF MoveOn
    <2>3. PICK ok \in SaveOutcome : transition(worker.id, m.to, m.detail, ok)
                                    /\ goto(IF ok THEN m.next ELSE m.refused)
      BY <1>2 DEF MoveOn
    <2> HIDE DEF m
    <2>4. Transition
      BY <2>1, <2>2, <2>3 DEF Transition
    <2>5. StoreMoves
      BY <2>4 DEF StoreMoves, StoreNext
    <2>6. PICK pc \in WorkerPc : goto(pc)
      BY <2>2, <2>3
    <2> QED
      BY <1>2, <2>1, <2>5, <2>6, WorkerKeeps DEF AgentInv, AgentTypeOK
  <1>3. ASSUME AgentInv, DoWork PROVE Kept
    <2>1. StoreMoves
      BY <1>3 DEF DoWork, StoreMoves
    <2>2. worker.pc # "idle"
      BY <1>3 DEF DoWork, Work
    <2>3. PICK pc \in WorkerPc : goto(pc)
      BY <1>3, WorkFacts DEF DoWork
    <2> QED
      BY <1>3, <2>1, <2>2, <2>3, WorkerKeeps
         DEF DoWork, AgentInv, AgentTypeOK, storeVars, historyVars, successionVars
  <1>4. ASSUME AgentInv, HelperInstalls \/ HelperRestarts \/ HelperRefusesAgent PROVE Kept
    <2>1. StoreMoves
      BY <1>4 DEF HelperInstalls, HelperRestarts, HelperRefusesAgent, StoreMoves
    <2>2. worker.pc # "idle" /\ worker.id \in Id
      BY <1>4 DEF HelperInstalls, HelperRestarts, HelperRefusesAgent, AgentInv, Hands
    <2>3. {"restart", "health", "fail"} \subseteq WorkerPc
      BY DEF WorkerPc, MovePc
    <2>4. PICK pc \in WorkerPc : goto(pc)
      BY <1>4, <2>3 DEF HelperInstalls, HelperRestarts, HelperRefusesAgent
    <2>5. applied' \subseteq Id
      BY <1>4, <2>2 DEF HelperInstalls, HelperRestarts, HelperRefusesAgent, AgentInv, AgentTypeOK,
                        historyVars
    <2> QED
      BY <1>4, <2>1, <2>2, <2>4, <2>5, WorkerKeeps
         DEF HelperInstalls, HelperRestarts, HelperRefusesAgent, storeVars, historyVars,
             successionVars, AgentInv, AgentTypeOK
  <1>5. ASSUME AgentInv, SetRefs PROVE Kept
    <2>1. /\ worker.pc # "idle" /\ running /\ running' = running /\ worker.id \in Id
      BY <1>5 DEF SetRefs, AgentInv, Hands
    <2>2. StoreMoves
      <3>1. SetSelfUpdateRefs
        BY <1>5, <2>1 DEF SetRefs, SetSelfUpdateRefs
      <3> QED
        BY <3>1 DEF StoreMoves, StoreNext
    <2>3. {"delegate", "fail"} \subseteq WorkerPc
      BY DEF WorkerPc, MovePc
    <2>4. PICK pc \in WorkerPc : goto(pc)
      BY <1>5, <2>3 DEF SetRefs
    <2> QED
      BY <1>5, <2>1, <2>2, <2>4, WorkerKeeps
         DEF SetRefs, AgentInv, AgentTypeOK, historyVars, successionVars
  <1>6. ASSUME AgentInv, HandOff PROVE Kept
    <2>1. StoreMoves
      BY <1>6 DEF HandOff, StoreMoves
    <2>2. worker.pc # "idle"
      BY <1>6 DEF HandOff
    <2>3. {"idle", "fail"} \subseteq WorkerPc
      BY DEF WorkerPc, MovePc
    <2>4. PICK pc \in WorkerPc : goto(pc)
      BY <1>6, <2>3 DEF HandOff
    <2>5. applier' \in [Id -> ApplierState]
      <3>1. applier \in [Id -> ApplierState] /\ worker.id \in Id
        BY <2>2, <1>6 DEF AgentInv, AgentTypeOK, Hands
      <3>2. [applier[worker.id] EXCEPT !.pc = "stop"] \in ApplierState
        BY <3>1 DEF ApplierState, ApplierPc
      <3> QED
        BY <1>6, <3>1, <3>2 DEF HandOff
    <2> QED
      BY <1>6, <2>1, <2>2, <2>4, <2>5, WorkerKeeps
         DEF HandOff, AgentInv, AgentTypeOK, storeVars, historyVars
  <1> QED
    BY <1>1, <1>2, <1>3, <1>4, <1>5, <1>6, EndingsKeep DEF WorkerNext

LEMMA AgentInvStep == AgentInv /\ [AgentNext]_agentVars => Kept
  <1>1. ASSUME AgentInv, UNCHANGED agentVars PROVE Kept
    <2>1. StoreMoves
      BY <1>1 DEF StoreMoves, agentVars
    <2> QED
      BY <1>1, <2>1, KeptIf DEF AgentInv, AgentTypeOK, Hands, Promised, agentVars, storeVars,
                                threadVars, historyVars, successionVars
  <1> QED
    BY <1>1, MainKeeps, EndingsKeep, HttpKeeps, SlotKeeps DEF AgentNext, MainNext, Wait

-----------------------------------------------------------------------------
(* The theorems.                                                           *)

LEMMA AgentInvariant == AgentSpec => []AgentInv
  <1>1. AgentInv /\ [AgentNext]_agentVars => AgentInv'
    BY AgentInvStep DEF Kept
  <1> QED
    BY <1>1, AgentInvInit, PTL DEF AgentSpec

\* Type correctness of the agent: what the two threads hold is always an
\* operation, a project, a step that exists.
THEOREM AgentTypeCorrect == AgentSpec => []AgentTypeOK
  <1>1. AgentInv => AgentTypeOK
    BY DEF AgentInv
  <1> QED
    BY <1>1, AgentInvariant, PTL

\* The threads call the journal with arguments of its types and only while it is
\* loaded.
LEMMA AgentCallsStore == AgentSpec => StoreSpec
  <1>1. AgentInit => StoreInit
    BY DEF AgentInit
  <1>2. AgentInv /\ [AgentNext]_agentVars => [StoreNext]_storeVars
    BY AgentInvStep DEF Kept, StoreMoves
  <1> QED
    BY <1>1, <1>2, AgentInvariant, PTL DEF AgentSpec, StoreSpec

\* Under main(), two threads and crashes, what clients may read from the file is
\* only ever replaced as a whole: no entry goes back, disappears or leaves a final
\* state, and never are two in progress.
THEOREM AgentKeepsJournal == AgentSpec => JournalSpec /\ []JournalHasOneLive
  BY AgentCallsStore, StoreImplementsJournal, OneLiveOnDisk

\* What AgentInv says of the operations answered with 202.
LEMMA PromisedShows == AgentInv => AcceptedIsDurable
  <1> SUFFICES ASSUME AgentInv, NEW id \in accepted
               PROVE  Present(disk[id]) /\ (phase = "serving" => Present(operations[id]))
    BY DEF AcceptedIsDurable
  <1>1. Present(disk[id]) /\ id \in Id
    BY DEF AgentInv, Promised, AgentTypeOK
  <1>2. phase = "serving" => running
    BY DEF AgentInv, Hands
  <1> QED
    BY <1>1, <1>2 DEF AgentInv, StoreInv, JournalNotAhead

\* A 202 is a promise: through any crash and any failed write the operation
\* stays in the file, and an agent that serves finds it.
THEOREM AcceptedStays == AgentSpec => []AcceptedIsDurable
  BY PromisedShows, AgentInvariant, PTL
=============================================================================
