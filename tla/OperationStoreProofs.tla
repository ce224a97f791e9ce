------------------------ MODULE OperationStoreProofs ------------------------
(***************************************************************************)
(* What the journal keeps for every set of ids, projects and versions, any *)
(* order of calls, any failed write and any crash: the inductive invariant *)
(* StoreInv, and the refinement of DurableJournal.                         *)
(***************************************************************************)
EXTENDS OperationStore, TLAPS

-----------------------------------------------------------------------------
(* The state contract.                                                     *)

\* A legal move climbs: canTransition has no cycle, so no operation can be
\* moved for ever (src/UpdateOperation.cpp).
LEMMA TransitionClimbs ==
    ASSUME NEW from \in UpdateState, NEW to \in UpdateState, canTransition(from, to)
    PROVE  Stage(from) < Stage(to)
  BY SMT DEF canTransition, isFinal, Edge, UpdateState, InProgress, Final, Stage

\* Stages are numbers, and only an absent entry has stage 0.
LEMMA StageRange ==
    ASSUME NEW s \in UpdateState \cup {"absent"}
    PROVE  /\ Stage(s) \in 0..7
           /\ s \in UpdateState => Stage(s) > 0
  BY SMT DEF UpdateState, InProgress, Final, Stage

\* What may become of an entry in two goes may become of it in one.
LEMMA AdvancesTransitive ==
    ASSUME NEW a \in UpdateState \cup {"absent"}, NEW b \in UpdateState \cup {"absent"},
           NEW c \in UpdateState \cup {"absent"}, Advances(a, b), Advances(b, c)
    PROVE  Advances(a, c)
  BY StageRange, SMT DEF Advances

\* A legal move advances an entry.
LEMMA TransitionAdvances ==
    ASSUME NEW from \in UpdateState, NEW to \in UpdateState, canTransition(from, to)
    PROVE  Advances(from, to)
  BY TransitionClimbs, SMT DEF canTransition, Advances

\* The verdict of reconcileSelfUpdates() is final, and a legal advance from
\* every state an interrupted self-update can be in.
LEMMA SettledIsFinal ==
    ASSUME NEW op \in Operation, Live(op), NEW v
    PROVE  /\ settled(op, v) \in Operation
           /\ settled(op, v).state \in Final
           /\ Advances(op.state, settled(op, v).state)
           /\ settled(op, v).project = op.project
           /\ settled(op, v).from = op.from
           /\ settled(op, v).to = op.to
           /\ settled(op, v).selfUpdate = op.selfUpdate
  <1> DEFINE verdict == reconcileSelfUpdate(op.from, op.to, TRUE, v)
             state == IF canTransition(op.state, verdict) THEN verdict ELSE "failed"
  <1>1. verdict \in Final
    BY DEF reconcileSelfUpdate, Final
  <1>2. op.state \in InProgress
    BY DEF Live
  <1>3. state \in Final
    BY <1>1 DEF Final
  <1>4. canTransition(op.state, state)
    BY <1>2 DEF canTransition, isFinal, InProgress, Final
  <1>5. Advances(op.state, state)
    BY <1>2, <1>3, <1>4, TransitionAdvances DEF UpdateState
  <1>6. verdictDetail(verdict) \in Detail
    BY <1>1 DEF verdictDetail, Detail
  <1>7. settled(op, v) = [op EXCEPT !.state = state, !.detail = verdictDetail(verdict)]
    BY DEF settled
  <1> HIDE DEF state, verdict
  <1> QED
    BY <1>3, <1>5, <1>6, <1>7 DEF Operation, UpdateState

\* An entry load() reads is an entry of the same operation, further on or the
\* same; it is in progress only if it is a self-update.
LEMMA LoadedEntry ==
    ASSUME NEW op \in Operation
    PROVE  /\ loadEntry(op) \in Operation
           /\ Live(loadEntry(op)) <=> Live(op) /\ op.selfUpdate
           /\ Present(loadEntry(op)) <=> Present(op)
           /\ Advances(op.state, loadEntry(op).state)
           /\ isFinal(op.state) => loadEntry(op) = op
  <1>1. CASE Live(op) /\ ~op.selfUpdate
    <2>1. loadEntry(op) = [op EXCEPT !.state = "failed", !.detail = "interrupted"]
      BY <1>1 DEF loadEntry
    <2>2. loadEntry(op) \in Operation /\ loadEntry(op).state = "failed"
      BY <2>1 DEF Operation, UpdateState, Final, Detail
    <2>3. op.state \in InProgress
      BY <1>1 DEF Live
    <2>4. Advances(op.state, "failed")
      BY <2>3, TransitionAdvances DEF canTransition, isFinal, UpdateState, InProgress, Final
    <2> QED
      BY <1>1, <2>2, <2>3, <2>4 DEF Live, Present, isFinal, InProgress, Final
  <1>2. CASE ~(Live(op) /\ ~op.selfUpdate)
    BY <1>2 DEF loadEntry, Advances, Live
  <1> QED
    BY <1>1, <1>2

-----------------------------------------------------------------------------
(* The inductive invariant. Each conjunct needs the others: the file holds *)
(* one operation in progress because memory does and a write copies memory;*)
(* memory does after a load() because the file did.                        *)

StoreInv ==
    /\ StoreTypeOK
    /\ ActiveIsTheLiveOne
    /\ JournalHasOneLive
    /\ JournalNotAhead

\* What a step may do to the file: the step of the abstract journal, entry by
\* entry.
EntriesAdvance ==
    \A id \in Id : IF disk[id].state = "absent"
                   THEN disk'[id].state \in {"absent", "queued"}
                   ELSE Advances(disk[id].state, disk'[id].state)

LEMMA EntryCases ==
    ASSUME NEW op \in Operation
    PROVE  /\ op.state \in UpdateState \cup {"absent"}
           /\ Present(op) <=> op.state \in UpdateState
           /\ Live(op) => Present(op) /\ ~isFinal(op.state)
           /\ Present(op) => Live(op) \/ isFinal(op.state)
  BY SMT DEF Operation, Present, Live, isFinal, UpdateState, InProgress, Final

LEMMA AbsentEntry ==
    /\ Absent \in Operation
    /\ ~Live(Absent)
    /\ ~Present(Absent)
    /\ ~isFinal(Absent.state)
    /\ Empty \in [Id -> Operation]
  BY SMT DEF Absent, Operation, Live, Present, Empty, isFinal, UpdateState, InProgress, Final, Detail

LEMMA CreatedEntry ==
    ASSUME NEW p \in Project, NEW from \in Version \cup {NoVersion},
           NEW to \in Version \cup {NoVersion}, NEW self \in BOOLEAN
    PROVE  /\ created(p, from, to, self) \in Operation
           /\ created(p, from, to, self).state = "queued"
  BY SMT DEF created, Operation, UpdateState, InProgress, Detail

\* A journal with nothing in it satisfies the invariant.
LEMMA StoreInvInit == StoreInit => StoreInv
  BY AbsentEntry DEF StoreInit, StoreInv, StoreTypeOK, ActiveIsTheLiveOne,
                     JournalHasOneLive, JournalNotAhead, Empty

\* A write copies memory or leaves the file: what the file needs follows from
\* what memory keeps.
LEMMA SaveKeeps ==
    ASSUME StoreInv, running, running' = running,
           operations' \in [Id -> Operation], activeId' \in Id \cup {NoId},
           disk' \in {disk, operations'},
           \A id \in Id : Live(operations'[id]) <=> id = activeId',
           \A id \in Id : disk' = disk =>
                (Present(operations'[id]) <=> Present(operations[id])),
           \A id \in Id : IF Present(operations[id])
                          THEN Advances(operations[id].state, operations'[id].state)
                          ELSE operations'[id].state \in {"absent", "queued"},
           \A id \in Id : isFinal(operations[id].state) =>
                operations'[id].detail = operations[id].detail
    PROVE  StoreInv' /\ EntriesAdvance
  <1>1. StoreTypeOK'
    BY DEF StoreInv, StoreTypeOK
  <1>2. ActiveIsTheLiveOne'
    BY DEF ActiveIsTheLiveOne
  <1>3. JournalHasOneLive'
    <2>1. CASE disk' = disk
      BY <2>1 DEF StoreInv, JournalHasOneLive
    <2>2. CASE disk' = operations'
      BY <2>2 DEF JournalHasOneLive
    <2> QED
      BY <2>1, <2>2
  <1>4. JournalNotAhead'
    <2>1. CASE disk' = operations'
      BY <2>1 DEF JournalNotAhead, Advances
    <2>2. CASE disk' = disk
      <3> SUFFICES ASSUME NEW id \in Id
                   PROVE  /\ Present(disk[id]) <=> Present(operations'[id])
                          /\ Advances(disk[id].state, operations'[id].state)
                          /\ isFinal(disk[id].state) => operations'[id].detail = disk[id].detail
        BY <2>2 DEF JournalNotAhead
      <3>1. /\ disk[id] \in Operation
            /\ operations[id] \in Operation
            /\ operations'[id] \in Operation
        BY DEF StoreInv, StoreTypeOK
      <3>2. /\ Present(disk[id]) <=> Present(operations[id])
            /\ Advances(disk[id].state, operations[id].state)
            /\ isFinal(disk[id].state) => operations[id].detail = disk[id].detail
        BY DEF StoreInv, JournalNotAhead
      <3>3. Present(disk[id]) <=> Present(operations'[id])
        BY <2>2, <3>2
      <3>4. Advances(disk[id].state, operations'[id].state)
        <4>1. CASE Present(operations[id])
          BY <4>1, <3>1, <3>2, EntryCases, AdvancesTransitive
        <4>2. CASE ~Present(operations[id])
          BY <4>2, <3>2, <3>3 DEF Present, Advances
        <4> QED
          BY <4>1, <4>2
      <3>5. isFinal(disk[id].state) => operations'[id].detail = disk[id].detail
        BY <3>2 DEF Advances
      <3> QED
        BY <3>3, <3>4, <3>5
    <2> QED
      BY <2>1, <2>2
  <1>5. EntriesAdvance
    <2> SUFFICES ASSUME NEW id \in Id
                 PROVE  IF disk[id].state = "absent"
                        THEN disk'[id].state \in {"absent", "queued"}
                        ELSE Advances(disk[id].state, disk'[id].state)
      BY DEF EntriesAdvance
    <2>1. CASE disk' = disk
      BY <2>1 DEF Advances
    <2>2. CASE disk' = operations'
      <3>1. /\ disk[id] \in Operation
            /\ operations[id] \in Operation
            /\ operations'[id] \in Operation
        BY DEF StoreInv, StoreTypeOK
      <3>2. /\ Present(disk[id]) <=> Present(operations[id])
            /\ Advances(disk[id].state, operations[id].state)
        BY DEF StoreInv, JournalNotAhead
      <3>3. CASE Present(operations[id])
        BY <2>2, <3>1, <3>2, <3>3, EntryCases, AdvancesTransitive DEF Present
      <3>4. CASE ~Present(operations[id])
        BY <2>2, <3>2, <3>4 DEF Present
      <3> QED
        BY <3>3, <3>4
    <2> QED
      BY <2>1, <2>2
  <1> QED
    BY <1>1, <1>2, <1>3, <1>4, <1>5 DEF StoreInv

\* load(): the file had one operation in progress at most, so memory has.
LEMMA LoadKeeps == StoreInv /\ Load => StoreInv' /\ EntriesAdvance
  <1> SUFFICES ASSUME StoreInv, Load PROVE StoreInv' /\ EntriesAdvance
    OBVIOUS
  <1>1. /\ operations' = [id \in Id |-> loadEntry(disk[id])]
        /\ disk' = operations'
        /\ running'
    BY DEF Load, load, save
  <1>2. \A id \in Id : disk[id] \in Operation
    BY DEF StoreInv, StoreTypeOK
  <1> DEFINE kept == {id \in Id : Live(disk[id]) /\ disk[id].selfUpdate}
  <1>3. activeId' \in IF kept = {} THEN {NoId} ELSE kept
    BY DEF Load, load
  <1>4. \A i, j \in kept : i = j
    BY DEF StoreInv, JournalHasOneLive
  <1>5. activeId' \in Id \cup {NoId} /\ \A id \in Id : id \in kept <=> id = activeId'
    <2>1. CASE kept = {}
      BY <2>1, <1>3, StoreAssumption
    <2>2. CASE kept # {}
      <3>1. activeId' \in kept
        BY <2>2, <1>3
      <3> QED
        BY <3>1, <1>4
    <2> QED
      BY <2>1, <2>2
  <1>6. \A id \in Id : Live(operations'[id]) <=> id = activeId'
    <2> SUFFICES ASSUME NEW id \in Id PROVE Live(operations'[id]) <=> id = activeId'
      OBVIOUS
    <2>1. id \in kept <=> Live(disk[id]) /\ disk[id].selfUpdate
      OBVIOUS
    <2>2. Live(operations'[id]) <=> Live(disk[id]) /\ disk[id].selfUpdate
      <3>1. operations'[id] = loadEntry(disk[id]) /\ disk[id] \in Operation
        BY <1>1, <1>2
      <3> QED
        BY <3>1, LoadedEntry
    <2>3. id \in kept <=> id = activeId'
      BY <1>5
    <2> QED
      BY <2>1, <2>2, <2>3, Zenon
  <1>7. StoreTypeOK' /\ ActiveIsTheLiveOne'
    <2>1. operations' \in [Id -> Operation]
      <3>1. \A id \in Id : loadEntry(disk[id]) \in Operation
        BY <1>2, LoadedEntry
      <3> QED
        BY <1>1, <3>1
    <2>2. running' = TRUE
      BY DEF Load
    <2> QED
      BY <1>1, <1>5, <1>6, <2>1, <2>2 DEF StoreTypeOK, ActiveIsTheLiveOne
  <1>8. JournalHasOneLive' /\ JournalNotAhead'
    BY <1>1, <1>6 DEF JournalHasOneLive, JournalNotAhead, Advances
  <1>9. EntriesAdvance
    <2> SUFFICES ASSUME NEW id \in Id
                 PROVE  IF disk[id].state = "absent"
                        THEN disk'[id].state \in {"absent", "queued"}
                        ELSE Advances(disk[id].state, disk'[id].state)
      BY DEF EntriesAdvance
    <2>1. disk'[id] = loadEntry(disk[id]) /\ disk[id] \in Operation
      BY <1>1, <1>2
    <2> QED
      BY <2>1, LoadedEntry DEF Present
  <1> QED
    BY <1>7, <1>8, <1>9 DEF StoreInv

\* The end of a process: the file is as it was.
LEMMA ExitKeeps == StoreInv /\ Exit => StoreInv' /\ EntriesAdvance
  BY AbsentEntry DEF Exit, forget, StoreInv, StoreTypeOK, ActiveIsTheLiveOne,
                     JournalHasOneLive, JournalNotAhead, EntriesAdvance, Advances

\* create(): nothing was in progress, so the new operation is the only one.
LEMMA CreateKeeps == StoreInv /\ Create => StoreInv' /\ EntriesAdvance
  <1> SUFFICES ASSUME StoreInv, Create PROVE StoreInv' /\ EntriesAdvance
    OBVIOUS
  <1>1. PICK i \in Id, p \in Project, from \in Version \cup {NoVersion},
              to \in Version \cup {NoVersion}, self \in BOOLEAN, ok \in SaveOutcome :
              create(i, p, from, to, self, ok)
    BY DEF Create
  <1>2. running /\ running' = running
    BY DEF Create
  <1>3. operations \in [Id -> Operation] /\ activeId \in Id \cup {NoId}
    BY DEF StoreInv, StoreTypeOK
  <1>4. \A id \in Id : ~Live(operations[id])
    <2>1. activeId \notin Id
      <3> SUFFICES ASSUME activeId \in Id PROVE FALSE
        OBVIOUS
      <3>1. Live(operations[activeId])
        BY <1>2 DEF StoreInv, ActiveIsTheLiveOne
      <3>2. Present(operations[activeId])
        BY <1>3, <3>1, EntryCases
      <3> QED
        BY <1>1, <3>2, StoreAssumption DEF create, hasActive
    <2> QED
      BY <2>1, <1>2 DEF StoreInv, ActiveIsTheLiveOne
  <1>5. ~Present(operations[i]) /\ ~isFinal(operations[i].state)
    BY <1>1, <1>3 DEF create, Present, isFinal, Final
  <1>6. CASE ok
    <2>1. /\ operations' = [operations EXCEPT ![i] = created(p, from, to, self)]
          /\ activeId' = i
          /\ disk' = operations'
      BY <1>1, <1>6 DEF create, save
    <2>2. /\ created(p, from, to, self) \in Operation
          /\ Live(created(p, from, to, self))
      BY CreatedEntry DEF Live, InProgress
    <2>3. \A id \in Id : operations'[id] = IF id = i THEN created(p, from, to, self)
                                            ELSE operations[id]
      BY <2>1, <1>3
    <2>4. StoreTypeOK' /\ ActiveIsTheLiveOne'
      <3>1. \A id \in Id : Live(operations'[id]) <=> id = activeId'
        BY <1>4, <2>1, <2>2, <2>3
      <3>2. operations' \in [Id -> Operation]
        BY <2>1, <2>2, <1>3
      <3> QED
        BY <3>1, <3>2, <2>1, <1>2 DEF StoreInv, StoreTypeOK, ActiveIsTheLiveOne
    <2>5. JournalHasOneLive' /\ JournalNotAhead'
      BY <2>1, <2>4, <1>2 DEF JournalHasOneLive, JournalNotAhead, ActiveIsTheLiveOne, Advances
    <2>6. EntriesAdvance
      <3> SUFFICES ASSUME NEW id \in Id
                   PROVE  IF disk[id].state = "absent"
                          THEN disk'[id].state \in {"absent", "queued"}
                          ELSE Advances(disk[id].state, disk'[id].state)
        BY DEF EntriesAdvance
      <3>1. /\ Present(disk[id]) <=> Present(operations[id])
            /\ Advances(disk[id].state, operations[id].state)
        BY <1>2 DEF StoreInv, JournalNotAhead
      <3> QED
        BY <3>1, <1>5, <2>1, <2>3, CreatedEntry DEF Present
    <2> QED
      BY <2>4, <2>5, <2>6 DEF StoreInv
  <1>7. CASE ~ok
    <2>1. operations' = operations /\ activeId' = NoId /\ disk' = disk
      BY <1>1, <1>7 DEF create, save
    <2> QED
      BY <2>1, <1>2, <1>3, <1>4, StoreAssumption
         DEF StoreInv, StoreTypeOK, ActiveIsTheLiveOne, JournalHasOneLive, JournalNotAhead,
             EntriesAdvance, Advances
  <1> QED
    BY <1>6, <1>7

\* transition(): the operation that moves is the active one, and gives up that
\* place exactly when it becomes final.
LEMMA TransitionKeeps == StoreInv /\ Transition => StoreInv' /\ EntriesAdvance
  <1> SUFFICES ASSUME StoreInv, Transition PROVE StoreInv' /\ EntriesAdvance
    OBVIOUS
  <1>1. PICK i \in Id, state \in UpdateState, detail \in CallerDetail, ok \in SaveOutcome :
              transition(i, state, detail, ok)
    BY DEF Transition
  <1>2. running /\ running' = running
    BY DEF Transition
  <1>3. operations \in [Id -> Operation] /\ activeId \in Id \cup {NoId}
    BY DEF StoreInv, StoreTypeOK
  <1> DEFINE new == [operations[i] EXCEPT !.state = state, !.detail = detail]
  <1>4. \A id \in Id : operations'[id] = IF id = i THEN new ELSE operations[id]
    BY <1>1, <1>3 DEF transition
  <1>5. new \in Operation /\ new.state = state /\ new.detail = detail
    BY <1>3, StoreAssumption DEF Operation
  <1>6. operations' \in [Id -> Operation]
    BY <1>1, <1>3, <1>4, <1>5 DEF transition
  <1>7. canTransition(operations[i].state, state) /\ Present(operations[i])
    BY <1>1 DEF transition
  <1>8. operations[i].state \in UpdateState /\ ~isFinal(operations[i].state)
    BY <1>3, <1>7, EntryCases DEF canTransition
  <1>9. i = activeId
    BY <1>2, <1>3, <1>7, <1>8, EntryCases DEF StoreInv, ActiveIsTheLiveOne
  <1>10. activeId' = IF isFinal(state) THEN NoId ELSE activeId
    BY <1>1 DEF transition
  <1>11. Live(new) <=> ~isFinal(state)
    BY <1>5 DEF Live, isFinal, UpdateState, InProgress, Final
  <1>12. \A id \in Id : Live(operations'[id]) <=> id = activeId'
    BY <1>2, <1>4, <1>9, <1>10, <1>11, StoreAssumption DEF StoreInv, ActiveIsTheLiveOne
  <1>13. Advances(operations[i].state, state)
    BY <1>7, <1>8, TransitionAdvances
  <1>14. disk' \in {disk, operations'}
    BY <1>1 DEF transition, save
  <1>15. Present(new)
    BY <1>5, EntryCases
  <1>16. \A id \in Id :
            /\ Present(operations'[id]) <=> Present(operations[id])
            /\ Advances(operations[id].state, operations'[id].state)
            /\ isFinal(operations[id].state) => operations'[id].detail = operations[id].detail
    BY <1>4, <1>5, <1>7, <1>8, <1>13, <1>15 DEF Advances
  <1>17. activeId' \in Id \cup {NoId}
    BY <1>3, <1>10
  <1> QED
    BY <1>2, <1>6, <1>12, <1>14, <1>16, <1>17, SaveKeeps DEF Present

\* setSelfUpdateRefs(): no state, no detail and no active id changes.
LEMMA RefsKeep == StoreInv /\ SetSelfUpdateRefs => StoreInv' /\ EntriesAdvance
  <1> SUFFICES ASSUME StoreInv, SetSelfUpdateRefs PROVE StoreInv' /\ EntriesAdvance
    OBVIOUS
  <1>1. PICK i \in Id, ok \in SaveOutcome : setSelfUpdateRefs(i, ok)
    BY DEF SetSelfUpdateRefs
  <1>2. running /\ running' = running
    BY DEF SetSelfUpdateRefs
  <1>3. operations \in [Id -> Operation] /\ activeId \in Id \cup {NoId}
    BY DEF StoreInv, StoreTypeOK
  <1> DEFINE new == [operations[i] EXCEPT !.selfUpdate = TRUE, !.refs = TRUE]
  <1>4. \A id \in Id : operations'[id] = IF id = i THEN new ELSE operations[id]
    BY <1>1, <1>3 DEF setSelfUpdateRefs
  <1>5. new \in Operation /\ new.state = operations[i].state /\ new.detail = operations[i].detail
    BY <1>3 DEF Operation
  <1>6. operations' \in [Id -> Operation]
    BY <1>1, <1>3, <1>4, <1>5 DEF setSelfUpdateRefs
  <1>7. \A id \in Id : /\ operations'[id].state = operations[id].state
                        /\ operations'[id].detail = operations[id].detail
    BY <1>4, <1>5
  <1>8. activeId' = activeId /\ disk' \in {disk, operations'}
    BY <1>1 DEF setSelfUpdateRefs, save
  <1>9. \A id \in Id : Live(operations'[id]) <=> id = activeId'
    BY <1>2, <1>7, <1>8 DEF StoreInv, ActiveIsTheLiveOne, Live
  <1>10. \A id \in Id :
            /\ Present(operations'[id]) <=> Present(operations[id])
            /\ Advances(operations[id].state, operations'[id].state)
    BY <1>7 DEF Present, Advances
  <1> QED
    BY <1>2, <1>3, <1>6, <1>7, <1>8, <1>9, <1>10, SaveKeeps DEF Present

\* reconcileSelfUpdates(): the only operation it can find is the active one,
\* and it leaves that one final.
LEMMA ReconcileKeeps == StoreInv /\ Reconcile => StoreInv' /\ EntriesAdvance
  <1> SUFFICES ASSUME StoreInv, Reconcile PROVE StoreInv' /\ EntriesAdvance
    OBVIOUS
  <1>1. PICK v \in Version, moved \in SaveOutcome, ok \in SaveOutcome :
              reconcileSelfUpdates(v, moved, ok)
    BY DEF Reconcile
  <1>2. running /\ running' = running
    BY DEF Reconcile
  <1>3. operations \in [Id -> Operation] /\ activeId \in Id \cup {NoId}
    BY DEF StoreInv, StoreTypeOK
  <1>4. \A id \in Id : operations'[id] = IF id \in pending THEN settled(operations[id], v)
                                          ELSE operations[id]
    BY <1>1 DEF reconcileSelfUpdates
  <1>5. \A id \in pending : id \in Id /\ Live(operations[id]) /\ id = activeId
    BY <1>2 DEF pending, StoreInv, ActiveIsTheLiveOne
  <1>6. \A id \in pending : /\ settled(operations[id], v) \in Operation
                            /\ settled(operations[id], v).state \in Final
                            /\ Advances(operations[id].state, settled(operations[id], v).state)
    BY <1>3, <1>5, SettledIsFinal
  <1>7. operations' = [id \in Id |-> IF id \in pending THEN settled(operations[id], v)
                                     ELSE operations[id]]
    BY <1>1 DEF reconcileSelfUpdates
  <1>8. operations' \in [Id -> Operation]
    BY <1>3, <1>6, <1>7
  <1>9. activeId' = IF pending = {} THEN activeId ELSE NoId
    BY <1>1 DEF reconcileSelfUpdates
  <1>10. disk' \in {disk, operations'}
    BY <1>1 DEF reconcileSelfUpdates
  <1>11. \A id \in Id : Live(operations'[id]) <=> id = activeId'
    <2> SUFFICES ASSUME NEW id \in Id PROVE Live(operations'[id]) <=> id = activeId'
      OBVIOUS
    <2>1. CASE pending = {}
      BY <2>1, <1>2, <1>4, <1>9 DEF StoreInv, ActiveIsTheLiveOne
    <2>2. CASE pending # {}
      <3>1. activeId' = NoId /\ NoId \notin Id /\ activeId \in pending
        BY <2>2, <1>5, <1>9, StoreAssumption
      <3>2. CASE id \in pending
        BY <3>1, <3>2, <1>4, <1>6 DEF Live, InProgress, Final
      <3>3. CASE id \notin pending
        <4>1. id # activeId
          BY <3>1, <3>3
        <4>2. ~Live(operations[id])
          BY <4>1, <1>2 DEF StoreInv, ActiveIsTheLiveOne
        <4> QED
          BY <3>1, <3>3, <4>2, <1>4
      <3> QED
        BY <3>2, <3>3
    <2> QED
      BY <2>1, <2>2
  <1>12. \A id \in Id :
            /\ Present(operations'[id]) <=> Present(operations[id])
            /\ Advances(operations[id].state, operations'[id].state)
            /\ isFinal(operations[id].state) => operations'[id].detail = operations[id].detail
    <2> SUFFICES ASSUME NEW id \in Id
                 PROVE  /\ Present(operations'[id]) <=> Present(operations[id])
                        /\ Advances(operations[id].state, operations'[id].state)
                        /\ isFinal(operations[id].state) =>
                              operations'[id].detail = operations[id].detail
      OBVIOUS
    <2>1. CASE id \in pending
      <3>1. Present(operations[id]) /\ ~isFinal(operations[id].state)
        BY <2>1, <1>3, <1>5, EntryCases
      <3>2. operations'[id].state \in Final /\ Advances(operations[id].state, operations'[id].state)
        BY <2>1, <1>4, <1>6
      <3> QED
        BY <3>1, <3>2 DEF Present, Final
    <2>2. CASE id \notin pending
      BY <2>2, <1>4 DEF Advances
    <2> QED
      BY <2>1, <2>2
  <1>13. activeId' \in Id \cup {NoId}
    BY <1>3, <1>9
  <1> QED
    BY <1>2, <1>8, <1>10, <1>11, <1>12, <1>13, SaveKeeps DEF Present

-----------------------------------------------------------------------------
(* The theorems.                                                           *)

LEMMA StoreInvStep == StoreInv /\ [StoreNext]_storeVars => StoreInv' /\ EntriesAdvance
  <1> SUFFICES ASSUME StoreInv, [StoreNext]_storeVars PROVE StoreInv' /\ EntriesAdvance
    OBVIOUS
  <1>1. CASE Load
    BY <1>1, LoadKeeps
  <1>2. CASE Exit
    BY <1>2, ExitKeeps
  <1>3. CASE Create
    BY <1>3, CreateKeeps
  <1>4. CASE Transition
    BY <1>4, TransitionKeeps
  <1>5. CASE SetSelfUpdateRefs
    BY <1>5, RefsKeep
  <1>6. CASE Reconcile
    BY <1>6, ReconcileKeeps
  <1>7. CASE UNCHANGED storeVars
    BY <1>7 DEF storeVars, StoreInv, StoreTypeOK, ActiveIsTheLiveOne,
                JournalHasOneLive, JournalNotAhead, EntriesAdvance, Advances
  <1> QED
    BY <1>1, <1>2, <1>3, <1>4, <1>5, <1>6, <1>7 DEF StoreNext

\* A verdict in memory, with its words, is there until the process ends.
LEMMA MemoryVerdictStep ==
    ASSUME StoreInv, [StoreNext]_storeVars, running, running',
           NEW id \in Id, isFinal(operations[id].state)
    PROVE  /\ operations'[id].state = operations[id].state
           /\ operations'[id].detail = operations[id].detail
           /\ disk' \in {disk, operations'}
  <1>1. operations \in [Id -> Operation] /\ Present(operations[id]) /\ ~Live(operations[id])
    BY EntryCases DEF StoreInv, StoreTypeOK, Present, isFinal, Final, Live, InProgress
  <1>2. CASE Create
    BY <1>1, <1>2 DEF Create, create, save
  <1>3. CASE Transition
    <2>1. PICK j \in Id, state \in UpdateState, detail \in CallerDetail, ok \in SaveOutcome :
             transition(j, state, detail, ok)
      BY <1>3 DEF Transition
    <2>2. j # id
      BY <2>1 DEF transition, canTransition
    <2> QED
      BY <1>1, <2>1, <2>2 DEF transition, save
  <1>4. CASE SetSelfUpdateRefs
    <2>1. PICK j \in Id, ok \in SaveOutcome : setSelfUpdateRefs(j, ok)
      BY <1>4 DEF SetSelfUpdateRefs
    <2> QED
      BY <1>1, <2>1 DEF setSelfUpdateRefs, save, Operation
  <1>5. CASE Reconcile
    BY <1>1, <1>5 DEF Reconcile, reconcileSelfUpdates, pending
  <1>6. CASE UNCHANGED storeVars
    BY <1>6 DEF storeVars
  <1> QED
    BY <1>2, <1>3, <1>4, <1>5, <1>6 DEF StoreNext, Load, Exit

\* A verdict in the file, with its words, is there for good: no later call, no
\* write and no restart changes it.
LEMMA VerdictStep ==
    ASSUME StoreInv, [StoreNext]_storeVars, NEW id \in Id, isFinal(disk[id].state)
    PROVE  disk'[id].state = disk[id].state /\ disk'[id].detail = disk[id].detail
  <1>1. disk \in [Id -> Operation]
    BY DEF StoreInv, StoreTypeOK
  <1>2. CASE Load
    BY <1>1, <1>2, LoadedEntry DEF Load, load, save
  <1>3. CASE Exit \/ UNCHANGED storeVars
    BY <1>3 DEF Exit, forget, storeVars
  <1>4. CASE running /\ running'
    <2>1. operations[id].state = disk[id].state /\ operations[id].detail = disk[id].detail
      BY <1>4 DEF StoreInv, JournalNotAhead, Advances
    <2> QED
      BY <1>4, <2>1, MemoryVerdictStep
  <1> QED
    BY <1>2, <1>3, <1>4 DEF StoreNext, Create, Transition, SetSelfUpdateRefs, Reconcile

\* The invariant of the journal holds in every reachable state.
THEOREM StoreInvariant == StoreSpec => []StoreInv
  BY StoreInvInit, StoreInvStep, PTL DEF StoreSpec

\* Type correctness of the file, the memory and the active id.
THEOREM StoreTypeCorrect == StoreSpec => []StoreTypeOK
  <1>1. StoreInv => StoreTypeOK
    BY DEF StoreInv
  <1> QED
    BY <1>1, StoreInvariant, PTL

\* What active() answers is the truth about every entry of the memory: the
\* 409 of LocalApiServer::handle can neither be missed nor be spurious.
THEOREM ActiveIsTruth == StoreSpec => []ActiveIsTheLiveOne
  <1>1. StoreInv => ActiveIsTheLiveOne
    BY DEF StoreInv
  <1> QED
    BY <1>1, StoreInvariant, PTL

\* However writes fail and whenever the process dies, the file never holds two
\* operations in progress.
THEOREM OneLiveOnDisk == StoreSpec => []JournalHasOneLive
  <1>1. StoreInv => JournalHasOneLive
    BY DEF StoreInv
  <1> QED
    BY <1>1, StoreInvariant, PTL

\* The file may lag behind the memory of the process, never lead it.
THEOREM DiskNotAhead == StoreSpec => []JournalNotAhead
  <1>1. StoreInv => JournalNotAhead
    BY DEF StoreInv
  <1> QED
    BY <1>1, StoreInvariant, PTL

\* A verdict that was written is never rewritten, neither its state nor its
\* words, through any call, failed write, crash or restart.
THEOREM VerdictsStay ==
    StoreSpec => [][\A id \in Id : isFinal(disk[id].state) =>
                       /\ disk'[id].state = disk[id].state
                       /\ disk'[id].detail = disk[id].detail]_storeVars
  <1>1. StoreInv /\ [StoreNext]_storeVars =>
            [\A id \in Id : isFinal(disk[id].state) =>
                /\ disk'[id].state = disk[id].state
                /\ disk'[id].detail = disk[id].detail]_storeVars
    BY VerdictStep
  <1> QED
    BY <1>1, StoreInvariant, PTL DEF StoreSpec

\* The journal implements the abstract one: whatever the callers do, a reader of
\* operations.json sees entries that appear as queued, only advance, and never
\* two of them in progress.
THEOREM StoreImplementsJournal == StoreSpec => JournalSpec
  <1> DEFINE log == [id \in Id |-> disk[id].state]
  <1>1. StoreInit => Journal!Init
    BY DEF StoreInit, Journal!Init, Empty, Absent
  <1>2. StoreInv /\ [StoreNext]_storeVars => [Journal!Next]_log
    <2> SUFFICES ASSUME StoreInv, [StoreNext]_storeVars PROVE Journal!Next
      OBVIOUS
    <2>1. StoreInv' /\ EntriesAdvance
      BY StoreInvStep
    <2>2. log' \in [Id -> UpdateState \cup {"absent"}]
      BY <2>1, EntryCases DEF StoreInv, StoreTypeOK
    <2>3. \A id \in Id : IF log[id] = "absent" THEN log'[id] \in {"absent", "queued"}
                         ELSE Advances(log[id], log'[id])
      BY <2>1 DEF EntriesAdvance
    <2>4. \A i, j \in Id : Journal!Live(log'[i]) /\ Journal!Live(log'[j]) => i = j
      <3> SUFFICES ASSUME NEW i \in Id, NEW j \in Id,
                          Journal!Live(log'[i]), Journal!Live(log'[j])
                   PROVE  i = j
        OBVIOUS
      <3>1. Live(disk'[i]) /\ Live(disk'[j])
        BY DEF Live, Journal!Live, InProgress, Journal!InProgress
      <3> QED
        BY <3>1, <2>1 DEF StoreInv, JournalHasOneLive
    <2>5. Journal!UpdateState = UpdateState
      BY DEF Journal!UpdateState, Journal!InProgress, Journal!Final,
             UpdateState, InProgress, Final
    <2>6. \A id \in Id : Advances(log[id], log'[id]) => Journal!Advances(log[id], log'[id])
      BY <2>5 DEF Journal!Advances, Journal!isFinal, Journal!Final, Journal!Stage,
                  Advances, isFinal, Final, Stage
    <2>7. \A id \in Id : IF log[id] = "absent" THEN log'[id] \in {"absent", "queued"}
                         ELSE Journal!Advances(log[id], log'[id])
      BY <2>3, <2>6
    <2>8. log' \in [Id -> Journal!UpdateState \cup {"absent"}]
      BY <2>2, <2>5
    <2> SUFFICES \E new \in [Id -> Journal!UpdateState \cup {"absent"}] :
                    /\ \A id \in Id : IF log[id] = "absent"
                                      THEN new[id] \in {"absent", "queued"}
                                      ELSE Journal!Advances(log[id], new[id])
                    /\ \A i, j \in Id : Journal!Live(new[i]) /\ Journal!Live(new[j]) => i = j
                    /\ log' = new
      BY DEF Journal!Next, Journal!Write
    <2> WITNESS log' \in [Id -> Journal!UpdateState \cup {"absent"}]
    <2> QED
      BY <2>4, <2>7, Zenon
  <1> QED
    BY <1>1, <1>2, StoreInvariant, PTL DEF StoreSpec, JournalSpec, Journal!Spec
=============================================================================
