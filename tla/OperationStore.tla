--------------------------- MODULE OperationStore ---------------------------
(***************************************************************************)
(* The durable operation journal (src/OperationStore.cpp): operations kept *)
(* in memory, the id of the active one, and operations.json, replaced as a *)
(* whole by QSaveFile on every change.                                     *)
(*                                                                         *)
(* Every public call holds the journal's recursive mutex from its first    *)
(* to its last line, so a call is one step. The outcome of the write is a  *)
(* parameter, ok: QSaveFile either replaces the file or leaves it as it    *)
(* was. The order in which a caller uses the journal is left free here;    *)
(* UpdateAgent adds the HTTP thread and the worker that call it.           *)
(***************************************************************************)
EXTENDS OperationState

CONSTANTS
    Id,           \* operation ids (uuids)
    NoId,         \* m_activeId.isEmpty()
    Project,      \* project identifiers
    NoProject,    \* the project of no entry
    Version,      \* version strings
    NoVersion,    \* the empty version string
    CallerDetail, \* the details the callers of transition() pass
    SaveMayFail   \* whether a write of operations.json can fail

\* What a detail text tells its reader, as far as a property cares.
Detail == {"none", "progress", "diagnosis", "passed", "reservation",
           "interrupted", "runs_target", "restored_previous", "unexpected_version"}

ASSUME StoreAssumption ==
    /\ NoId \notin Id
    /\ NoProject \notin Project
    /\ NoVersion \notin Version
    /\ CallerDetail \subseteq Detail
    /\ SaveMayFail \in BOOLEAN

VARIABLES
    disk,         \* operations.json
    operations,   \* m_operations
    activeId,     \* m_activeId
    running       \* a process holds the journal loaded

storeVars == <<disk, operations, activeId, running>>

\* UpdateOperation without the platform and the timestamps. refs stands for
\* rollbackRef and stagedRef, which are set together.
Operation == [state: UpdateState \cup {"absent"}, detail: Detail,
              project: Project \cup {NoProject},
              from: Version \cup {NoVersion}, to: Version \cup {NoVersion},
              selfUpdate: BOOLEAN, refs: BOOLEAN]

Absent == [state |-> "absent", detail |-> "none", project |-> NoProject,
           from |-> NoVersion, to |-> NoVersion, selfUpdate |-> FALSE, refs |-> FALSE]

Present(op) == op.state # "absent"
Live(op) == op.state \in InProgress
Empty == [id \in Id |-> Absent]

SaveOutcome == IF SaveMayFail THEN BOOLEAN ELSE {TRUE}

-----------------------------------------------------------------------------
\* Mutant: the file is written before the change instead of after it.
saveBefore(ok) == disk' = IF ok THEN operations ELSE disk

\* save(): the whole memory replaces the file, or the file stays.
save(ok) == disk' = IF ok THEN operations' ELSE disk

\* active(): an operation is in progress.
hasActive == activeId # NoId /\ Present(operations[activeId])

\* Mutant: every interrupted operation is kept as it is, self-update or not.
loadEntryKept(op) == op

\* What load() makes of one entry: an interrupted operation has failed, unless
\* it is a self-update, whose process was meant to disappear.
loadEntry(op) ==
    IF Live(op) /\ ~op.selfUpdate
    THEN [op EXCEPT !.state = "failed", !.detail = "interrupted"]
    ELSE op

\* Mutant: load() does not take the kept self-update as the active operation.
loadWithoutActive ==
    /\ operations' = [id \in Id |-> loadEntry(disk[id])]
    /\ activeId' = NoId
    /\ save(TRUE)

\* load(). The kept self-update, if any, stays the active operation. When the
\* file cannot be read or written back, main() returns 4 and nothing changes.
load ==
    /\ operations' = [id \in Id |-> loadEntry(disk[id])]
    /\ LET kept == {id \in Id : Live(disk[id]) /\ disk[id].selfUpdate}
       IN  activeId' \in IF kept = {} THEN {NoId} ELSE kept
    /\ save(TRUE)

\* The process is gone and its memory with it; the file stays.
forget ==
    /\ operations' = Empty
    /\ activeId' = NoId
    /\ UNCHANGED disk

\* Mutant: project and version are passed in each other's place.
createdSwapped(project, from, to, self) ==
    [state |-> "queued", detail |-> "none", project |-> to,
     from |-> from, to |-> project, selfUpdate |-> self, refs |-> FALSE]

\* The entry a successful create() adds.
created(project, from, to, self) ==
    [state |-> "queued", detail |-> "none", project |-> project,
     from |-> from, to |-> to, selfUpdate |-> self, refs |-> FALSE]

\* Mutant: create() relies on the caller's check of active().
createUnchecked(id, project, from, to, self, ok) ==
    /\ ~Present(operations[id])
    /\ IF ok
       THEN /\ operations' = [operations EXCEPT ![id] = created(project, from, to, self)]
            /\ activeId' = id
       ELSE /\ activeId' = NoId
            /\ UNCHANGED operations
    /\ save(ok)

\* Mutant: a failed write forgets the id but leaves the entry in memory.
createKeepsEntry(id, project, from, to, self, ok) ==
    /\ ~hasActive
    /\ ~Present(operations[id])
    /\ operations' = [operations EXCEPT ![id] = created(project, from, to, self)]
    /\ activeId' = IF ok THEN id ELSE NoId
    /\ save(ok)

\* create(). A fresh uuid; an entry whose write fails is taken back out.
create(id, project, from, to, self, ok) ==
    /\ ~hasActive
    /\ ~Present(operations[id])
    /\ IF ok
       THEN /\ operations' = [operations EXCEPT ![id] = created(project, from, to, self)]
            /\ activeId' = id
       ELSE /\ activeId' = NoId
            /\ UNCHANGED operations
    /\ save(ok)

\* transition(). Memory moves whether or not the write succeeds; the caller
\* learns of a failed write from the result.
transition(id, state, detail, ok) ==
    /\ Present(operations[id])
    /\ canTransition(operations[id].state, state)
    /\ operations' = [operations EXCEPT ![id].state = state, ![id].detail = detail]
    /\ activeId' = IF isFinal(state) THEN NoId ELSE activeId
    /\ save(ok)

\* setSelfUpdateRefs()
setSelfUpdateRefs(id, ok) ==
    /\ Present(operations[id])
    /\ operations' = [operations EXCEPT ![id].selfUpdate = TRUE, ![id].refs = TRUE]
    /\ UNCHANGED activeId
    /\ save(ok)

\* The self-updates reconcileSelfUpdates() settles; never more than one, since
\* the file never holds two operations in progress (JournalHasOneLive).
pending == {id \in Id : Live(operations[id]) /\ operations[id].selfUpdate}

verdictDetail(verdict) ==
    CASE verdict = "succeeded"   -> "runs_target"
      [] verdict = "rolled_back" -> "restored_previous"
      [] OTHER                   -> "unexpected_version"

\* The verdict, or "failed" with the same words when the state of the
\* operation does not allow the verdict.
settled(op, runningVersion) ==
    LET verdict == reconcileSelfUpdate(op.from, op.to, TRUE, runningVersion)
    IN  [op EXCEPT !.state = IF canTransition(op.state, verdict) THEN verdict ELSE "failed",
                   !.detail = verdictDetail(verdict)]

\* reconcileSelfUpdates(). moved: the write inside transition(); ok: the write
\* at the end, the only one whose failure the caller sees (it returns -1).
reconcileSelfUpdates(runningVersion, moved, ok) ==
    /\ operations' = [id \in Id |-> IF id \in pending THEN settled(operations[id], runningVersion)
                                    ELSE operations[id]]
    /\ activeId' = IF pending = {} THEN activeId ELSE NoId
    /\ disk' = IF pending # {} /\ (moved \/ ok) THEN operations' ELSE disk

-----------------------------------------------------------------------------
\* The journal by itself: any caller, in any order.
StoreInit ==
    /\ disk = Empty
    /\ operations = Empty
    /\ activeId = NoId
    /\ running = FALSE

Load ==
    /\ ~running
    /\ load
    /\ running' = TRUE

\* The process ends: killed, stopped, or main() returned an error.
Exit ==
    /\ running
    /\ forget
    /\ running' = FALSE

Create ==
    /\ running
    /\ \E id \in Id, project \in Project, from \in Version \cup {NoVersion},
          to \in Version \cup {NoVersion}, self \in BOOLEAN, ok \in SaveOutcome :
          create(id, project, from, to, self, ok)
    /\ UNCHANGED running

Transition ==
    /\ running
    /\ \E id \in Id, state \in UpdateState, detail \in CallerDetail, ok \in SaveOutcome :
          transition(id, state, detail, ok)
    /\ UNCHANGED running

SetSelfUpdateRefs ==
    /\ running
    /\ \E id \in Id, ok \in SaveOutcome : setSelfUpdateRefs(id, ok)
    /\ UNCHANGED running

Reconcile ==
    /\ running
    /\ \E v \in Version, moved, ok \in SaveOutcome : reconcileSelfUpdates(v, moved, ok)
    /\ UNCHANGED running

StoreNext == \/ Load \/ Exit \/ Create
             \/ Transition \/ SetSelfUpdateRefs \/ Reconcile

StoreSpec == StoreInit /\ [][StoreNext]_storeVars

-----------------------------------------------------------------------------
StoreTypeOK ==
    /\ disk \in [Id -> Operation]
    /\ operations \in [Id -> Operation]
    /\ activeId \in Id \cup {NoId}
    /\ running \in BOOLEAN

\* In memory an operation is in progress exactly when it is the active one:
\* what active() answers (409 or not) is the truth about every entry.
ActiveIsTheLiveOne ==
    running => \A id \in Id : Live(operations[id]) <=> id = activeId

\* The file never holds two operations in progress, whatever writes failed and
\* whenever the process died: the next load() finds at most one.
JournalHasOneLive ==
    \A i, j \in Id : Live(disk[i]) /\ Live(disk[j]) => i = j

\* The file never runs ahead of the memory: same entries, no later stage, and a
\* verdict read from the file is the verdict in memory, word for word.
JournalNotAhead ==
    running => \A id \in Id :
        /\ Present(disk[id]) <=> Present(operations[id])
        /\ Advances(disk[id].state, operations[id].state)
        /\ isFinal(disk[id].state) => operations[id].detail = disk[id].detail

\* The journal implements the abstract one: log is the states of the file.
Journal == INSTANCE DurableJournal WITH log <- [id \in Id |-> disk[id].state]
JournalSpec == Journal!Spec
=============================================================================
