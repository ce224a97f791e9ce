---------------------------- MODULE UpdateAgent ----------------------------
(***************************************************************************)
(* The agent process: main() (agent/main.cpp), the HTTP thread             *)
(* (src/LocalApiServer.cpp) and the worker thread (src/UpdateEngine.cpp)   *)
(* around the journal they share, under a systemd unit that restarts the   *)
(* process (scripts/linux/morfupdate.service).                             *)
(*                                                                         *)
(* The threads interleave between calls of the journal. The network, the   *)
(* privileged helper and the health probes are outcomes: each ends well or *)
(* badly. The variables unit, version, applier and reboots belong to the   *)
(* succession of a self-update, which module SelfUpdate adds.              *)
(***************************************************************************)
EXTENDS OperationStore, Sequences

CONSTANTS
    OwnService,   \* projects whose target names the unit "morfupdate"
    SelfProject,  \* projects whose target says self: true
    Healthy,      \* versions that can listen and answer /healthz
    MaxCrashes    \* bound: how often the process is killed from outside

\* The details the engine passes to transition().
EngineDetail == {"progress", "diagnosis", "passed", "reservation"}

ASSUME AgentAssumption ==
    /\ EngineDetail \subseteq CallerDetail
    /\ OwnService \subseteq Project
    /\ SelfProject \subseteq Project
    /\ Healthy \subseteq Version
    /\ MaxCrashes \in Nat

VARIABLES
    phase,        \* how far main() is
    http,         \* the request the HTTP thread is handling
    queue,        \* events posted to the worker (Qt::QueuedConnection)
    worker,       \* the slot the worker thread is executing
    accepted,     \* history: ids answered with 202
    seen,         \* history: the first final answer a GET gave for an id
    applied,      \* history: ids whose helper call succeeded
    crashes,      \* history: how often the process was killed from outside
    unit,         \* what systemd does with a unit that ended
    version,      \* MORFUPDATE_VERSION of the installed binary
    applier,      \* per self-update: how far its detached applier is
    reboots       \* history: how often the machine rebooted

threadVars == <<http, queue, worker>>
historyVars == <<accepted, seen, applied, crashes>>
successionVars == <<unit, version, applier, reboots>>
agentVars == <<storeVars, phase, threadVars, historyVars, successionVars>>

HttpIdle == [pc |-> "idle", slot |-> "run", project |-> NoProject, to |-> NoVersion, id |-> NoId]
WorkerIdle == [pc |-> "idle", id |-> NoId]
Unseen == [state |-> "none", detail |-> "none"]
NoApplier == [pc |-> "none", tries |-> 0]

-----------------------------------------------------------------------------
(* UpdateEngine: what each step of a slot does.                            *)

Move(state, detail, next, refused) ==
    [to |-> state, detail |-> detail, next |-> next, refused |-> refused]

\* Mutant: run() reports the outcome before it has called the helper.
runMovesEarly ==
    [download |-> Move("downloading", "progress", "fetch", "idle"),
     verify   |-> Move("verifying", "progress", "checksum", "fail"),
     install  |-> Move("installing", "progress", "restart", "idle"),
     restart  |-> Move("restarting", "progress", "health", "idle"),
     health   |-> Move("health_check", "progress", "probe", "idle"),
     succeed  |-> Move("succeeded", "passed", "idle", "idle"),
     reserve  |-> Move("succeeded", "reservation", "idle", "idle"),
     fail     |-> Move("failed", "diagnosis", "idle", "idle")]

\* The transitions of run(), fail() and the end of restart(): the state asked
\* for, the step after it, and the step when transition() returns false. A
\* refused move leaves the slot ("idle"), except the one before the checksum.
runMoves ==
    [download |-> Move("downloading", "progress", "fetch", "idle"),
     verify   |-> Move("verifying", "progress", "checksum", "fail"),
     install  |-> Move("installing", "progress", "helper_install", "idle"),
     restart  |-> Move("restarting", "progress", "health", "idle"),
     health   |-> Move("health_check", "progress", "probe", "idle"),
     succeed  |-> Move("succeeded", "passed", "idle", "idle"),
     reserve  |-> Move("succeeded", "reservation", "idle", "idle"),
     fail     |-> Move("failed", "diagnosis", "idle", "idle")]

\* The transition of restart() that run() does not have.
restartMoves == [relaunch |-> Move("restarting", "progress", "helper_restart", "idle")]

\* Mutant: runSelfUpdate() delegates without recording the two packages.
selfMovesNoRefs ==
    [stage_download |-> Move("downloading", "progress", "stage", "idle"),
     stage_verify   |-> Move("verifying", "progress", "prepare", "idle"),
     prepare        |-> Move("rollback_prepared", "progress", "delegate", "idle"),
     delegate       |-> Move("delegated", "progress", "handoff", "idle")]

\* The transitions of runSelfUpdate().
selfMoves ==
    [stage_download |-> Move("downloading", "progress", "stage", "idle"),
     stage_verify   |-> Move("verifying", "progress", "prepare", "idle"),
     prepare        |-> Move("rollback_prepared", "progress", "refs", "idle"),
     delegate       |-> Move("delegated", "progress", "handoff", "idle")]

Moves(pc) ==
    IF pc \in DOMAIN runMoves THEN runMoves[pc]
    ELSE IF pc \in DOMAIN restartMoves THEN restartMoves[pc]
    ELSE selfMoves[pc]

MovePc == {"download", "verify", "install", "restart", "health", "succeed", "reserve", "fail",
           "relaunch", "stage_download", "stage_verify", "prepare", "delegate"}

\* Mutant: a downloaded asset is installed without the move to verifying.
WorkUnverified ==
    [fetch    |-> [well |-> "install",      badly |-> "fail"],
     checksum |-> [well |-> "install",      badly |-> "fail"],
     probe    |-> [well |-> "succeed",      badly |-> "reserve"],
     stage    |-> [well |-> "stage_verify", badly |-> "fail"]]

\* Mutant: a service that stays unhealthy leaves the slot without a verdict.
WorkNoVerdict ==
    [fetch    |-> [well |-> "verify",       badly |-> "fail"],
     checksum |-> [well |-> "install",      badly |-> "fail"],
     probe    |-> [well |-> "succeed",      badly |-> "idle"],
     stage    |-> [well |-> "stage_verify", badly |-> "fail"]]

\* Work between two transitions that ends well or badly, with the next step of
\* each: release, tag, manifest and download; the checksum; the health probes
\* (an unhealthy service is a success with a reservation); the two packages of
\* a self-update.
Work ==
    [fetch    |-> [well |-> "verify",       badly |-> "fail"],
     checksum |-> [well |-> "install",      badly |-> "fail"],
     probe    |-> [well |-> "succeed",      badly |-> "reserve"],
     stage    |-> [well |-> "stage_verify", badly |-> "fail"]]

\* The steps that spin a nested event loop of the worker thread (get(),
\* healthCheck()): an event posted to the worker would be delivered inside.
Nested == {"fetch", "probe", "stage"}

WorkerPc == {"idle", "refs", "handoff", "helper_install", "helper_restart"}
               \cup MovePc \cup DOMAIN Work

goto(pc) == worker' = IF pc = "idle" THEN WorkerIdle ELSE [worker EXCEPT !.pc = pc]

-----------------------------------------------------------------------------
(* agent/main.cpp                                                          *)

\* Everything the threads of a process hold is gone with it.
threadsGone ==
    /\ http' = HttpIdle
    /\ queue' = <<>>
    /\ worker' = WorkerIdle

AgentInit ==
    /\ StoreInit
    /\ phase = "down"
    /\ http = HttpIdle
    /\ queue = <<>>
    /\ worker = WorkerIdle
    /\ accepted = {}
    /\ seen = [id \in Id |-> Unseen]
    /\ applied = {}
    /\ crashes = 0
    /\ unit = "wanted"
    /\ version \in Healthy
    /\ applier = [id \in Id |-> NoApplier]
    /\ reboots = 0

\* systemd starts the unit and main() loads the journal. When load() fails,
\* main() returns 4 and systemd tries again: nothing has changed.
StartUp ==
    /\ phase = "down"
    /\ unit = "wanted"
    /\ Load
    /\ phase' = "loaded"
    /\ UNCHANGED <<threadVars, historyVars, successionVars>>

\* Mutant: main() does not look at the result of reconcileSelfUpdates().
ReconcileAtStartUnchecked ==
    /\ phase = "loaded"
    /\ \E moved, ok \in SaveOutcome : reconcileSelfUpdates(version, moved, ok)
    /\ phase' = "reconciled"
    /\ UNCHANGED <<running, threadVars, historyVars, successionVars>>

\* main() settles a self-update by the version it was compiled with; when the
\* last write fails, reconcileSelfUpdates() returns -1 and main() returns 4.
ReconcileAtStart ==
    /\ phase = "loaded"
    /\ \E moved, ok \in SaveOutcome :
          /\ reconcileSelfUpdates(version, moved, ok)
          /\ phase' = IF pending = {} \/ ok THEN "reconciled" ELSE "refused"
    /\ UNCHANGED <<running, threadVars, historyVars, successionVars>>

\* api.start() succeeds, the worker thread runs, and app.exec() serves; or the
\* API is refused and main() returns 5.
StartApi ==
    /\ phase = "reconciled"
    /\ phase' = IF version \in Healthy THEN "serving" ELSE "refused"
    /\ UNCHANGED <<storeVars, threadVars, historyVars, successionVars>>

\* The end of the process, whoever ended it.
endProcess ==
    /\ Exit
    /\ phase' = "down"
    /\ threadsGone

\* main() has returned an error.
Quit ==
    /\ phase = "refused"
    /\ endProcess
    /\ UNCHANGED <<historyVars, successionVars>>

\* The process is killed or the machine reboots: at any step, MaxCrashes times.
Crash ==
    /\ crashes < MaxCrashes
    /\ endProcess
    /\ crashes' = crashes + 1
    /\ UNCHANGED <<accepted, seen, applied, successionVars>>

-----------------------------------------------------------------------------
(* LocalApiServer::handle, on the HTTP thread.                             *)

\* Mutant: project and version are read from each other's field.
HandlePostSwapped(slot, project, to) ==
    /\ phase = "serving"
    /\ http.pc = "idle"
    /\ ~hasActive
    /\ \E id \in Id : ~Present(operations[id])
    /\ http' = [pc |-> "create", slot |-> slot, project |-> to, to |-> project, id |-> NoId]
    /\ UNCHANGED <<storeVars, phase, queue, worker, historyVars, successionVars>>

\* A POST that passes its validation and finds no active operation. The other
\* answers (400, 404, 409) change nothing.
HandlePost(slot, project, to) ==
    /\ phase = "serving"
    /\ http.pc = "idle"
    /\ ~hasActive
    /\ \E id \in Id : ~Present(operations[id])     \* bound: an id is left
    /\ http' = [pc |-> "create", slot |-> slot, project |-> project, to |-> to, id |-> NoId]
    /\ UNCHANGED <<storeVars, phase, queue, worker, historyVars, successionVars>>

\* POST /api/v1/updates: the own unit only as a declared self target.
HandleUpdate ==
    \E project \in Project \ (OwnService \ SelfProject), to \in Version :
        HandlePost("run", project, to)

\* POST /api/v1/restart: any declared project, the own unit included.
HandleRestart ==
    \E project \in Project : HandlePost("restart", project, NoVersion)

\* create(), as its own call of the journal: the worker may have moved since
\* the check. The origin of a self-update is the running version.
CreateOperation ==
    /\ http.pc = "create"
    /\ \E id \in Id, ok \in SaveOutcome :
          LET self == http.slot = "run" /\ http.project \in SelfProject
          IN  /\ create(id, http.project, IF self THEN version ELSE NoVersion, http.to, self, ok)
              /\ http' = IF ok THEN [http EXCEPT !.pc = "emit", !.id = id] ELSE HttpIdle
    /\ UNCHANGED <<running, phase, queue, worker, historyVars, successionVars>>

\* Mutant: the signal is emitted twice (two connections of the same signal).
EmitTwice ==
    /\ http.pc = "emit"
    /\ accepted' = accepted \cup {http.id}
    /\ queue' = queue \o <<[slot |-> http.slot, id |-> http.id], [slot |-> http.slot, id |-> http.id]>>
    /\ http' = HttpIdle
    /\ UNCHANGED <<storeVars, phase, worker, seen, applied, crashes, successionVars>>

\* The 202, then operationQueued or restartQueued, posted to the worker.
EmitQueued ==
    /\ http.pc = "emit"
    /\ accepted' = accepted \cup {http.id}
    /\ queue' = Append(queue, [slot |-> http.slot, id |-> http.id])
    /\ http' = HttpIdle
    /\ UNCHANGED <<storeVars, phase, worker, seen, applied, crashes, successionVars>>

\* GET /api/v1/updates/<id>, answered from memory; only the first final
\* answer is recorded, the other answers change nothing.
Get(id) ==
    /\ phase = "serving"
    /\ http.pc = "idle"
    /\ isFinal(operations[id].state)
    /\ seen[id] = Unseen
    /\ seen' = [seen EXCEPT ![id] = [state |-> operations[id].state,
                                    detail |-> operations[id].detail]]
    /\ UNCHANGED <<storeVars, phase, threadVars, accepted, applied, crashes, successionVars>>

-----------------------------------------------------------------------------
(* UpdateEngine, on the worker thread.                                     *)

\* The first step of run() or of restart(): find() gives a queued operation, and
\* the target says whether it is a self-update. Any other state returns at once.
firstStep(event) ==
    IF event.slot = "restart" THEN "relaunch"
    ELSE IF operations[event.id].project \in SelfProject THEN "stage_download"
    ELSE "download"

Deliver ==
    /\ queue # <<>>
    /\ worker.pc = "idle"
    /\ operations[Head(queue).id].state = "queued"
    /\ worker' = [pc |-> firstStep(Head(queue)), id |-> Head(queue).id]
    /\ queue' = Tail(queue)
    /\ UNCHANGED <<storeVars, phase, http, historyVars, successionVars>>

\* One transition() of a slot, and what the slot does with its result.
MoveOn ==
    /\ worker.pc \in MovePc
    /\ LET m == Moves(worker.pc) IN
       \E ok \in SaveOutcome : /\ transition(worker.id, m.to, m.detail, ok)
                               /\ goto(IF ok THEN m.next ELSE m.refused)
    /\ UNCHANGED <<running, phase, http, queue, historyVars, successionVars>>

\* The work between two transitions.
DoWork ==
    /\ worker.pc \in DOMAIN Work
    /\ \E end \in {"well", "badly"} : goto(Work[worker.pc][end])
    /\ UNCHANGED <<storeVars, phase, http, queue, historyVars, successionVars>>

\* The helper installs a package or a bundle and restarts the service.
HelperInstalls ==
    /\ worker.pc = "helper_install"
    /\ \/ goto("restart") /\ applied' = applied \cup {worker.id}
       \/ goto("fail") /\ UNCHANGED applied
    /\ UNCHANGED <<storeVars, phase, http, queue, accepted, seen, crashes, successionVars>>

\* The helper restarts a service other than the agent's own unit.
HelperRestarts ==
    /\ worker.pc = "helper_restart"
    /\ operations[worker.id].project \notin OwnService
    /\ \/ goto("health") /\ applied' = applied \cup {worker.id}
       \/ goto("fail") /\ UNCHANGED applied
    /\ UNCHANGED <<storeVars, phase, http, queue, accepted, seen, crashes, successionVars>>

\* The helper restarts the agent's own unit: systemd ends every process of the
\* unit, the caller and the helper with it, and starts the unit again.
HelperRestartsAgent ==
    /\ worker.pc = "helper_restart"
    /\ operations[worker.id].project \in OwnService
    /\ applied' = applied \cup {worker.id}
    /\ endProcess
    /\ UNCHANGED <<accepted, seen, crashes, successionVars>>

\* The helper refuses before it reaches systemctl, or the restart job fails.
HelperRefusesAgent ==
    /\ worker.pc = "helper_restart"
    /\ operations[worker.id].project \in OwnService
    /\ goto("fail")
    /\ UNCHANGED <<storeVars, phase, http, queue, historyVars, successionVars>>

\* setSelfUpdateRefs() of runSelfUpdate().
SetRefs ==
    /\ worker.pc = "refs"
    /\ \E ok \in SaveOutcome : /\ setSelfUpdateRefs(worker.id, ok)
                                /\ goto(IF ok THEN "delegate" ELSE "fail")
    /\ UNCHANGED <<running, phase, http, queue, historyVars, successionVars>>

\* Mutant: the result of the hand-off is not looked at.
HandOffUnchecked ==
    /\ worker.pc = "handoff"
    /\ \/ goto("idle") /\ applier' = [applier EXCEPT ![worker.id].pc = "stop"]
       \/ goto("idle") /\ UNCHANGED applier
    /\ UNCHANGED <<storeVars, phase, http, queue, historyVars, unit, version, reboots>>

\* The helper launches the detached applier with the two packages, or cannot.
HandOff ==
    /\ worker.pc = "handoff"
    /\ \/ goto("idle") /\ applier' = [applier EXCEPT ![worker.id].pc = "stop"]
       \/ goto("fail") /\ UNCHANGED applier
    /\ UNCHANGED <<storeVars, phase, http, queue, historyVars, unit, version, reboots>>

\* Nothing to do: app.exec() waits for a request, the worker for an event.
Wait ==
    /\ phase = "serving"
    /\ http = HttpIdle /\ queue = <<>> /\ worker = WorkerIdle
    /\ UNCHANGED agentVars

-----------------------------------------------------------------------------
HttpNext == HandleUpdate \/ HandleRestart \/ CreateOperation \/ EmitQueued \/ \E id \in Id : Get(id)

WorkerNext == \/ Deliver \/ MoveOn \/ DoWork \/ HelperInstalls \/ HelperRestarts
              \/ HelperRestartsAgent \/ HelperRefusesAgent \/ SetRefs \/ HandOff

MainNext == StartUp \/ ReconcileAtStart \/ StartApi \/ Quit

AgentNext == MainNext \/ Crash \/ HttpNext \/ WorkerNext \/ Wait

AgentSpec == AgentInit /\ [][AgentNext]_agentVars

\* main() and the two threads run on: systemd restarts the unit for ever
\* (Restart=always, RestartSec=5), every network step has a timeout, and the
\* processes the helper waits for end. Clients owe nothing.
AgentFairness ==
    /\ WF_agentVars(MainNext)
    /\ WF_agentVars(CreateOperation \/ EmitQueued)
    /\ WF_agentVars(WorkerNext)

-----------------------------------------------------------------------------
\* How far the detached applier of a self-update is (selfApplyRun).
ApplierPc == {"none", "stop", "install", "bring_up", "probe", "roll_back", "bring_up_old",
              "done", "rolled", "lost"}

ApplierState == [pc: ApplierPc, tries: Nat]

AgentTypeOK ==
    /\ StoreTypeOK
    /\ phase \in {"down", "loaded", "reconciled", "serving", "refused"}
    /\ http \in [pc: {"idle", "create", "emit"}, slot: {"run", "restart"},
                 project: Project \cup {NoProject}, to: Version \cup {NoVersion},
                 id: Id \cup {NoId}]
    /\ queue \in Seq([slot: {"run", "restart"}, id: Id])
    /\ worker \in [pc: WorkerPc, id: Id \cup {NoId}]
    /\ accepted \subseteq Id
    /\ seen \in [Id -> [state: Final \cup {"none"}, detail: Detail]]
    /\ applied \subseteq Id
    /\ crashes \in 0..MaxCrashes
    /\ unit \in {"wanted", "stopped"}
    /\ version \in Version
    /\ applier \in [Id -> ApplierState]

\* The two threads never meet on one operation or leave one half taken: what the
\* HTTP thread found free is still free when it calls create(), so its 500
\* "another update is active" cannot happen; an event waits only for an idle
\* worker and a queued operation, so no slot is ever entered from the nested
\* event loop of another.
HandoverIsClean ==
    /\ http.pc = "create" => ~hasActive
    /\ http.pc = "emit" => operations[http.id].state = "queued" /\ queue = <<>>
    /\ Len(queue) <= 1
    /\ \A i \in DOMAIN queue : operations[queue[i].id].state = "queued"
    /\ worker.pc \in Nested => queue = <<>> /\ http.pc = "idle"

\* No slot of the engine asks the journal for a move the state contract refuses:
\* the only way transition() returns false is a write that failed.
EngineKeepsContract ==
    worker.pc \in MovePc => canTransition(operations[worker.id].state, Moves(worker.pc).to)

\* A 202 is a promise: the operation is in the file from then on, and while the
\* agent serves, GET finds it.
AcceptedIsDurable ==
    \A id \in accepted : /\ Present(disk[id])
                         /\ phase = "serving" => Present(operations[id])

\* An ordinary operation that is reported as succeeded did have its helper call
\* succeed, through any crash and any failed write.
SuccessIsReal ==
    \A id \in Id : disk[id].state = "succeeded" /\ ~disk[id].selfUpdate => id \in applied

\* A final answer once given to a client, state and detail, is the one every
\* later GET gives.
VerdictIsStable ==
    phase = "serving" => \A id \in Id : seen[id] # Unseen =>
        /\ operations[id].state = seen[id].state
        /\ operations[id].detail = seen[id].detail

\* An operation in progress is in somebody's hands: the HTTP thread is about to
\* post it, it is posted, the worker has it, or an applier was launched for it.
\* The one exception is an operation whose last move could not be written: the
\* slot has left it, and the next start settles it.
NobodyIsOrphan ==
    phase = "serving" => \A id \in Id : Live(operations[id]) =>
        \/ http.pc = "emit" /\ http.id = id
        \/ \E i \in DOMAIN queue : queue[i].id = id
        \/ worker.pc # "idle" /\ worker.id = id
        \/ applier[id].pc # "none"
        \/ disk[id].state # operations[id].state

\* An agent that begins to serve has nothing in progress, in memory or in the
\* file, and accepts the next request: whatever the process before it left, by a
\* crash, a failed write or a succession, has a verdict by then, and the verdict is
\* written. So an operation that a failed write left to nobody blocks the agent no
\* longer than its process lasts.
ServesFree ==
    [][phase # "serving" /\ phase' = "serving" =>
          /\ ~hasActive'
          /\ \A id \in Id : ~Live(operations'[id]) /\ ~Live(disk'[id])]_agentVars

\* Every accepted operation reaches a final state that clients can read, and the
\* agent is free for the next one.
EveryOperationEnds ==
    \A id \in Id : id \in accepted ~> phase = "serving" /\ isFinal(operations[id].state)
=============================================================================
