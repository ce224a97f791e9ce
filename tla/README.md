# TLA+ verification of morfUpdate

morfUpdate is two things: a small agent that installs updates of the morfSystem
services of one machine, on Linux its own included, and a Qt library with which an
application asks GitHub whether a newer release exists. This directory models
both: the agent with its journal, its HTTP reader, its configuration, the
verification of what it downloads, its executors, its privileged helper and the
succession of processes by which it replaces itself; and the library from the
call of the application to the file its dialog offers. TLC checks small instances
of every module; TLAPS proves, for every instance, every safety property the runs
check, `VerdictIsStable` under the hypothesis that writes succeed and
`DelegationIsWatched` under the one that `systemctl` and `dpkg` do as asked, as in
the runs that check them. Paths below are relative to the repository.

## The system: inventory

| Component | State it keeps | Operations | Interacts with |
| --- | --- | --- | --- |
| State contract (`src/UpdateOperation.cpp`) | none | `isFinal`, `canTransition`, `reconcileSelfUpdate` | called by the journal |
| Journal (`src/OperationStore.cpp`) | `m_operations`, `m_activeId`, `operations.json` | `load`, `active`, `find`, `create`, `transition`, `setSelfUpdateRefs`, `reconcileSelfUpdates` | main thread, HTTP thread and worker thread, under one recursive mutex |
| HTTP API (`src/LocalApiServer.cpp`) | a byte buffer per socket | reading of a request from its pieces; `GET /healthz`, `GET`/`POST /api/v1/updates`, `POST /api/v1/restart` | journal; queued signals to the engine |
| Engine (`src/UpdateEngine.cpp`) | the download directory of each operation; on Windows the directories it exchanges | `run`, `runSelfUpdate`, `restart`, `fail`, `installSourceBundle`, `installWindows` on the worker thread | journal, GitHub, helper, service manager, health URL of the service |
| Agent process (`agent/main.cpp`, `scripts/linux/morfupdate.service`) | how far `main` is | start, reconcile, serve, exit codes, restart by systemd | all of the above |
| Privileged helper (`agent/privileged-helper.cpp`) | `/opt/<service>`, its backup, the unit, the installed package | `--install-deb`, `--install-bundle`, `--restart`, `--self-apply`, `--self-apply-run` | dpkg, systemctl, systemd-run, `/healthz` |
| Release validation (`src/ReleaseValidator.cpp`) | none | `selectAsset` of a manifest for a target, `checksumMatches` of a download | called by the engine between its requests |
| Agent configuration (`src/AgentConfig.cpp`) | read once | `loadAgentConfig`, targets | main, HTTP API, engine |
| Versions (`src/Version.cpp`) | none | `parse`, `compare`, `toString` | release check |
| Release check (`src/UpdateChecker.cpp`, `src/GitHubReleaseSource.cpp`) | requests under way | `checkForUpdates`, `fetchLatest`, `handleReply` | GitHub, dialog |
| Asset selection (`include/morfupdate/ReleaseInfo.h`) | none | `selectAssetForCurrentPlatform` | dialog |
| Notification dialog (`src/UpdateDialog.cpp`) | the open dialogs | `checkAndNotify` | release check, asset selection |
| Packaging (`third_party/morf`, `service.py`), build, examples, tests | none at run time | maintainer scripts that stop and start the unit | dpkg |

**How they interact.** `main` loads the journal, lets `reconcileSelfUpdates`
settle a self-update by the version it was compiled with, and starts two
threads. The HTTP thread validates a request, asks `active()`, calls `create()`,
answers 202 and emits a signal that Qt posts to the worker thread. The worker
executes one slot at a time, although the slot itself runs nested event loops
while it waits for the network, and records each step with `transition()`. It
runs the setuid helper as a child. For the agent's own package it stages the new
and the old package, records both, moves the operation to `delegated` and has the
helper start a detached copy of itself in a transient systemd unit: the applier
stops the agent, installs, restarts, probes `/healthz`, and goes back on failure.
Whichever agent starts next settles the operation.

**What is hard.** Two threads around a journal whose check and creation are two
calls. A journal whose memory moves before its file, so that every failed write
leaves them different. A process that may die between any two of those writes,
and whose successor knows only the file. A self-update whose parent is stopped
by its own child, and whose outcome is judged by a process that may not be able
to serve. A release that its publisher may change between any two of the requests
that read it. A service manager on Windows that answers before it has done what
it was asked. Overlapping checks without a time limit, whose answers come in any
order. A helper whose exchange of directories is several commands, each of
which may fail or be the last one executed. `PROJECT.json` lists these hazards
with the line where each one bites and the properties aimed at it.

**What makes each part correct.**
- State contract: a final state is final, and no legal path loops.
- Journal: one operation in progress in memory and in the file, whatever was
  written; a file that never says more than memory; nothing goes backwards
  across crashes.
- HTTP API and engine: an operation changes hands exactly once; a 202 survives;
  every step asks for a legal move; a success means that the helper succeeded;
  every accepted operation ends.
- Self-update: no applier without a recorded way back; a verdict that names the
  version that runs; the agent comes back.
- HTTP reader: how the bytes of a request are cut decides nothing, a whole request
  is answered, what a silent client may hold is bounded.
- Configuration, release validation, engine: what reaches an executor is of the
  version asked for, for this machine, from a commit its tag has named, whatever
  is uploaded meanwhile; nothing that was in place is lost; every update ends.
- Helper: a refused bundle changes nothing, the old directory is not lost, exit
  code 0 means installed, every call ends.
- Versions, release check, dialog: following the dialogs leads only to newer
  versions; what is shown is true and no more than the caller asked for; an
  answer that arrives is dealt with.
- Asset selection: never a file of another machine, or of no format of this one,
  before a native one of this machine.

## Modules

| Module | Models | Builds on |
| --- | --- | --- |
| `OperationState` | states, legal moves, the successor's verdict; the stage of a state | |
| `DurableJournal` | abstract: what the file promises across crashes | `OperationState` |
| `OperationStore` | the journal; `Journal == INSTANCE DurableJournal WITH log <- ...` | `OperationState` |
| `OperationStoreProofs` | theorems of the journal | `OperationStore`, TLAPS |
| `UpdateAgent` | main, HTTP thread, worker thread, systemd, helper calls as outcomes | `OperationStore` |
| `UpdateAgentProofs` | theorems of the agent towards its journal and its clients | `UpdateAgent`, `OperationStoreProofs` |
| `AgentThreadProofs` | theorems of its threads among each other | `UpdateAgentProofs` |
| `SelfUpdate` | the detached applier, dpkg, systemctl, reboots around the agent | `UpdateAgent` |
| `SelfUpdateProofs` | theorems of the succession | `SelfUpdate`, `AgentThreadProofs` |
| `PrivilegedHelper` | `--install-deb`, `--install-bundle`, `--restart`, command by command | |
| `PrivilegedHelperProofs` | theorems of the helper | `PrivilegedHelper`, TLAPS |
| `HttpReader` | how a request is put together from the pieces of its stream | |
| `HttpReaderProofs` | theorems of the reader | `HttpReader`, TLAPS |
| `AgentConfig` | which configuration files are accepted, what they give on a platform | |
| `ReleaseValidation` | the requests of the engine and the checks between them, and the publisher | |
| `UpdateEngine` | updates of a service: targets, verified files, executors | `ReleaseValidation`, `AgentConfig` |
| `UpdateEngineProofs` | theorems of the engine | `UpdateEngine`, TLAPS |
| `VersionOrder` | `Version::parse` and `compare` | |
| `AssetSelection` | the pass over the files of a release | |
| `ReleaseCheck` | the library in an application: checks, requests, dialogs | `AssetSelection`, `VersionOrder` |
| `ReleaseCheckProofs` | theorems of the pass and of the check | `ReleaseCheck`, TLAPS |
| `MC*` | definitions for the TLC configurations | the module in the name |

### OperationState, OperationStore
`disk`, `operations`, `activeId` are `operations.json`, `m_operations`,
`m_activeId`; `running` says that a process holds the journal. Every public call
holds the mutex from its first to its last line, so a call is one step. The
result of the write is the parameter `ok`: `QSaveFile` either replaces the file
or leaves it. A failed write is where the code is delicate, and the model
follows it call by call: `create()` takes its entry back, `transition()` and
`setSelfUpdateRefs()` do not, `reconcileSelfUpdates()` writes inside
`transition()` and once more at the end and reports only the second failure.
`load()` that fails makes `main` return 4, which changes nothing; it is the
absence of the step. Texts are reduced to what they tell a reader (`Detail`),
timestamps and platform are left out, `rollbackRef` and `stagedRef` are one flag
because they are set together. `StoreNext` lets any caller call in any order: the
journal's own properties do not lean on the discipline of its callers.

### UpdateAgent
`phase` is how far `main` is, `http` the request in the HTTP thread, `queue` the
events posted to the worker, `worker` the slot it executes and the step it is at.
Answers 400, 404, 409 and the GETs of operations in progress change nothing and
are no steps. `HandlePost` and `CreateOperation` are the check and the creation,
two steps between which the worker may move; `EmitQueued` is the 202 and the
signal. A slot is a table of its `transition()` calls (`runMoves`,
`restartMoves`, `selfMoves`), each with the step that follows and the step when
the call returns false, and a table of the work between them (`Work`), which ends
well or badly: network, tag check, manifest, checksum, archive and health probes
are outcomes. `fail()` is the move `fail`, whose result nobody looks at.
`HelperRestartsAgent` is a restart of the agent's own unit, which ends the agent
that asked for it. `accepted`, `seen`, `applied`, `crashes` are history.

### SelfUpdate
`unit` (what systemd does with a unit that ended), `version` (installed binary),
`applier` (per operation, how far its detached applier is), `reboots`. One action
per link of `selfApplyRun`. Everything that stops or restarts the unit also ends
the agent's process in that step (`unitEnds`). dpkg, its maintainer scripts and
systemctl are external and modelled by their effect. A reboot ends a transient
unit for good.

### PrivilegedHelper
`app` and `backup` are `/opt/<service>` and `/opt/<service>.morfupdate.bak`: a
complete tree, a directory that is no complete tree (`Partial`), or `Nothing`.
One action per command, because each may fail and the process may be killed
between and inside them: `cp -aT` is two steps, a killed `rm` or `dpkg` leaves
`Partial`, `mv` is a rename unless its target exists. Failures of `mv`, `cp`,
`dpkg` and of a tree that does not start are handled by the code and always
possible; failures whose result the code ignores (`rm`, the `mv` of a rollback,
`systemctl` on a tree that works) are counted in `faults`, and a property that
needs them absent says so. The arguments are validated before anything changes
and are a precondition of `Call`. `UpdateAgent` sees such a call as one outcome.

### HttpReader
A message is its sizes: the bytes up to the blank line, the `Content-Length` as
`contentLength()` reads it, and what the client sends after the headers. `Send`
lets any number of them arrive, `ReadyRead` is `onSocketReadyRead()`, which reads
everything that is there, appends it to the buffer of the socket, and drops,
answers or keeps. What an accepted request does to the journal is `UpdateAgent`.

### AgentConfig
Pure: `isAccepted` is everything `load()` refuses, `derive` the fields it fills
or overwrites for the platform. A directory is where it leads: the one the
service runs from, `/opt/<service>`, or the default of Windows, which stays the
text `%ProgramData%/<service>` because nothing expands it.

### ReleaseValidation, UpdateEngine
The publisher is an actor: a tag may move, a manifest or a file may be uploaded
again, between any two requests. `pc` is the request the engine is at
(`ReadRelease`, `ReadRef`, `FollowTag`, `ReadManifest`, `ReadAsset`, `Verify`);
each action includes what the code decides before the next request, so
`ReadManifest` holds all of `selectAsset()` and the checks of format and presence
that follow it. A file is what it was built from, and its SHA-256 is the file
itself: a checksum that matches means the same file. A manifest tells the truth of
the files it lists, an assumption on the publisher's tool. `UpdateEngine` adds
the target, the operation and the executors. On Linux the executor ends in the
helper, which installs (`HelperInstalls`), refuses its call (`InstallRefused`) or
fails at its work and leaves the old tree, the new one or no complete one
(`HelperFails`, the outcomes of `PrivilegedHelper`); on Windows every command of `installWindows()` is an action: the archive,
`sc.exe stop` (which returns while the service is still `stopping`), the two
renames, `sc.exe start`; `ServiceStops` is the service control manager. A failure
that has a reason in the state (a service that is not running, a file that is
open, a directory that is not there) is always possible then; any other is counted
in `faults`. `Kill` is a crash or a reboot, after which the next start records a
failure. The transitions of the operation during all this are `UpdateAgent`.

### VersionOrder, ReleaseCheck, AssetSelection
A version text is its numeric fields and the place of its suffix in the order of
`QString::compare`. A check is one call of `checkAndNotify()`: it has a checker
and a request of its own (`step`, `reply`), the server answers from what the
repository holds when it answers, or never. `TellNoUpdate` and `BuildDialog` are
the three signals of the checker; the dialog runs the pass of `AssetSelection`
while it is built, one turn of the loop a step, and the GUI thread does nothing
else meanwhile (`free`). `Upgrade` is a user who installs what a dialog offers and
starts the application again, which is what makes a sequence of answers matter.
For the scores, a file name is its extension, its word for an operating system
(`darwin` also contains `win`, as `win64` does) and its word for an architecture.

## What each run checks

| Run | Instance | Properties | Shows |
| --- | --- | --- | --- |
| `store` | 2 ids, 1 project, 1 version | `StoreTypeOK`, `ActiveIsTheLiveOne`, `JournalHasOneLive`, `JournalNotAhead`, `JournalSpec` | any calls in any order, any failing write, any crash; the journal implements `DurableJournal` |
| `agent` | 3 ids, a service and the own unit, 2 crashes, failing writes | `AgentTypeOK`, `HandoverIsClean`, `EngineKeepsContract`, `AcceptedIsDurable`, `SuccessIsReal`, `NobodyIsOrphan` | the threads' hand-over, what a client may rely on, and that only a failed write leaves an operation to nobody |
| `self` | 2 ids, 2 versions, 1 crash, 1 reboot, everything may fail | `SelfTypeOK`, `ApplierHasWayBack`, `VerdictNamesTheRunningVersion`, `ServesFree` | safety of the succession, and that no start inherits an operation in progress |
| `self_live` | 2 ids, a service and the own unit, a target that never serves, 2 crashes, writes succeed | `DelegationIsWatched`, `VerdictIsStable`, `AgentComesBack`, `EveryOperationEnds` | the applier rolls back and the agent serves again, every accepted operation ends, and what was read stays |
| `helper` | 3 trees, one that does not work; 2 kills, 1 ignored failure | `HelperTypeOK`, `PreviousIsKept`, `NoStaleBackup`, `RefusalRestores`, `ExitZeroIsInstalled`, `EveryCallEnds` | sequences of calls on one service |
| `http` | 2 sockets, 9 messages around a limit of 5 bytes, any cut | `HttpTypeOK`, `PiecesDoNotMatter`, `RequestIsAnswered` | bytes decide the fate of a request, cuts and other clients do not |
| `engine` | 2 updates, 2 platforms, 4 configurations, 8 manifests, 1 upload, 1 fault, 1 kill | `EngineTypeOK`, `VerifiedIsRequested`, `TreesAreKept`, `SuccessIsTheRelease`, `UpdateEnds` | what may be installed, and what an installation leaves behind |
| `check` | a silent check and one from the menu, 2 releases, lists of up to 2 files on 4 machines | `CheckTypeOK`, `ToldIsTrue`, `OwnMachineWins`, `NeverOlder`, `AnswerIsTold` | overlapping checks and late answers never lead back, and a native file of this machine is never passed over |
| `unhealthy_successor`, `lost_tree`, `one_config`, `foreign_file` | smallest that shows it | one each | a sentence of the documentation or of a comment that the code does not keep; see below |

Each property of a passing run has a mutant: a plausible slip in the code under
which TLC finds it violated. Mutant definitions stand before the definition they
replace and are marked as such.

**Bounds, and why they are enough.** Only one operation can be in progress, so a
second id shows everything the first one leaves behind (a final entry beside a
new one, an applier of one operation beside another), and the third in `agent`
one more round after two crashes. Projects matter only as "the own unit",
"declared `self`" or neither: two cover the two kinds a run needs. Versions matter
only as the origin, the target and, for the verdict, neither; `store` checks the
`failed` verdict with an empty origin or target. Two crashes allow one in the life
of an operation and one in the start that follows. Two attempts of `bringUp()` in
the `self*` runs instead of four leave a first, a repeated and a last attempt;
`helper` has the four. Three trees are the previous, a good and a bad one. Two
files are enough for the order and the ties of the selection: the pass keeps one
best, so a third only meets that one. A limit of five bytes leaves room for
requests below, at and above it, with bodies shorter and longer than they declare;
a second socket is every other client. In `engine` the second update meets what a
failed first one left behind, one upload falls between any two requests, and one
nested tag is a loop that turns once; the manifests are right ones and one of each
kind `selectAsset()` refuses. In `check` one application at each side of every
comparison (a shorter version, a pre-release, its stable version, no version) and
two releases in either order show a list whose first is not the highest; the
theorems of `ReleaseCheckProofs` have none of these bounds. Ids are symmetric
where no liveness is checked. `MaxCrashes`, `MaxReboots`, `MaxKills`,
`MaxFaults`, `MaxPublish`, `MaxNest`, `MaxOperations`, `MaxReleases`, `Lists`,
`Release` and the supply of ids (guard of `HandlePost`) are the bounds of the
models, not of the code.

**Deadlock** is checked except where the system may really stop: in `self` every
systemctl call of an applier can fail and the agent stay down for good; in `http`
every client may stay silent; in `engine` and `one_config` nobody owes the engine
another update; in `check` and `foreign_file` every server may be silent and the user may
close the dialog.

**Fairness, and what justifies it.** `AgentFairness`: `main` runs on and the unit
is started again for ever (`Restart=always`, `RestartSec=5`); a request handler
that has begun finishes; the worker proceeds, since every network step has a
timeout (30 s in `get()`, 5 s per health probe) and the commands behind the
helper end. Clients owe nothing: no fairness on requests. `FairSelfSpec` adds the
applier, a process of its own. `helper`: the commands end (dpkg is run
non-interactively for this reason). `http`: a readable socket is read, because
the event loop runs and no handler waits; the client owes nothing, not even the
rest of its request. `engine`: the worker proceeds, on the 30 s of `get()` and on
commands that end; the publisher and the service control manager owe nothing.
`check`: the GUI thread runs; servers owe nothing, since the requests of the
library have no time limit, and users owe nothing. Crashes, reboots, kills are bounded and never
fair. Liveness is checked with writes that succeed: an operation whose
`transition()` could not be written stays in progress until the next start of the
agent (`UpdateEngine.cpp:402`), which nothing in the code repairs earlier. What
ends it then is safety, and checked with failing writes too: `ServesFree` in run
`self`. `self_live` is also the liveness of the agent alone: an applier is launched
only by an update of the own unit, so that the behaviours of a service with crashes
in between are among those it checks.

## Where code and documentation disagree

- `unhealthy_successor`: the successor passes `healthy = true` for itself before
  it serves, so a version that never answers is recorded as `succeeded`.
- `lost_tree`: a helper killed between `mv` and the end of `cp` leaves the only
  complete tree in the backup, and the next call deletes the backup first.
- `one_config`: on Windows the default directory of a target is a text that
  nothing expands; the update stops the service, finds no directory to exchange,
  fails, and does not start the service again, although one configuration is said
  to serve every platform (`src/AgentConfig.cpp:52`).
- `foreign_file`: a release whose only native file is for the other architecture
  is offered, although the penalty is there never to do that
  (`include/morfupdate/ReleaseInfo.h:89-90`): 40 points do not outweigh a native
  format (up to 50) and its words (up to 30). On x86_64 a lone `.deb` for linux and
  arm64 has 25 points. What does hold is `OwnMachineWins`: such a file never beats a
  native one that names this architecture.

More facts the models show, on which no run is spent:

- An agent that dies between preparing a self-update and handing it off starts
  again with the old version and records `rolled_back`, though nothing was
  installed.
- The verdict on a self-update frees the journal while the applier still restarts
  and probes; another operation may start beside it.
- `POST /api/v1/restart` on the agent's own unit is done and then recorded as an
  interrupted failure.
- A diagnosis whose write failed is replaced by "agent interrupted" at the next
  start.
- On Windows, `sc.exe stop` returns before the service has ended: the rename of
  open files then fails, the update fails, and the service is left to stop; from
  then on `sc.exe stop` refuses, and with it every further update, until somebody
  starts the service.
- On Windows, an `app_dir` of the Linux convention in the file stays what it is.
- Of two releases the check takes the first of the list, which need not be the
  higher one; and `rc.10` is older than `rc.9`, since suffixes compare as texts.
- `IUpdateSource.h:26` says that `fetchLatest()` ends in `latestReady` or
  `failed`; a server that never answers gives neither.
- A `Content-Length` that is negative or larger than a request may be keeps its
  connection without an answer, as an unfinished request does.

## Proofs

Assumptions: those named in the modules. `StoreAssumption`: `NoId`, `NoProject`,
`NoVersion` are not values, `CallerDetail` holds only details, `SaveMayFail` is
Boolean. `AgentAssumption`: the engine's details are among the caller's,
`OwnService` and `SelfProject` are projects, `Healthy` are versions. Ids,
projects and versions may be any sets, infinite ones included.
`SelfAssumption`: the projects declared `self` run in the agent's own unit, and
`bringUp()` tries at least once.
`HttpAssumption`, `ReleaseAssumption`, `EngineAssumption`, `SelectionAssumption`
and `CheckAssumption` say what the constants of their modules are; the one with
content is in `ReleaseAssumption`, that a manifest tells the truth of the files
it lists.

**The journal** (`OperationStoreProofs`). `StoreInv` is the conjunction of
`StoreTypeOK`, `ActiveIsTheLiveOne`, `JournalHasOneLive` and `JournalNotAhead`.
None is inductive alone: after a failed write the file still has an operation in
progress that memory has ended, so that the next `create()` writes one live entry
only because `save()` replaces the whole file by a memory in which the active id
is the only live one; and after `load()` memory has one only because the file had
at most one. `JournalNotAhead` ties the two. `TransitionClimbs` (every legal move
raises `Stage`) and the transitivity of `Advances` give `EntriesAdvance`: from a
file that memory has outrun by any number of failed writes, the next successful
write still moves each entry forward.

- `StoreInvariant`, and from it `StoreTypeCorrect`, `ActiveIsTruth`,
  `OneLiveOnDisk`, `DiskNotAhead`
- `StoreImplementsJournal`: `StoreSpec => Journal!Spec`, by `EntriesAdvance` and
  `JournalHasOneLive`
- `VerdictsStay`: an entry that is final in the file keeps its state and its
  detail through every step. `JournalNotAhead` has already put the verdict in
  memory, where no move leaves a final state, so that any later write repeats it

**The agent** (`UpdateAgentProofs`). `AgentInv` adds to `StoreInv` the types of
the threads (`AgentTypeOK`), `Hands` (a thread that is past its first step holds
an id that exists, in a process that runs) and `Promised` (accepted ids are in
the file; `JournalNotAhead` then puts them in memory while the agent serves).
`Hands` is needed so that each
call of the journal has arguments of its types; with it every step of the agent is
a step of `StoreNext` or leaves the journal alone.

- `AgentTypeCorrect`: `AgentTypeOK`
- `AgentKeepsJournal`: `AgentSpec => JournalSpec /\ []JournalHasOneLive`: under
  `main`, two threads and crashes the file is what `DurableJournal` says, and never
  has two operations in progress
- `AcceptedStays`: `AcceptedIsDurable`

**The threads** (`AgentThreadProofs`). `ThreadInv` is `AgentInv` with `Held` and
`Real`. `Held` says that at most one of the request being answered, the queue and the slot
that executes has an operation, and that its holder knows its state: still queued
in the hands of the first two, and fixed by the step of the slot (`Fits`) in those of
the third. `MoveTable` shows, one case per step, that the tables of the slots agree
with `Fits`: the move a slot asks for is legal from there, and leads to where the
next step expects the operation. `Real` ties `succeeded` in memory and in
the file to the history of what the helper applied.

- `HandoverStaysClean`: `HandoverIsClean`; `ContractIsKept`:
  `EngineKeepsContract`; `SuccessStaysReal`: `SuccessIsReal`

`OwnedInv` adds `NobodyIsOrphan` itself and `Cleared`: what is in progress while
`main` starts is a self-update that has just been loaded, and nothing once it has
reconciled. A slot is over with a verdict, with an applier, or with a write that
failed; in the last case `TransitionClimbs` says that the file really differs from
memory, which is the exception the property makes. `Told` is the invariant behind
`VerdictIsStable`: the file is the memory, and has every verdict a client was
told. Its theorem assumes `SaveMayFail = FALSE`, as the run does: a verdict whose
write fails is told from memory and gone with the process, which the code accepts.

- `NobodyStaysOrphan`: `NobodyIsOrphan`, with any failing writes; `VerdictStays`:
  `VerdictIsStable`, when writes succeed
- `SlotsOnlyGoOn`: every step of a slot lowers `StepsAhead`; no slot takes a step
  twice

**The succession** (`SelfUpdateProofs`). The specification is `SelfSpec`: the agent
between appliers that stop it, packages that replace its version, and reboots.
`SelfInv` adds to `OwnedInv`:

- `Kinds`: the slot of an operation and its flag `selfUpdate` agree in the hands of
  each thread, the packages are recorded before the operation is delegated, and the
  file is the memory when it is handed over;
- `Origins`: both versions of a self-update are known from its creation on, and are
  the same in memory and in the file whatever writes failed; without this a verdict
  could be taken by one version and recorded for another;
- `Launched`: an operation with an applier is delegated or settled, with its
  packages, in the file and in memory: a crash after the launch loses neither;
- `Verdicts`: `main` goes on only with what it has written, so that no start serves
  on a verdict that is only in memory;
- `Bounded`: the tries of a start, and the bound on reboots.

The proof of the step splits the system at `Outside`: an applier or a reboot ends the
process or leaves journal and threads alone (`OutsideDoes`), so that the agent's own
invariants survive it without looking at the applier again; and a step of the agent
leaves every applier alone but for the launch (`AgentLeaves`).

- `SelfTypeCorrect`: `SelfTypeOK`; `WayBackExists`: `ApplierHasWayBack`;
  `VerdictsNameTheVersion`: `VerdictNamesTheRunningVersion`
- `SuccessionKeepsJournal`: `JournalSpec` and `JournalHasOneLive` through processes
  that appliers and reboots kill and start
- `EveryStartServesFree`: `ServesFree`. `Cleared` says that nothing is in progress in
  memory after the reconciliation, `Verdicts` that the file is that memory, and only
  the start of the API begins to serve: an operation that a failed write left to
  nobody blocks the agent for the life of one process, not longer
- `PromisesHoldAround`: `HandoverIsClean`, `EngineKeepsContract`, `SuccessIsReal`, `AcceptedIsDurable`, `NobodyIsOrphan`. What
  the agent promises by itself it promises inside the succession
- `DelegationStaysWatched`: `DelegationIsWatched`, assuming `SystemMayFail = FALSE`
  as the run does. `Stopping` is its invariant: while the agent serves, the applier
  of a delegated operation has not got beyond its launch. With a `systemctl stop`
  that fails, whose result the code ignores, the applier goes on and may end beside
  the agent that launched it, and the property is false
- `VerdictStaysAround`: `VerdictIsStable`, when writes succeed
- `ApplierRunsOnce`: an operation has one applier in its life, and each link of it
  lowers `LinksAhead` or repeats the start of the unit. `NotYetLaunched` is its
  invariant: at the hand-over nobody has launched one before, because a `delegated`
  or settled operation never comes back to `rollback_prepared`

**The HTTP reader** (`HttpReaderProofs`). `HttpInv` adds to the types and the
property `StreamIsWhole`: the buffer and the unread bytes of an open socket are
together what its client has sent. Only with it does a decision that the code
makes on the buffer become one on the stream.

- `ReaderTypes`: `HttpTypeOK`; `StreamStaysWhole`; `CutsDoNotMatter`:
  `PiecesDoNotMatter`, for any messages, cuts, limit and number of sockets

**The engine** (`UpdateEngineProofs`). `EngineInv` has five parts. `RemoteOK`: a
tag has named what it names now. `WantedOK`: staged and wanted versions together
are those of the operation. `FoundOK`: the commit read is one its tag has named,
the asset selected is for this machine, and so is every verified file; it is
about what was read, never about what the release holds now, which is why an
upload in between (`PublishKeeps`) cannot disturb it. `PcOK`: which steps a
platform and a kind of target have. `MachineOK`: what was ever in place is in place
or in the directory of the operation that moved it, and the directory of an
operation is empty before it moves something into it; that second half makes the
first one inductive, because the rename would otherwise replace an earlier tree.

- `EngineIsSound`, `EngineTypes`: `EngineTypeOK`; `OnlyTheRequested`:
  `VerifiedIsRequested`; `NoTreeIsLost`: `TreesAreKept`; `SuccessIsVerified`:
  `SuccessIsTheRelease`
- `UpdatesOnlyGoOn`: every step of an update leaves a file less to fetch, a step less
  on the way, or a tag less to follow, whatever is published meanwhile

**The choice of a file** (`ReleaseCheckProofs`, first part). `BestInv`: no candidate
passed so far has a higher score than the best. `OwnNativeBeats` is the
arithmetic of the scores: the least a native file of this architecture can have is
more than the most of any file that is not native or names the other one.

- `PassIsSound`

**The release check** (`ReleaseCheckProofs`, second part). `ChecksSelect` is a refinement:
every step of the application is a step of the pass or leaves its state alone, so
that the theorems of the pass hold inside the dialog. `CheckInv` adds to the types
what an answer and an offer stand for: an answer that found something a release of
the list, an offer, shown or being built, a version newer than the one that runs,
"up to date" a version that is not newer.
An upgrade forgets every other
answer, since the application starts anew. `NewerIsNotOlder` and `OlderIsNewer` are
the order: `compare` agrees with the list of fields `Key` on all numbers.

- `ChecksSelect`; `DialogOffersOwn`:
  `OwnMachineWins`; `CheckTypes`: `CheckTypeOK`; `ToldStaysTrue`: `ToldIsTrue`;
  `OffersAreNewer`: `NeverOlder`, for any files, tags, releases and checks
- `ChecksOnlyGoOn`: no check shows two things, and what was shown stays until the
  application starts anew

**The helper** (`PrivilegedHelperProofs`). Assumption: `HelperAssumption` (trees,
`Nothing` and `Partial` are different; at least one attempt). `HelperInv` adds to
the types `Course` (which steps a verb has, that a call in progress has no result
yet, and that after a copy or an unpack the tree in place is the one asked for)
and `WayBack` (for each step of a bundle call without an ignored failure, where
the directory is that the call found: in place until it is set aside, then the
backup, then in place again). The properties look one step ahead and follow from
these two and the step; `NoFaultBefore` carries "no ignored failure up to the end
of this step" back to its beginning.

- `HelperTypeCorrect`: `HelperTypeOK`
- `ExitZeroMeansInstalled`: `ExitZeroIsInstalled`, for any number of ignored
  failures
- `RefusalIsHarmless`: `RefusalRestores`
- `PreviousStays`: `PreviousIsKept`, for any number of kills
- `BackupsGo`: `NoStaleBackup`. `BackupIsHeld` says which steps may hold a backup:
  those after a directory was set aside and before it is put back or removed
- `CallsOnlyGoOn`: no call goes back to an earlier command; only a start is repeated

**Only model-checked**: the liveness properties (`EveryOperationEnds`,
`AgentComesBack`, `EveryCallEnds`, `RequestIsAnswered`, `UpdateEnds`, `AnswerIsTold`),
because TLAPS proves neither liveness under fairness nor `ENABLED`. What is proved of
them is the half that is a safety property: `SlotsOnlyGoOn`, `ApplierRunsOnce`,
`CallsOnlyGoOn`, `UpdatesOnlyGoOn` and `ChecksOnlyGoOn` give a measure that every step
lowers, so that no slot, applier, call, update or check can go on for ever; that each
of them can always take its next step is left to TLC.

## Not modelled

Network, TLS, JSON, `tar` and the content of archives are outcomes: a request, an
unpacking or a check of entries ends well or badly. The validation of paths and
names in the helper and in the API has no state; the helper's is a precondition of
its calls. `Version::toString`, the texts and widgets of the dialog are layout.
`third_party/morf` is a vendored packaging tool; only the effect of the maintainer
scripts it produces is used. Build files, examples and tests keep
no state; `test/contract_test.cpp` is read for what it says of the program.

## Plan

Done, in this order: the contract and the journal with its abstract journal and
proofs; the agent; the succession; the agent's first theorems; the helper and its
theorems; the reader of the HTTP API; configuration, release validation and the
engine with its Windows executor; versions, release check and dialog around the
choice of a download; the theorems of the threads, the reader, the engine, the
choice and the check; the theorems of the succession, of the backups of the helper,
and the measures behind the liveness. Next, the most important first:

1. That `UpdateEngine` and `PrivilegedHelper` refine the steps by which
   `UpdateAgent` stands for them (`Work`, `HelperInstalls`), as a theorem.
2. Larger instances of `self_live`, whose safety is proved, for liveness alone.

The runs stay few: modules that compose share a run, and a run that only documents
a disagreement gives way when a passing run needs its place.
