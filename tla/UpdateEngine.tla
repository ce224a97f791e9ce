----------------------------- MODULE UpdateEngine -----------------------------
(***************************************************************************)
(* A service updated again and again by UpdateEngine::run()                *)
(* (src/UpdateEngine.cpp): its target from the configuration, the verified *)
(* files of ReleaseValidation, and the executor of the platform. On        *)
(* Windows the executor is here step by step (installWindows()); on Linux  *)
(* it ends in the privileged helper, and a self-update in the succession,  *)
(* which have modules of their own.                                        *)
(***************************************************************************)
EXTENDS ReleaseValidation, AgentConfig

CONSTANTS
    ConfigFile,     \* configuration files
    Installed,      \* the application before the first update
    MaxOperations,  \* bound: updates of the service
    MaxFaults,      \* bound: commands that fail for no reason of their own
    MaxKills        \* bound: how often the agent is killed in the middle

ASSUME EngineAssumption ==
    /\ \A file \in ConfigFile : isConfigFile(file)
    /\ Installed \notin File \cup {None}
    /\ MaxOperations \in Nat /\ MaxFaults \in Nat /\ MaxKills \in Nat

VARIABLES
    target,     \* the target, derived for the platform
    attempt,    \* number of the operation, names its download directory
    place,      \* what is in the directory the service runs from
    preserved,  \* per operation: its directory "previous"
    service,    \* the service or the task of the application
    halted,     \* history: this operation has stopped the service
    faults,     \* history: commands that failed for no reason of their own
    kills,      \* history: how often the agent was killed
    trees       \* history: everything that was in place

machineVars == <<place, preserved, service, trees>>
engineVars == <<releaseVars, target, attempt, machineVars, halted, faults, kills>>

EngineInit ==
    /\ tag \in [Version -> Commit] /\ nest = [v \in Version |-> 0]
    /\ \E choose \in [Version -> Manifest] :
          /\ \A v \in Version : choose[v].version = v /\ choose[v].commit = tag[v]
          /\ manifest = choose
          /\ files = [v \in Version |-> [n \in Name |->
                 LET listing == {i \in DOMAIN choose[v].artifacts : choose[v].artifacts[i].name = n}
                 IN IF listing = {} THEN None
                    ELSE choose[v].artifacts[CHOOSE i \in listing : TRUE].sha256]]
    /\ published = 0 /\ named = [v \in Version |-> {tag[v]}]
    /\ platform \in Platform
    /\ \E file \in ConfigFile : isAccepted(file) /\ target \in targets(file, isWindows)
    /\ self = target.isSelf
    /\ wanted = <<>> /\ staged = <<>> /\ pc = "idle"
    /\ listed = {} /\ nested = 0 /\ commit = None /\ asset = None /\ strategy = None /\ saved = None
    /\ attempt = 0
    /\ place = Installed /\ trees = {Installed} /\ service = "running"
    /\ preserved = [n \in 1..MaxOperations |-> None]
    /\ halted = FALSE /\ faults = 0 /\ kills = 0

-----------------------------------------------------------------------------
Resting == {"idle", "installed", "handoff", "failed"}

\* An operation begins: its download directory is new. A self-update needs the
\* package of the version that runs, too, and is refused on Windows.
Begin ==
    /\ pc \in Resting /\ attempt < MaxOperations
    /\ \E to, from \in Version : wanted' = IF self THEN <<to, from>> ELSE <<to>>
    /\ pc' = IF self /\ isWindows THEN "failed" ELSE "release"
    /\ staged' = <<>> /\ halted' = FALSE
    /\ listed' = {} /\ nested' = 0 /\ commit' = None /\ asset' = None /\ strategy' = None /\ saved' = None
    /\ attempt' = attempt + 1
    /\ UNCHANGED <<remoteVars, targetVars, target, machineVars, faults, kills>>

goto(step) ==
    /\ pc' = step
    /\ UNCHANGED <<remoteVars, targetVars, foundVars, wanted, staged, target, attempt, kills>>

verified == staged[Len(staged)].file

put(tree) == place' = tree /\ trees' = trees \cup ({tree} \ {None})

\* Something fails that could have worked.
fault == faults < MaxFaults /\ faults' = faults + 1

-----------------------------------------------------------------------------
(* Linux, and what every platform refuses.                                 *)

\* Both packages are there: the detached applier takes over.
HandOff ==
    /\ pc = "install" /\ self
    /\ goto("handoff")
    /\ UNCHANGED <<machineVars, halted, faults>>

\* installSourceBundle(): safeBundleEntries(), tar, and the file VERSION.
UnpackBundle ==
    /\ pc = "install" /\ ~self /\ ~isWindows /\ strategy = "source-bundle"
    /\ verified.version = staged[1].version
    /\ goto("helper")
    /\ UNCHANGED <<machineVars, halted, faults>>

helperRuns ==
    \/ pc = "helper"
    \/ pc = "install" /\ ~self /\ ~isWindows /\ strategy = "package"

\* The helper installs the package, or exchanges the unpacked bundle.
HelperInstalls ==
    /\ helperRuns
    /\ goto("installed") /\ put(verified)
    /\ UNCHANGED <<preserved, service, halted, faults>>

\* The helper fails at its work: what was in place is there, or the new tree
\* with a service that does not come up, or a part of it (see PrivilegedHelper).
HelperFails ==
    /\ helperRuns
    /\ goto("failed")
    /\ \E tree \in {place, verified, None} : put(tree)
    /\ service' \in {"running", "stopped"}
    /\ UNCHANGED <<preserved, halted, faults>>

\* Before anything is stopped: an archive that is unsafe, cannot be unpacked or
\* does not hold the service, a helper that refuses its call, a bundle on Windows.
InstallRefused ==
    /\ pc \in {"install", "helper"} /\ ~self
    /\ goto("failed")
    /\ UNCHANGED <<machineVars, halted, faults>>

-----------------------------------------------------------------------------
(* installWindows().                                                       *)

scm == target.serviceManager = "scm"

\* The directory the configuration names exists: only where the service runs.
exists == target.appDir = Own /\ place # None

\* safeArchive(), tar.exe, and the directory of the service in the archive.
UnpackArchive ==
    /\ pc = "install" /\ ~self /\ isWindows /\ strategy = "package"
    /\ target.appDir # ""
    /\ goto("stop")
    /\ UNCHANGED <<machineVars, halted, faults>>

\* sc.exe stop returns while the service is still stopping.
StopService ==
    /\ pc = "stop"
    /\ scm => service = "running"
    /\ service' = IF scm THEN "stopping" ELSE "stopped"
    /\ halted' = TRUE
    /\ goto("preserve")
    /\ UNCHANGED <<place, preserved, trees, faults>>

\* sc.exe stop refuses a service that does not run.
StopFails ==
    /\ pc = "stop"
    /\ \/ fault
       \/ service # "running" /\ UNCHANGED faults
    /\ goto("failed")
    /\ UNCHANGED <<machineVars, halted>>

\* Mutant: all operations share one directory for what they replace.
PreserveInOnePlace ==
    /\ pc = "preserve"
    /\ \/ ~exists /\ UNCHANGED machineVars
       \/ exists /\ put(None)
             /\ preserved' = [preserved EXCEPT ![1] = place] /\ UNCHANGED service
    /\ goto("replace")
    /\ UNCHANGED <<halted, faults>>

\* The first rename, if there is a directory to move. A service that is still
\* stopping may have let go of it.
Preserve ==
    /\ pc = "preserve"
    /\ \/ ~exists /\ UNCHANGED machineVars
       \/ exists /\ put(None)
             /\ preserved' = [preserved EXCEPT ![attempt] = place] /\ UNCHANGED service
    /\ goto("replace")
    /\ UNCHANGED <<halted, faults>>

\* The files of a service that is still stopping may be open.
PreserveFails ==
    /\ pc = "preserve" /\ exists
    /\ \/ fault
       \/ service = "stopping" /\ UNCHANGED faults
    /\ goto("failed")
    /\ UNCHANGED <<machineVars, halted>>

\* The second rename needs the parent of the directory, and that it is gone.
Replace ==
    /\ pc = "replace"
    /\ target.appDir = Own /\ place = None
    /\ put(verified)
    /\ goto("start")
    /\ UNCHANGED <<preserved, service, halted, faults>>

\* Nothing is put back and nothing is started.
ReplaceFails ==
    /\ pc = "replace"
    /\ \/ fault
       \/ target.appDir # Own /\ UNCHANGED faults
    /\ goto("failed")
    /\ UNCHANGED <<machineVars, halted>>

StartService ==
    /\ pc = "start" /\ service = "stopped"
    /\ service' = "running"
    /\ goto("installed")
    /\ UNCHANGED <<place, preserved, trees, halted, faults>>

\* Mutant: the result of the start is not returned.
StartFailsUnnoticed ==
    /\ pc = "start"
    /\ \/ fault
       \/ service = "stopping" /\ UNCHANGED faults
    /\ goto("installed")
    /\ UNCHANGED <<machineVars, halted>>

\* sc.exe start refuses a service that is still stopping.
StartFails ==
    /\ pc = "start"
    /\ \/ fault
       \/ service = "stopping" /\ UNCHANGED faults
    /\ goto("failed")
    /\ UNCHANGED <<machineVars, halted>>

\* The service control manager (external) ends what it was asked to stop.
ServiceStops ==
    /\ service = "stopping"
    /\ service' = "stopped"
    /\ UNCHANGED <<releaseVars, target, attempt, place, preserved, trees, halted, faults, kills>>

\* The agent is killed, or the machine reboots: the next start records a
\* failure, and what was done stays.
Kill ==
    /\ pc \notin Resting /\ kills < MaxKills
    /\ pc' = "failed" /\ kills' = kills + 1
    /\ UNCHANGED <<remoteVars, targetVars, foundVars, wanted, staged, target, attempt,
                   machineVars, halted, faults>>

-----------------------------------------------------------------------------
FetchStep == Fetch /\ UNCHANGED <<target, attempt, machineVars, halted, faults, kills>>
PublishStep == Publish /\ UNCHANGED <<target, attempt, machineVars, halted, faults, kills>>

WindowsStep ==
    \/ UnpackArchive \/ StopService \/ StopFails \/ Preserve \/ PreserveFails
    \/ Replace \/ ReplaceFails \/ StartService \/ StartFails

EngineStep ==
    \/ FetchStep \/ HandOff \/ UnpackBundle \/ HelperInstalls \/ HelperFails
    \/ InstallRefused \/ WindowsStep

EngineNext == Begin \/ EngineStep \/ ServiceStops \/ Kill \/ PublishStep

EngineSpec == EngineInit /\ [][EngineNext]_engineVars

\* The worker proceeds: get() gives up after 30 s, the commands end.
FairEngineSpec == EngineSpec /\ WF_engineVars(EngineStep)

-----------------------------------------------------------------------------
EngineTypeOK ==
    /\ pc \in Resting \cup FetchPc \cup {"install", "helper", "stop", "preserve", "replace", "start"}
    /\ wanted \in Seq(Version)
    /\ listed \subseteq Name \cup {ManifestFile}
    /\ nested \in 0..MaxNest
    /\ commit \in Commit \cup {None}
    /\ saved \in File \cup {None, Damaged}
    /\ staged \in Seq([version: Version, file: File])
    /\ place \in File \cup {Installed, None}
    /\ preserved \in [1..MaxOperations -> File \cup {Installed, None}]
    /\ service \in {"running", "stopping", "stopped"}

\* Whatever the publisher does between the requests, a file that is verified was
\* built for the version asked for, for this machine, in a format its executor
\* takes, and from a commit that the tag of this version has named; and the
\* applier is never launched without both of its packages.
VerifiedIsRequested ==
    /\ \A i \in DOMAIN staged :
          LET f == staged[i].file IN
          /\ f.version = staged[i].version
          /\ f.platform = platform
          /\ f.commit \in named[f.version]
          /\ f.format \in (IF self THEN {"deb"}
                           ELSE {"source-bundle", IF isWindows THEN "zip" ELSE "deb"})
    /\ pc = "handoff" => Len(staged) = 2 /\ wanted = <<>>

\* What was in place is never lost on Windows: every application that an
\* operation moved away is whole in the directory of that operation, through
\* failing commands, kills and further attempts.
TreesAreKept ==
    isWindows => trees \subseteq {place} \cup {preserved[n] : n \in DOMAIN preserved}

\* Success means the verified application is in place, and on Windows that it
\* was started there.
SuccessIsTheRelease ==
    pc = "installed" => place = verified /\ (isWindows => service = "running")

\* Every update comes to an end, whatever is published meanwhile.
UpdateEnds == pc = "release" ~> pc \in Resting

\* "La meme config marche desormais sur Windows, Linux x64 et ARM64"
\* (src/AgentConfig.cpp): an update none of whose commands fails by itself does
\* not fail after it has stopped the service.
OneConfigWorks == halted /\ pc = "failed" => faults > 0 \/ kills > 0
=============================================================================
