-------------------------- MODULE UpdateEngineProofs --------------------------
(***************************************************************************)
(* What may be installed, and what an installation leaves behind: for any  *)
(* releases and any way in which they change between the requests of the   *)
(* engine, any configuration files, and any number of updates, failing     *)
(* commands and kills.                                                     *)
(***************************************************************************)
EXTENDS UpdateEngine, SequenceTheorems, TLAPS

\* What the executor of a target takes.
TakenFormat == IF self THEN {"deb"} ELSE {"source-bundle", IF isWindows THEN "zip" ELSE "deb"}

\* A file of a version that was built for this machine from a commit its tag
\* has named.
IsRequested(f, v) ==
    /\ f \in File
    /\ f.version = v /\ f.platform = platform /\ f.commit \in named[v]
    /\ f.format \in TakenFormat

\* GitHub holds what a publisher may upload, and a tag has named what it names.
RemoteOK ==
    /\ tag \in [Version -> Commit]
    /\ nest \in [Version -> 0..MaxNest]
    /\ manifest \in [Version -> Manifest]
    /\ files \in [Version -> [Name -> File \cup {None}]]
    /\ named \in [Version -> SUBSET Commit]
    /\ \A v \in Version : tag[v] \in named[v]

InstallPc == {"install", "helper", "stop", "preserve", "replace", "start", "installed", "handoff"}
WindowsPc == {"stop", "preserve", "replace", "start"}

\* What is staged and what is still to fetch are the versions of the operation.
WantedOK ==
    /\ wanted \in Seq(Version) /\ staged \in Seq([version: Version, file: File])
    /\ pc \in FetchPc => wanted # <<>> /\ Len(wanted) + Len(staged) = (IF self THEN 2 ELSE 1)
    /\ pc \in InstallPc => wanted = <<>> /\ Len(staged) = (IF self THEN 2 ELSE 1)

\* What the step of the engine relies on.
FoundOK ==
    /\ listed \subseteq Name \cup {ManifestFile}
    /\ nested \in 0..MaxNest
    /\ commit \in Commit \cup {None}
    /\ saved \in File \cup {None, Damaged}
    /\ pc = "tag" => commit \in named[version]
    /\ pc \in {"asset", "verify"} =>
          asset \in Artifact /\ IsRequested(asset.sha256, version)
    /\ \A i \in DOMAIN staged : IsRequested(staged[i].file, staged[i].version)

PcOK ==
    /\ pc \in Resting \cup FetchPc \cup InstallPc
    /\ pc = "handoff" <=> pc \in InstallPc \ {"install"} /\ self
    /\ pc \in WindowsPc => isWindows
    /\ pc = "helper" => ~isWindows

Tree == File \cup {Installed}

\* Where the applications are: what was in place is in place or kept, and the
\* directory of an operation is empty until it moves something into it.
MachineOK ==
    /\ place \in Tree \cup {None} /\ trees \subseteq Tree
    /\ preserved \in [1..MaxOperations -> Tree \cup {None}]
    /\ service \in {"running", "stopping", "stopped"}
    /\ attempt \in 0..MaxOperations
    /\ pc # "idle" => attempt \in 1..MaxOperations
    /\ \A n \in 1..MaxOperations :
          (n > attempt \/ (n = attempt /\ pc \in FetchPc \cup {"install", "stop", "preserve"})) =>
              preserved[n] = None
    /\ isWindows => trees \subseteq {place} \cup {preserved[n] : n \in 1..MaxOperations}
    /\ pc = "start" => place = verified
    /\ pc = "installed" => place = verified /\ (isWindows => service = "running")

\* The inductive invariant.
EngineInv == RemoteOK /\ WantedOK /\ FoundOK /\ PcOK /\ MachineOK

-----------------------------------------------------------------------------
\* What a manifest says of a file is of its type, and true.
LEMMA ArtifactFields ==
    ASSUME NEW m \in Manifest, NEW i \in DOMAIN m.artifacts
    PROVE  /\ m.artifacts[i] \in Artifact
           /\ m.artifacts[i].sha256 \in File
           /\ m.artifacts[i].wellFormed =>
                 /\ m.artifacts[i].sha256.version = m.version
                 /\ m.artifacts[i].sha256.commit = m.artifacts[i].commit
                 /\ m.artifacts[i].sha256.platform = m.artifacts[i].platform
                 /\ m.artifacts[i].sha256.format = m.artifacts[i].format
<1>1. m.artifacts \in Seq(Artifact)
  BY ReleaseAssumption
<1>2. m.artifacts[i] \in Artifact
  BY <1>1, ElementOfSeq
<1>3. m.artifacts[i].sha256 \in File
  BY <1>2 DEF Artifact
<1>4. m.artifacts[i].wellFormed =>
          m.artifacts[i].sha256 =
              [version |-> m.version, commit |-> m.artifacts[i].commit,
               platform |-> m.artifacts[i].platform, format |-> m.artifacts[i].format]
  BY ReleaseAssumption
<1> QED
  BY <1>2, <1>3, <1>4

\* The file of an artifact has a name of the release.
LEMMA ArtifactName == \A a \in Artifact : a.name \in Name
BY DEF Artifact

\* Only files that were built are published.
LEMMA BuiltAreFiles == Built \subseteq File
BY ArtifactFields DEF Built

\* Sequences of files to fetch and of files that were fetched.
LEMMA WantedTail ==
    ASSUME NEW w \in Seq(Version), w # <<>>
    PROVE  /\ Head(w) \in Version /\ Tail(w) \in Seq(Version)
           /\ Len(Tail(w)) = Len(w) - 1 /\ Len(w) \in Nat /\ Len(w) > 0
           /\ Tail(w) = <<>> <=> Len(w) = 1
<1>1. Head(w) \in Version /\ Tail(w) \in Seq(Version) /\ Len(Tail(w)) = Len(w) - 1
  BY HeadTailProperties
<1>2. Len(w) \in Nat /\ Len(w) # 0
  BY LenProperties, EmptySeq
<1>3. Tail(w) = <<>> <=> Len(Tail(w)) = 0
  BY <1>1, EmptySeq
<1> QED
  BY <1>1, <1>2, <1>3

\* Before the first update the application is in place.
LEMMA EngineInvInit == EngineInit => EngineInv
<1> SUFFICES ASSUME EngineInit PROVE EngineInv
  OBVIOUS
<1>1. RemoteOK
  <2>1. PICK choose \in [Version -> Manifest] :
           /\ manifest = choose
           /\ files = [v \in Version |-> [n \in Name |->
                 LET listing == {i \in DOMAIN choose[v].artifacts : choose[v].artifacts[i].name = n}
                 IN IF listing = {} THEN None
                    ELSE choose[v].artifacts[CHOOSE i \in listing : TRUE].sha256]]
    BY DEF EngineInit
  <2>2. ASSUME NEW v \in Version, NEW n \in Name
        PROVE  files[v][n] \in File \cup {None}
    <3> DEFINE listing == {i \in DOMAIN choose[v].artifacts : choose[v].artifacts[i].name = n}
    <3>1. files[v][n] = IF listing = {} THEN None
                        ELSE choose[v].artifacts[CHOOSE i \in listing : TRUE].sha256
      BY <2>1
    <3>2. listing # {} => (CHOOSE i \in listing : TRUE) \in DOMAIN choose[v].artifacts
      OBVIOUS
    <3> QED
      BY <3>1, <3>2, ArtifactFields
  <2>3. files \in [Version -> [Name -> File \cup {None}]]
    BY <2>1, <2>2
  <2>4. /\ tag \in [Version -> Commit]
        /\ nest \in [Version -> 0..MaxNest]
    BY ReleaseAssumption DEF EngineInit
  <2>5. named \in [Version -> SUBSET Commit] /\ \A v \in Version : tag[v] \in named[v]
    BY <2>4 DEF EngineInit
  <2> QED
    BY <2>1, <2>3, <2>4, <2>5 DEF RemoteOK
<1>2. WantedOK
  BY EmptySeq DEF EngineInit, WantedOK, FetchPc, InstallPc
<1>3. FoundOK
  BY ReleaseAssumption DEF EngineInit, FoundOK
<1>4. PcOK
  BY DEF EngineInit, PcOK, Resting, InstallPc, WindowsPc
<1>5. MachineOK
  BY EngineAssumption DEF EngineInit, MachineOK, Tree, FetchPc
<1> QED
  BY <1>1, <1>2, <1>3, <1>4, <1>5 DEF EngineInv

-----------------------------------------------------------------------------
\* What a publisher does changes no file that was verified, and a commit that a
\* tag has named stays named.
LEMMA PublishKeeps == ASSUME EngineInv, PublishStep PROVE EngineInv'
<1>1. PICK v \in Version : MoveTag(v) \/ UploadManifest(v) \/ UploadFile(v)
  BY DEF PublishStep, Publish
<1>2. UNCHANGED <<platform, self, listed, nested, commit, asset, strategy, saved, wanted, pc, staged,
                  attempt, place, preserved, service, trees>>
  BY DEF PublishStep, Publish, targetVars, foundVars, machineVars
<1>3. RemoteOK' /\ \A u \in Version : named[u] \subseteq named'[u]
  <2> USE DEF EngineInv, RemoteOK
  <2>1. CASE MoveTag(v)
    BY <2>1 DEF MoveTag
  <2>2. CASE UploadManifest(v)
    BY <2>2 DEF UploadManifest
  <2>3. CASE UploadFile(v)
    <3>1. PICK n \in Name, f \in Built \cup {None} : files' = [files EXCEPT ![v][n] = f]
      BY <2>3 DEF UploadFile
    <3>2. files' \in [Version -> [Name -> File \cup {None}]]
      BY <3>1, BuiltAreFiles
    <3> QED
      BY <2>3, <3>2 DEF UploadFile
  <2> QED
    BY <1>1, <2>1, <2>2, <2>3
<1>4. ASSUME NEW f, NEW u \in Version, IsRequested(f, u)
      PROVE  IsRequested(f, u)'
  BY <1>2, <1>3, <1>4 DEF IsRequested, TakenFormat, isWindows
<1>5. WantedOK'
  BY <1>2 DEF EngineInv, WantedOK
<1>6. FoundOK'
  <2>1. pc \in FetchPc => version \in Version
    BY WantedTail DEF EngineInv, WantedOK, version
  <2>2. pc = "tag" => (commit \in named[version])'
    BY <1>2, <1>3, <2>1 DEF EngineInv, FoundOK, version, FetchPc
  <2>3. pc \in {"asset", "verify"} => asset \in Artifact /\ IsRequested(asset.sha256, version)'
    <3>1. PICK f, u : f = asset.sha256 /\ u = version
      OBVIOUS
    <3> QED
      BY <1>2, <1>4, <2>1, <3>1 DEF EngineInv, FoundOK, version, FetchPc
  <2>4. ASSUME NEW i \in DOMAIN staged
        PROVE  IsRequested(staged[i].file, staged[i].version)'
    <3>1. staged[i] \in [version: Version, file: File]
      BY ElementOfSeq, LenProperties DEF EngineInv, WantedOK
    <3>2. PICK f, u : f = staged[i].file /\ u = staged[i].version
      OBVIOUS
    <3> QED
      BY <1>2, <1>4, <3>1, <3>2 DEF EngineInv, FoundOK
  <2> QED
    BY <1>2, <2>2, <2>3, <2>4 DEF EngineInv, FoundOK
<1>7. PcOK'
  BY <1>2 DEF EngineInv, PcOK, isWindows
<1>8. MachineOK'
  BY <1>2 DEF EngineInv, MachineOK, verified, isWindows
<1> QED
  BY <1>3, <1>5, <1>6, <1>7, <1>8 DEF EngineInv

\* An update begins with nothing staged, and with a directory of its own.
LEMMA BeginKeeps == ASSUME EngineInv, Begin PROVE EngineInv'
<1>1. /\ wanted' \in Seq(Version) /\ wanted' # <<>>
      /\ Len(wanted') = IF self THEN 2 ELSE 1
  BY DEF Begin
<1>2. /\ UNCHANGED <<tag, nest, manifest, files, named, platform, self, place, preserved, service, trees>>
      /\ staged' = <<>> /\ pc' \in {"failed", "release"} /\ attempt' = attempt + 1
      /\ attempt < MaxOperations
      /\ listed' = {} /\ nested' = 0 /\ commit' = None /\ asset' = None /\ saved' = None
  BY DEF Begin, remoteVars, targetVars, machineVars
<1>3. RemoteOK'
  BY <1>2 DEF EngineInv, RemoteOK
<1>4. WantedOK'
  BY <1>1, <1>2, EmptySeq DEF WantedOK, FetchPc, InstallPc
<1>5. FoundOK'
  BY <1>2, ReleaseAssumption DEF FoundOK
<1>6. PcOK'
  BY <1>2 DEF PcOK, Resting, FetchPc, InstallPc, WindowsPc
<1>7. MachineOK'
  BY <1>2, EngineAssumption DEF EngineInv, MachineOK, isWindows, FetchPc
<1> QED
  BY <1>3, <1>4, <1>5, <1>6, <1>7 DEF EngineInv

-----------------------------------------------------------------------------
(* The requests.                                                           *)

\* No request changes the machine or the releases.
LEMMA FetchFrame ==
    ASSUME FetchStep
    PROVE  /\ UNCHANGED <<tag, nest, manifest, files, named, platform, self,
                          attempt, place, preserved, service, trees>>
           /\ pc \in FetchPc
           /\ pc' \in FetchPc \cup {"install", "failed"}
<1>1. UNCHANGED <<tag, nest, manifest, files, named, platform, self,
                  attempt, place, preserved, service, trees>>
  BY DEF FetchStep, Fetch, remoteVars, targetVars, machineVars
<1>2. pc \in FetchPc /\ pc' \in FetchPc \cup {"install", "failed"}
  BY DEF FetchStep, Fetch, ReadRelease, ReadRef, FollowTag, ReadManifest, ReadAsset, Verify,
         FetchFails, FetchPc
<1> QED
  BY <1>1, <1>2

\* What is staged stays: requests append to it.
LEMMA StagedStays ==
    ASSUME EngineInv, FetchStep, UNCHANGED staged
    PROVE  \A i \in DOMAIN staged : IsRequested(staged[i].file, staged[i].version)'
BY FetchFrame DEF EngineInv, FoundOK, IsRequested, TakenFormat, isWindows

\* What a selected artifact says is what was asked for.
LEMMA SelectedIsRequested ==
    ASSUME EngineInv, pc = "tag",
           NEW m \in Manifest, NEW a, selects(m, a), a.format = expectedFormat(m)
    PROVE  a \in Artifact /\ IsRequested(a.sha256, version)
<1>1. PICK i \in DOMAIN m.artifacts : matching(m) = {i} /\ a = m.artifacts[i]
  BY DEF selects
<1>2. m.version = version /\ a.wellFormed /\ a.commit = commit
  BY DEF selects
<1>3. a.platform = platform
  BY <1>1 DEF matching
<1>4. a.format \in TakenFormat
  BY DEF expectedFormat, TakenFormat
<1>5. commit \in named[version]
  BY DEF EngineInv, FoundOK
<1> QED
  BY <1>1, <1>2, <1>3, <1>4, <1>5, ArtifactFields DEF IsRequested

\* The tables of what the engine found keep their types at every request.
LEMMA FetchFoundOK ==
    ASSUME EngineInv, FetchStep
    PROVE  FoundOK'
<1> USE FetchFrame DEF EngineInv, FoundOK, FetchPc
<1>1. version \in Version
  BY WantedTail DEF WantedOK, version
<1>2. CASE ReadRelease
  <2>1. UNCHANGED <<wanted, nested, commit, asset, saved, staged>> /\ pc' = "ref"
        /\ listed' \subseteq Name \cup {ManifestFile}
    BY <1>2 DEF ReadRelease
  <2> QED
    BY <2>1, StagedStays
<1>3. CASE ReadRef
  <2>1. /\ UNCHANGED <<wanted, listed, asset, saved, staged>> /\ pc' = "tag"
        /\ commit' = tag[version] /\ nested' = nest[version]
    BY <1>3 DEF ReadRef
  <2>2. commit' \in Commit /\ nested' \in 0..MaxNest /\ commit' \in named[version]
    BY <1>1, <2>1 DEF RemoteOK
  <2>3. (commit \in named[version])'
    BY <2>1, <2>2 DEF version
  <2> QED
    BY <2>1, <2>2, <2>3, StagedStays
<1>4. CASE FollowTag
  <2>1. /\ UNCHANGED <<pc, wanted, listed, commit, asset, saved, staged>> /\ pc = "tag"
        /\ nested > 0 /\ nested' = nested - 1
    BY <1>4 DEF FollowTag
  <2>2. nested' \in 0..MaxNest
    BY <2>1, ReleaseAssumption
  <2>3. (commit \in named[version])'
    BY <2>1 DEF version
  <2> QED
    BY <2>1, <2>2, <2>3, StagedStays
<1>5. CASE ReadManifest
  <2>1. /\ UNCHANGED <<wanted, listed, nested, commit, saved, staged>>
        /\ pc = "tag" /\ pc' = "asset" /\ manifest[version] \in Manifest
    BY <1>1, <1>5 DEF ReadManifest, RemoteOK
  <2>2. PICK a : /\ selects(manifest[version], a) /\ a.format = expectedFormat(manifest[version])
                 /\ asset' = a
    BY <1>5 DEF ReadManifest
  <2>3. PICK m, v : m = manifest[version] /\ v = version
    OBVIOUS
  <2>4. a \in Artifact /\ IsRequested(a.sha256, v)
    BY <2>1, <2>2, <2>3, SelectedIsRequested
  <2>5. (asset \in Artifact /\ IsRequested(asset.sha256, version))'
    BY <2>1, <2>2, <2>3, <2>4 DEF IsRequested, TakenFormat, isWindows, version
  <2> QED
    BY <2>1, <2>5, StagedStays
<1>6. CASE ReadAsset
  <2>1. /\ UNCHANGED <<wanted, listed, nested, commit, asset, staged>>
        /\ pc = "asset" /\ pc' = "verify"
        /\ saved' \in {files[version][asset.name], Damaged}
    BY <1>6 DEF ReadAsset
  <2>2. saved' \in File \cup {None, Damaged}
    BY <1>1, <2>1, ArtifactName DEF RemoteOK
  <2>3. PICK f, v : f = asset.sha256 /\ v = version
    OBVIOUS
  <2>4. (asset \in Artifact /\ IsRequested(asset.sha256, version))'
    BY <2>1, <2>3 DEF IsRequested, TakenFormat, isWindows, version
  <2> QED
    BY <2>1, <2>2, <2>4, StagedStays
<1>7. CASE Verify
  <2>1. /\ UNCHANGED <<listed, nested, commit, asset, saved>>
        /\ pc = "verify" /\ pc' \in {"install", "release"}
        /\ staged' = Append(staged, [version |-> version, file |-> saved])
        /\ saved = asset.sha256
    BY <1>7 DEF Verify, checksumMatches, foundVars
  <2>2. IsRequested(saved, version)
    BY <2>1
  <2>3. ASSUME NEW i \in DOMAIN staged'
        PROVE  IsRequested(staged[i].file, staged[i].version)'
    <3>1. DOMAIN staged = 1..Len(staged) /\ Len(staged) \in Nat
      BY LenProperties DEF WantedOK
    <3>2. [version |-> version, file |-> saved] \in [version: Version, file: File]
      BY <1>1, <2>2 DEF IsRequested
    <3>3. /\ DOMAIN staged' = 1..(Len(staged) + 1)
          /\ staged'[i] = IF i = Len(staged) + 1 THEN [version |-> version, file |-> saved]
                          ELSE staged[i]
      BY <2>1, <2>3, <3>1, <3>2, AppendProperties, LenProperties DEF WantedOK
    <3>4. CASE i = Len(staged) + 1
      BY <2>2, <3>3, <3>4 DEF IsRequested, TakenFormat, isWindows
    <3>5. CASE i # Len(staged) + 1
      <4>1. i \in DOMAIN staged
        BY <3>1, <3>3, <3>5
      <4> QED
        BY <3>3, <3>5, <4>1 DEF IsRequested, TakenFormat, isWindows
    <3> QED
      BY <3>4, <3>5
  <2> QED
    BY <2>1, <2>3
<1>8. CASE FetchFails
  BY <1>8, StagedStays DEF FetchFails, foundVars
<1> QED
  BY <1>2, <1>3, <1>4, <1>5, <1>6, <1>7, <1>8 DEF FetchStep, Fetch

\* Only Verify moves a version from the ones to fetch to the ones that are
\* staged; after the last one the executor follows.
LEMMA FetchWantedOK ==
    ASSUME EngineInv, FetchStep
    PROVE  WantedOK'
<1> USE FetchFrame DEF EngineInv, WantedOK, FetchPc, InstallPc
<1>1. CASE Verify
  <2>1. /\ wanted' = Tail(wanted) /\ pc = "verify"
        /\ staged' = Append(staged, [version |-> version, file |-> saved])
        /\ pc' = IF Tail(wanted) = <<>> THEN "install" ELSE "release"
        /\ saved = asset.sha256
    BY <1>1 DEF Verify, checksumMatches
  <2>2. /\ version \in Version /\ Tail(wanted) \in Seq(Version)
        /\ Len(Tail(wanted)) = Len(wanted) - 1 /\ Len(wanted) \in Nat /\ Len(wanted) > 0
        /\ Tail(wanted) = <<>> <=> Len(wanted) = 1
    BY WantedTail DEF version
  <2>3. saved \in File
    BY <2>1 DEF FoundOK, IsRequested
  <2>4. [version |-> version, file |-> saved] \in [version: Version, file: File]
    BY <2>2, <2>3
  <2>5. /\ staged' \in Seq([version: Version, file: File])
        /\ Len(staged') = Len(staged) + 1 /\ Len(staged) \in Nat
    BY <2>1, <2>4, AppendProperties, LenProperties
  <2> QED
    BY <2>1, <2>2, <2>5
<1>2. CASE ~Verify
  <2>1. /\ UNCHANGED <<wanted, staged>>
        /\ pc' \in FetchPc \cup {"failed"}
    BY <1>2 DEF FetchStep, Fetch, ReadRelease, ReadRef, FollowTag, ReadManifest, ReadAsset,
                FetchFails
  <2> QED
    BY <2>1
<1> QED
  BY <1>1, <1>2

\* A request keeps the invariant.
LEMMA FetchKeeps == ASSUME EngineInv, FetchStep PROVE EngineInv'
<1>1. RemoteOK'
  BY FetchFrame DEF EngineInv, RemoteOK
<1>2. PcOK'
  BY FetchFrame DEF EngineInv, PcOK, FetchPc, InstallPc, WindowsPc, Resting, isWindows
<1>3. MachineOK'
  BY FetchFrame DEF EngineInv, MachineOK, FetchPc, isWindows
<1> QED
  BY <1>1, <1>2, <1>3, FetchWantedOK, FetchFoundOK DEF EngineInv

-----------------------------------------------------------------------------
(* The executors.                                                          *)

\* A step behind the verification that changes nothing it has found.
Executes ==
    /\ UNCHANGED <<tag, nest, manifest, files, named, platform, self, listed, nested, commit,
                   asset, saved, wanted, staged, attempt>>
    /\ pc \in InstallPc \ {"installed", "handoff"}
    /\ pc' \in InstallPc \cup {"failed"} /\ pc' # "install"

\* Such a step leaves releases and verified files as they are.
LEMMA ExecutesKeeps ==
    ASSUME EngineInv, Executes
    PROVE  RemoteOK' /\ WantedOK' /\ FoundOK'
<1> USE DEF Executes, EngineInv, InstallPc
<1>1. RemoteOK'
  BY DEF RemoteOK
<1>2. WantedOK'
  BY DEF WantedOK, FetchPc
<1>3. FoundOK'
  BY DEF FoundOK, IsRequested, TakenFormat, isWindows
<1> QED
  BY <1>1, <1>2, <1>3

\* Every step of an executor is of this kind.
LEMMA ExecutorSteps ==
    ASSUME HandOff \/ UnpackBundle \/ HelperInstalls \/ HelperFails \/ InstallRefused \/ WindowsStep
    PROVE  Executes
BY DEF HandOff, UnpackBundle, HelperInstalls, HelperFails, helperRuns, InstallRefused,
       WindowsStep, UnpackArchive,
       StopService, StopFails, Preserve, PreserveFails, Replace, ReplaceFails, StartService,
       StartFails, goto, Executes, InstallPc, remoteVars, targetVars, foundVars

\* The file that is installed is a file, and stays the same on the way.
LEMMA VerifiedIsFile ==
    ASSUME EngineInv, pc \in InstallPc
    PROVE  verified \in File
<1>1. Len(staged) \in 1..2 /\ DOMAIN staged = 1..Len(staged)
  BY LenProperties DEF EngineInv, WantedOK
<1> QED
  BY <1>1 DEF EngineInv, FoundOK, IsRequested, verified

\* On Linux, and where nothing is stopped yet, applications are only replaced.
LEMMA LinuxKeeps ==
    ASSUME EngineInv, HandOff \/ UnpackBundle \/ HelperInstalls \/ HelperFails \/ InstallRefused
    PROVE  PcOK' /\ MachineOK'
<1> USE DEF EngineInv, PcOK, MachineOK, goto, machineVars, Resting, FetchPc, InstallPc, WindowsPc,
            isWindows, targetVars, verified
<1>1. CASE HandOff
  BY <1>1 DEF HandOff
<1>2. CASE UnpackBundle
  BY <1>2 DEF UnpackBundle
<1>3. CASE HelperInstalls
  <2>1. verified \in File
    BY <1>3, VerifiedIsFile DEF HelperInstalls, helperRuns
  <2> QED
    BY <1>3, <2>1 DEF HelperInstalls, helperRuns, put, Tree
<1>4. CASE HelperFails
  <2>1. verified \in File
    BY <1>4, VerifiedIsFile DEF HelperFails, helperRuns
  <2>2. PICK tree \in {place, verified, None} : put(tree)
    BY <1>4 DEF HelperFails
  <2>3. tree \in Tree \cup {None}
    BY <2>1, <2>2 DEF Tree
  <2> QED
    BY <1>4, <2>2, <2>3 DEF HelperFails, helperRuns, put
<1>5. CASE InstallRefused
  BY <1>5 DEF InstallRefused
<1> QED
  BY <1>1, <1>2, <1>3, <1>4, <1>5

\* On Windows an application is moved to the empty directory of its operation,
\* and only then another one takes its place.
LEMMA WindowsPcOK == ASSUME EngineInv, WindowsStep PROVE PcOK'
<1> USE DEF EngineInv, PcOK, goto, isWindows, targetVars, Resting, FetchPc, InstallPc, WindowsPc
<1>1. CASE UnpackArchive
  BY <1>1 DEF UnpackArchive
<1>2. CASE StopService
  BY <1>2 DEF StopService
<1>3. CASE StopFails \/ PreserveFails \/ ReplaceFails \/ StartFails
  BY <1>3 DEF StopFails, PreserveFails, ReplaceFails, StartFails
<1>4. CASE Preserve
  BY <1>4 DEF Preserve
<1>5. CASE Replace
  BY <1>5 DEF Replace
<1>6. CASE StartService
  BY <1>6 DEF StartService
<1> QED
  BY <1>1, <1>2, <1>3, <1>4, <1>5, <1>6 DEF WindowsStep

LEMMA WindowsKeeps ==
    ASSUME EngineInv, WindowsStep
    PROVE  PcOK' /\ MachineOK'
<1>1. PcOK'
  BY WindowsPcOK
<1>0. SUFFICES MachineOK'
  BY <1>1
<1> USE DEF EngineInv, goto, machineVars, isWindows, targetVars
<1> USE DEF MachineOK
<1>2. CASE UnpackArchive
  BY <1>2 DEF UnpackArchive
<1>3. CASE StopService
  BY <1>3 DEF StopService, FetchPc
<1>4. CASE StopFails \/ PreserveFails \/ ReplaceFails \/ StartFails
  BY <1>4 DEF StopFails, PreserveFails, ReplaceFails, StartFails, FetchPc
<1>5. CASE Preserve
  <2>1. /\ pc = "preserve" /\ pc' = "replace" /\ attempt \in 1..MaxOperations
        /\ preserved[attempt] = None /\ UNCHANGED <<platform, attempt, service>>
    BY <1>5 DEF Preserve
  <2>2. CASE UNCHANGED machineVars
    BY <1>5, <2>1, <2>2 DEF FetchPc
  <2>3. CASE /\ place # None /\ put(None) /\ UNCHANGED service
             /\ preserved' = [preserved EXCEPT ![attempt] = place]
    <3>1. place' = None /\ trees' = trees
      BY <2>3 DEF put
    <3>2. preserved' \in [1..MaxOperations -> Tree \cup {None}]
      BY <2>3
    <3>3. \A n \in 1..MaxOperations : preserved'[n] = IF n = attempt THEN place ELSE preserved[n]
      BY <2>1, <2>3
    <3>4. isWindows => trees' \subseteq {place'} \cup {preserved'[n] : n \in 1..MaxOperations}
      <4>1. SUFFICES ASSUME isWindows, NEW t \in trees
                     PROVE  \E n \in 1..MaxOperations : preserved'[n] = t
        BY <3>1
      <4>2. t \in Tree /\ None \notin Tree
        BY ReleaseAssumption, EngineAssumption DEF Tree
      <4>3. CASE t = place
        BY <2>1, <3>3, <4>3
      <4>4. CASE t # place
        <5>1. PICK n \in 1..MaxOperations : preserved[n] = t
          BY <4>1, <4>4
        <5>2. n # attempt
          BY <2>1, <4>2, <5>1
        <5> QED
          BY <3>3, <5>1, <5>2
      <4> QED
        BY <4>3, <4>4
    <3>5. \A n \in 1..MaxOperations : n > attempt => preserved'[n] = None
      BY <2>1, <3>3
    <3> QED
      BY <2>1, <3>1, <3>2, <3>4, <3>5, <2>3 DEF FetchPc
  <2> QED
    BY <1>5, <2>2, <2>3 DEF Preserve, exists
<1>6. CASE Replace
  <2>1. verified \in File
    BY <1>6, VerifiedIsFile DEF Replace, InstallPc
  <2>2. /\ pc = "replace" /\ pc' = "start" /\ place = None /\ verified' = verified
        /\ place' = verified /\ trees' = trees \cup ({verified} \ {None})
        /\ UNCHANGED <<platform, attempt, service, preserved>>
    BY <1>6 DEF Replace, put, verified
  <2>3. isWindows => trees' \subseteq {place'} \cup {preserved'[n] : n \in 1..MaxOperations}
    <3>1. None \notin trees
      BY ReleaseAssumption, EngineAssumption DEF Tree
    <3> QED
      BY <2>2, <3>1
  <2> QED
    BY <2>1, <2>2, <2>3 DEF Tree, FetchPc
<1>7. CASE StartService
  BY <1>7 DEF StartService, FetchPc, verified
<1> QED
  BY <1>1, <1>2, <1>3, <1>4, <1>5, <1>6, <1>7 DEF WindowsStep

\* A service that ends what it was asked to stop was not the one of a success.
LEMMA ServiceStopsKeeps == ASSUME EngineInv, ServiceStops PROVE EngineInv'
<1> USE DEF ServiceStops, EngineInv, releaseVars, remoteVars, targetVars, foundVars
<1>1. RemoteOK' /\ WantedOK' /\ PcOK'
  BY DEF RemoteOK, WantedOK, PcOK, isWindows
<1>2. FoundOK'
  BY DEF FoundOK, IsRequested, TakenFormat, isWindows, version
<1>3. MachineOK'
  BY DEF MachineOK, verified, isWindows
<1> QED
  BY <1>1, <1>2, <1>3

\* A kill leaves everything where it is.
LEMMA KillKeeps == ASSUME EngineInv, Kill PROVE EngineInv'
<1> USE DEF Kill, EngineInv, remoteVars, targetVars, foundVars, machineVars
<1>1. RemoteOK' /\ WantedOK'
  BY DEF RemoteOK, WantedOK, FetchPc, InstallPc
<1>2. PcOK'
  BY DEF PcOK, Resting, InstallPc, WindowsPc
<1>3. FoundOK'
  BY DEF FoundOK, IsRequested, TakenFormat, isWindows
<1>4. MachineOK'
  BY DEF MachineOK, isWindows, Resting, FetchPc
<1> QED
  BY <1>1, <1>2, <1>3, <1>4

-----------------------------------------------------------------------------
\* The invariant holds through any number of updates.
THEOREM EngineIsSound == EngineSpec => []EngineInv
<1>1. EngineInit => EngineInv
  BY EngineInvInit
<1>2. EngineInv /\ [EngineNext]_engineVars => EngineInv'
  <2> SUFFICES ASSUME EngineInv, [EngineNext]_engineVars PROVE EngineInv'
    OBVIOUS
  <2>1. CASE FetchStep \/ Begin \/ PublishStep \/ ServiceStops \/ Kill
    BY <2>1, FetchKeeps, BeginKeeps, PublishKeeps, ServiceStopsKeeps, KillKeeps
  <2>2. CASE HandOff \/ UnpackBundle \/ HelperInstalls \/ HelperFails \/ InstallRefused \/ WindowsStep
    BY <2>2, ExecutorSteps, ExecutesKeeps, LinuxKeeps, WindowsKeeps DEF EngineInv
  <2>3. CASE UNCHANGED engineVars
    <3> USE <2>3 DEF engineVars, releaseVars, remoteVars, targetVars, foundVars, machineVars, EngineInv
    <3>1. RemoteOK' /\ WantedOK' /\ PcOK'
      BY DEF RemoteOK, WantedOK, PcOK, isWindows
    <3>2. FoundOK'
      BY DEF FoundOK, IsRequested, TakenFormat, isWindows, version
    <3>3. MachineOK'
      BY DEF MachineOK, verified, isWindows
    <3> QED
      BY <3>1, <3>2, <3>3
  <2> QED
    BY <2>1, <2>2, <2>3 DEF EngineNext, EngineStep
<1> QED
  BY <1>1, <1>2, PTL DEF EngineSpec

\* The steps of the engine and what it holds stay in their types.
THEOREM EngineTypes == EngineSpec => []EngineTypeOK
<1>1. EngineInv => EngineTypeOK
  <2> SUFFICES ASSUME EngineInv PROVE EngineTypeOK
    OBVIOUS
  <2>1. pc \in Resting \cup FetchPc \cup {"install", "helper", "stop", "preserve", "replace", "start"}
    BY DEF EngineInv, PcOK, InstallPc, Resting
  <2>2. /\ place \in File \cup {Installed, None}
        /\ preserved \in [1..MaxOperations -> File \cup {Installed, None}]
    BY DEF EngineInv, MachineOK, Tree
  <2> QED
    BY <2>1, <2>2 DEF EngineInv, WantedOK, FoundOK, MachineOK, EngineTypeOK
<1> QED
  BY <1>1, EngineIsSound, PTL

\* Nothing reaches an executor that was not asked for, built for this machine
\* and from a commit of its tag, whatever is published between two requests.
THEOREM OnlyTheRequested == EngineSpec => []VerifiedIsRequested
<1>1. EngineInv => VerifiedIsRequested
  <2> SUFFICES ASSUME EngineInv PROVE VerifiedIsRequested
    OBVIOUS
  <2>1. \A i \in DOMAIN staged : IsRequested(staged[i].file, staged[i].version)
    BY DEF EngineInv, FoundOK
  <2>2. pc = "handoff" => Len(staged) = 2 /\ wanted = <<>>
    BY DEF EngineInv, WantedOK, PcOK, InstallPc
  <2> QED
    BY <2>1, <2>2 DEF IsRequested, TakenFormat, VerifiedIsRequested
<1> QED
  BY <1>1, EngineIsSound, PTL

\* On Windows no application that was in place is ever lost.
THEOREM NoTreeIsLost == EngineSpec => []TreesAreKept
<1>1. EngineInv => TreesAreKept
  BY DEF EngineInv, MachineOK, TreesAreKept
<1> QED
  BY <1>1, EngineIsSound, PTL

\* Success means the verified application, started.
THEOREM SuccessIsVerified == EngineSpec => []SuccessIsTheRelease
<1>1. EngineInv => SuccessIsTheRelease
  BY DEF EngineInv, MachineOK, SuccessIsTheRelease
<1> QED
  BY <1>1, EngineIsSound, PTL

-----------------------------------------------------------------------------
(* Why an update ends.                                                     *)

\* How many steps are at most ahead, to the end of a download and to the end of
\* the executor, counting all tags to follow as one.
StepsAhead == [idle |-> 0, installed |-> 0, handoff |-> 0, failed |-> 0,
               start |-> 1, helper |-> 1, replace |-> 2, preserve |-> 3, stop |-> 4, install |-> 5,
               verify |-> 6, asset |-> 7, tag |-> 8, ref |-> 9, release |-> 10]

\* A file less to fetch, or a step less on the way, or a tag less to follow.
UpdateGoesOn ==
    \/ Len(wanted') < Len(wanted)
    \/ /\ wanted' = wanted
       /\ \/ StepsAhead[pc'] < StepsAhead[pc]
          \/ pc' = pc /\ nested' < nested

LEMMA RequestsLeadOn ==
    ASSUME EngineInv, FetchStep
    PROVE  UpdateGoesOn
<1>1. CASE Verify
  <2>1. wanted \in Seq(Version) /\ wanted # <<>> /\ wanted' = Tail(wanted)
    BY <1>1 DEF Verify, EngineInv, WantedOK, FetchPc
  <2> QED
    BY <2>1, WantedTail DEF UpdateGoesOn
<1>2. CASE FollowTag
  BY <1>2 DEF FollowTag, UpdateGoesOn, EngineInv, FoundOK
<1>3. CASE ReadRelease \/ ReadRef \/ ReadManifest \/ ReadAsset \/ FetchFails
  BY <1>3 DEF ReadRelease, ReadRef, ReadManifest, ReadAsset, FetchFails, FetchPc, StepsAhead,
     UpdateGoesOn
<1> QED
  BY <1>1, <1>2, <1>3 DEF FetchStep, Fetch

LEMMA ExecutorLeadsOn ==
    ASSUME HandOff \/ UnpackBundle \/ HelperInstalls \/ HelperFails \/ InstallRefused \/ WindowsStep
    PROVE  UpdateGoesOn
<1>1. ASSUME NEW step, goto(step), StepsAhead[step] < StepsAhead[pc]
      PROVE  UpdateGoesOn
  BY <1>1 DEF goto, UpdateGoesOn
<1>2. HandOff => pc = "install" /\ goto("handoff")
  BY DEF HandOff
<1>3. UnpackBundle => pc = "install" /\ goto("helper")
  BY DEF UnpackBundle
<1>4. HelperInstalls => pc \in {"install", "helper"} /\ goto("installed")
  BY DEF HelperInstalls, helperRuns
<1>5. HelperFails \/ InstallRefused => pc \in {"install", "helper"} /\ goto("failed")
  BY DEF HelperFails, helperRuns, InstallRefused
<1>6. UnpackArchive => pc = "install" /\ goto("stop")
  BY DEF UnpackArchive
<1>7. StopService => pc = "stop" /\ goto("preserve")
  BY DEF StopService
<1>8. Preserve => pc = "preserve" /\ goto("replace")
  BY DEF Preserve
<1>9. Replace => pc = "replace" /\ goto("start")
  BY DEF Replace
<1>10. StartService => pc = "start" /\ goto("installed")
  BY DEF StartService
<1>11. StopFails \/ PreserveFails \/ ReplaceFails \/ StartFails =>
           pc \in {"stop", "preserve", "replace", "start"} /\ goto("failed")
  BY DEF StopFails, PreserveFails, ReplaceFails, StartFails
<1> QED
  BY <1>1, <1>2, <1>3, <1>4, <1>5, <1>6, <1>7, <1>8, <1>9, <1>10, <1>11 DEF WindowsStep, StepsAhead

\* No upload, failure or answer of the service manager makes an update longer:
\* every step of it leaves less to do, so with requests and commands that end it
\* ends.
THEOREM UpdatesOnlyGoOn ==
    EngineSpec =>
        [][pc \notin Resting /\ <<pc, wanted, nested>>' # <<pc, wanted, nested>> => UpdateGoesOn]_engineVars
<1>1. EngineInv /\ [EngineNext]_engineVars =>
          [pc \notin Resting /\ <<pc, wanted, nested>>' # <<pc, wanted, nested>> => UpdateGoesOn]_engineVars
  <2> SUFFICES ASSUME EngineInv, EngineNext, pc \notin Resting,
                      <<pc, wanted, nested>>' # <<pc, wanted, nested>>
               PROVE  UpdateGoesOn
    OBVIOUS
  <2>1. ~(Begin \/ ServiceStops \/ PublishStep)
    BY DEF Begin, ServiceStops, PublishStep, Publish, releaseVars, foundVars
  <2>2. CASE Kill
    <3>1. StepsAhead[pc] > 0
      BY DEF EngineInv, PcOK, Resting, FetchPc, InstallPc, StepsAhead
    <3> QED
      BY <2>2, <3>1 DEF Kill, UpdateGoesOn, StepsAhead
  <2> QED
    BY <2>1, <2>2, RequestsLeadOn, ExecutorLeadsOn DEF EngineNext, EngineStep
<1> QED
  BY <1>1, EngineIsSound, PTL DEF EngineSpec
=============================================================================
