-------------------------- MODULE ReleaseValidation --------------------------
(***************************************************************************)
(* How the engine gets a verified file (run() and stageVerifiedDeb() in    *)
(* src/UpdateEngine.cpp, src/ReleaseValidator.cpp): the release, its tag,   *)
(* its manifest, the one artifact for this platform, the download, and the *)
(* SHA-256 of what was saved. Each is a request of its own, and the release *)
(* may be published again between any two of them.                         *)
(*                                                                         *)
(* A file is what it was built from; its SHA-256 is the file itself.       *)
(***************************************************************************)
EXTENDS Integers, Sequences

CONSTANTS
    Version, Commit, Platform,
    Name,        \* names of the files of a release
    Manifest,    \* manifests the publisher may upload
    None,        \* no tag, no manifest, no file
    Damaged,     \* a download that is not the file
    MaxNest,     \* bound: annotated tags that name annotated tags
    MaxPublish   \* bound: changes of the releases

Format == {"deb", "zip", "source-bundle"}
File == [version: Version, commit: Commit, platform: Platform, format: Format]
ManifestFile == "manifest.json"

\* An entry of "artifacts": wellFormed when it has a name, a format and a
\* SHA-256 of 64 hexadecimal digits.
Artifact == [name: Name, sha256: File, commit: Commit, platform: Platform,
             format: Format, wellFormed: BOOLEAN]

\* ours: schema_version, project and source.repository are those of the target.
\* A manifest tells the truth of the files it lists.
ASSUME ReleaseAssumption ==
    /\ MaxNest \in Nat /\ MaxPublish \in Nat
    /\ None \notin Commit /\ None \notin Manifest /\ None \notin File
    /\ Damaged \notin File
    /\ ManifestFile \notin Name
    /\ \A m \in Manifest :
          /\ m \in [ours: BOOLEAN, version: Version, commit: Commit,
                    install: {"package", "source-bundle"}, artifacts: Seq(Artifact)]
          /\ \A i \in DOMAIN m.artifacts :
                LET a == m.artifacts[i] IN
                a.wellFormed =>
                    a.sha256 = [version |-> m.version, commit |-> a.commit,
                                platform |-> a.platform, format |-> a.format]

\* The files there are to publish.
Built == UNION {{m.artifacts[i].sha256 : i \in DOMAIN m.artifacts} : m \in Manifest}

VARIABLES
    tag,        \* per version: the commit its tag leads to
    nest,       \* per version: annotated tags on the way to it
    manifest,   \* per version: the manifest.json of its release
    files,      \* per version and name: a file of its release
    published,  \* history: how often the releases changed
    named,      \* history: per version, the commits its tag has led to
    platform,   \* of the operation
    self,       \* the target says self: true
    wanted,     \* versions still to fetch, the current one first
    pc,         \* the step of the engine
    listed,     \* names in the release that was read
    nested,     \* annotated tags left to follow
    commit,     \* the tagged commit
    asset,      \* ValidatedAsset
    strategy,   \* install.type of the manifest
    saved,      \* the file in the download directory
    staged      \* verified files, with the version each was fetched for

remoteVars == <<tag, nest, manifest, files, published, named>>
targetVars == <<platform, self>>
foundVars == <<listed, nested, commit, asset, strategy, saved>>
releaseVars == <<remoteVars, targetVars, foundVars, wanted, pc, staged>>

version == Head(wanted)

-----------------------------------------------------------------------------
(* The publisher (external): a release is changed one upload at a time.    *)

change == published < MaxPublish /\ published' = published + 1

MoveTag(v) ==
    /\ change
    /\ \E c \in Commit, n \in 0..MaxNest :
          /\ tag' = [tag EXCEPT ![v] = c]
          /\ nest' = [nest EXCEPT ![v] = n]
          /\ named' = [named EXCEPT ![v] = @ \cup {c}]
    /\ UNCHANGED <<manifest, files>>

UploadManifest(v) ==
    /\ change
    /\ \E m \in Manifest : manifest' = [manifest EXCEPT ![v] = m]
    /\ UNCHANGED <<tag, nest, files, named>>

UploadFile(v) ==
    /\ change
    /\ \E n \in Name, f \in Built \cup {None} : files' = [files EXCEPT ![v][n] = f]
    /\ UNCHANGED <<tag, nest, manifest, named>>

Publish ==
    /\ \E v \in Version : MoveTag(v) \/ UploadManifest(v) \/ UploadFile(v)
    /\ UNCHANGED <<targetVars, foundVars, wanted, pc, staged>>

-----------------------------------------------------------------------------
(* ReleaseValidator::selectAsset.                                          *)

matching(m) == {i \in DOMAIN m.artifacts : m.artifacts[i].platform = platform}

\* Mutant: the commits of the manifest are not compared with the tag.
selectsAnyCommit(m, a) ==
    /\ m.ours /\ m.version = version
    /\ \E i \in DOMAIN m.artifacts : matching(m) = {i} /\ a = m.artifacts[i]
    /\ a.wellFormed

\* Exactly one artifact for the platform, built from the tagged commit.
selects(m, a) ==
    /\ m.ours /\ m.version = version /\ m.commit = commit
    /\ \E i \in DOMAIN m.artifacts : matching(m) = {i} /\ a = m.artifacts[i]
    /\ a.wellFormed /\ a.commit = commit

isWindows == platform = "windows-x86_64"

expectedFormat(m) ==
    IF self THEN "deb"
    ELSE IF m.install = "source-bundle" THEN "source-bundle"
    ELSE IF isWindows THEN "zip" ELSE "deb"

-----------------------------------------------------------------------------
(* The requests, each with what is decided before the next one.            *)

FetchPc == {"release", "ref", "tag", "asset", "verify"}

ReadRelease ==
    /\ pc = "release"
    /\ listed' = {n \in Name : files[version][n] # None}
                    \cup (IF manifest[version] # None THEN {ManifestFile} ELSE {})
    /\ pc' = "ref"
    /\ UNCHANGED <<wanted, nested, commit, asset, strategy, saved, staged>>

\* taggedCommit(): git/ref/tags/v<version>. What it names does not change.
ReadRef ==
    /\ pc = "ref"
    /\ tag[version] # None
    /\ commit' = tag[version] /\ nested' = nest[version]
    /\ pc' = "tag"
    /\ UNCHANGED <<wanted, listed, asset, strategy, saved, staged>>

\* Mutant: the loop follows the commit, too.
FollowTagOnceMore ==
    /\ pc = "tag" /\ nested >= 0
    /\ nested' = nested - 1
    /\ UNCHANGED <<pc, wanted, listed, commit, asset, strategy, saved, staged>>

\* git/tags/<sha> for every annotated tag on the way.
FollowTag ==
    /\ pc = "tag" /\ nested > 0
    /\ nested' = nested - 1
    /\ UNCHANGED <<pc, wanted, listed, commit, asset, strategy, saved, staged>>

\* manifest.json of the listed release, as it is now, and all that is checked
\* before the next request: repository, artifact, format, presence.
ReadManifest ==
    /\ pc = "tag" /\ nested = 0
    /\ ManifestFile \in listed
    /\ manifest[version] # None
    /\ \E i \in DOMAIN manifest[version].artifacts :
          LET a == manifest[version].artifacts[i] IN
          /\ selects(manifest[version], a)
          /\ a.format = expectedFormat(manifest[version])
          /\ a.name \in listed
          /\ asset' = a
    /\ strategy' = manifest[version].install
    /\ pc' = "asset"
    /\ UNCHANGED <<wanted, listed, nested, commit, saved, staged>>

\* The download, saved under the name of the asset.
ReadAsset ==
    /\ pc = "asset"
    /\ saved' \in {files[version][asset.name], Damaged} \ {None}
    /\ pc' = "verify"
    /\ UNCHANGED <<wanted, listed, nested, commit, asset, strategy, staged>>

checksumMatches == saved = asset.sha256

\* The file is verified; a self-update then fetches the running version.
Verify ==
    /\ pc = "verify"
    /\ checksumMatches
    /\ staged' = Append(staged, [version |-> version, file |-> saved])
    /\ wanted' = Tail(wanted)
    /\ pc' = IF Tail(wanted) = <<>> THEN "install" ELSE "release"
    /\ UNCHANGED foundVars

\* Mutant: a file that is refused is downloaded again, and again.
FetchFailsOrRetries ==
    /\ pc \in FetchPc
    /\ pc' = IF pc = "verify" THEN "asset" ELSE "failed"
    /\ UNCHANGED <<foundVars, wanted, staged>>

\* A request fails (no network, an error of the API, its 30 s are over), the
\* disk refuses, or what was read is refused.
FetchFails ==
    /\ pc \in FetchPc
    /\ pc' = "failed"
    /\ UNCHANGED <<foundVars, wanted, staged>>

Fetch ==
    /\ \/ ReadRelease \/ ReadRef \/ FollowTag \/ ReadManifest \/ ReadAsset \/ Verify
       \/ FetchFails
    /\ UNCHANGED <<remoteVars, targetVars>>

=============================================================================
