---------------------------- MODULE MCReleaseCheck ----------------------------
(***************************************************************************)
(* ReleaseCheck for TLC: tags on both sides of every comparison, and the   *)
(* files whose scores come closest to each other.                          *)
(***************************************************************************)
EXTENDS ReleaseCheck, SequencesExt

Old == [fields |-> <<1, 9>>, pre |-> 0]
Rc == [fields |-> <<1, 10, 0>>, pre |-> 1]
Next110 == [fields |-> <<1, 10, 0>>, pre |-> 0]
NoNumber == [fields |-> <<Junk>>, pre |-> 0]

Tags == {Old, Rc, Next110, NoNumber}

\* A pre-release, its stable version, a draft of that, and a tag that is no
\* version; older versions are the ones that run.
Published ==
    {[tag |-> Rc, draft |-> FALSE, prerelease |-> TRUE],
     [tag |-> Next110, draft |-> FALSE, prerelease |-> FALSE],
     [tag |-> Next110, draft |-> TRUE, prerelease |-> FALSE],
     [tag |-> NoNumber, draft |-> FALSE, prerelease |-> FALSE]}

TwoOs == {"windows", "linux"}
BothCpus == {"x86_64", "arm64"}
SomeExt == {".zip", ".msi", ".deb", ".sha256"}
SomeOsWords == {"none", "win mingw", "linux"}
BothCpuWords == {"none", "arm64", "amd64"}

File(ext, word, arch) == [ext |-> ext, os |-> word, cpu |-> arch]

\* The highest score of a file for another processor against the lowest of a
\* native one, and an auxiliary file with more points than a package.
Files ==
    {File(".zip", "win mingw", "arm64"), File(".msi", "none", "amd64"),
     File(".deb", "linux", "arm64"), File(".sha256", "linux", "amd64")}

FileLists == BoundedSeq(Files, 2)
=============================================================================
