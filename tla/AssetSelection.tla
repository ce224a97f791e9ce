---------------------------- MODULE AssetSelection ----------------------------
(***************************************************************************)
(* Which file of a release the notification dialog offers                  *)
(* (selectAssetForCurrentPlatform() in ReleaseInfo.h): one pass over the   *)
(* assets in the order GitHub lists them, a score for each, the first of   *)
(* the highest positive score wins.                                        *)
(*                                                                         *)
(* A file name is what the scores tell apart: its extension and the words  *)
(* it holds for an operating system and an architecture.                   *)
(***************************************************************************)
EXTENDS Integers, Sequences

CONSTANTS
    Os,       \* the operating systems, of {"windows", "macos", "linux"}
    Cpu,      \* QSysInfo::currentCpuArchitecture()
    Ext,      \* extensions of the files of a release
    OsWord,   \* what a name says of its operating system
    CpuWord,  \* what a name says of its architecture
    Lists     \* bound: the lists of files a release may have

Asset == [ext: Ext, os: OsWord, cpu: CpuWord]

ASSUME SelectionAssumption ==
    /\ Os \subseteq {"windows", "macos", "linux"}
    /\ Cpu \subseteq {"x86_64", "i386", "arm64", "arm"}
    /\ OsWord \subseteq {"none", "win", "win mingw", "darwin", "linux"}
    /\ CpuWord \subseteq {"none", "arm64", "amd64", "win64"}
    /\ Lists \subseteq Seq(Asset)

VARIABLES
    os, cpu,    \* the machine
    assets,     \* the files of the release
    seen,       \* how many of them the loop has passed
    best,       \* index of the best so far, 0 for nullptr
    bestScore

selectionVars == <<os, cpu, assets, seen, best, bestScore>>

Auxiliary == {".sha256", ".json"}

isAuxiliaryReleaseAsset(a) == a.ext \in Auxiliary

\* The extensions that count for an operating system, and for how much.
formatScore(a) ==
    CASE os = "windows" /\ a.ext = ".zip"    -> 50
      [] os = "windows" /\ a.ext = ".exe"    -> 45
      [] os = "windows" /\ a.ext = ".msi"    -> 40
      [] os = "macos" /\ a.ext = ".dmg"      -> 50
      [] os = "macos" /\ a.ext = ".pkg"      -> 45
      [] os = "linux" /\ a.ext = ".deb"      -> 50
      [] os = "linux" /\ a.ext = ".appimage" -> 45
      [] os = "linux" /\ a.ext = ".tar.gz"   -> 30
      [] OTHER -> 0

isNative(a) == formatScore(a) > 0

\* contains("win"): "darwin" and "win64" hold it too.
says(a, word) ==
    CASE word = "win"    -> a.os \in {"win", "win mingw", "darwin"} \/ a.cpu = "win64"
      [] word = "mingw"  -> a.os = "win mingw"
      [] word = "darwin" -> a.os = "darwin"
      [] word = "linux"  -> a.os = "linux"

wordScore(a) ==
    CASE os = "windows" -> (IF says(a, "win") THEN 20 ELSE 0) + (IF says(a, "mingw") THEN 10 ELSE 0)
      [] os = "macos"   -> IF says(a, "darwin") THEN 20 ELSE 0
      [] os = "linux"   -> IF says(a, "linux") THEN 15 ELSE 0

wantArm == cpu \in {"arm64", "arm"}
assetArm(a) == a.cpu = "arm64"
assetX86(a) == a.cpu \in {"amd64", "win64"}

ownCpu(a)   == IF wantArm THEN assetArm(a) ELSE assetX86(a)
otherCpu(a) == IF wantArm THEN assetX86(a) ELSE assetArm(a)

cpuScoreNoPenalty(a) == IF ownCpu(a) THEN 25 ELSE 0         \* mutant
cpuScore(a) == (IF ownCpu(a) THEN 25 ELSE 0) - (IF otherCpu(a) THEN 40 ELSE 0)

score(a) == formatScore(a) + wordScore(a) + cpuScore(a)

-----------------------------------------------------------------------------
\* Between two calls there is no list.
reset(list) == assets' = list /\ seen' = 0 /\ best' = 0 /\ bestScore' = 0 /\ UNCHANGED <<os, cpu>>

SelectionInit ==
    /\ os \in Os /\ cpu \in Cpu
    /\ assets = <<>> /\ seen = 0 /\ best = 0 /\ bestScore = 0

Call(list) == assets = <<>> /\ reset(list)

Return == seen = Len(assets) /\ reset(<<>>)

\* One turn of the loop.
isBetterOrFirst(a) == best = 0 \/ score(a) > bestScore      \* mutant
isBetter(a) == score(a) > bestScore

Consider ==
    /\ seen < Len(assets)
    /\ seen' = seen + 1
    /\ LET a == assets[seen + 1]
       IN IF ~isAuxiliaryReleaseAsset(a) /\ isBetter(a)
          THEN best' = seen + 1 /\ bestScore' = score(a)
          ELSE UNCHANGED <<best, bestScore>>
    /\ UNCHANGED <<os, cpu, assets>>

SelectionNext == (\E list \in Lists : Call(list)) \/ Consider \/ Return

SelectionSpec == SelectionInit /\ [][SelectionNext]_selectionVars

-----------------------------------------------------------------------------
\* No best without a positive score: "un score nul signifie aucun indice franc".
SelectionTypeOK ==
    /\ os \in Os /\ cpu \in Cpu
    /\ seen \in 0..Len(assets) /\ best \in 0..seen
    /\ bestScore \in Nat /\ (best = 0 <=> bestScore = 0)

\* The points add up: whenever the release has a native file that names this
\* architecture, the offer is native and does not name the other one, whatever
\* else the names say and in whatever order they come.
OwnMachineWins ==
    (\E i \in 1..seen : isNative(assets[i]) /\ ownCpu(assets[i])) =>
        best # 0 /\ isNative(assets[best]) /\ ~otherCpu(assets[best])

-----------------------------------------------------------------------------
(* What a comment says and the code does not do.                           *)

\* "forte penalite sinon, pour ne jamais proposer un arm64 a une machine x86_64
\* (et inversement)" (include/morfupdate/ReleaseInfo.h): the file that is found
\* does not name the other architecture, whatever the release holds.
NeverForeign == seen = Len(assets) /\ best # 0 => ~otherCpu(assets[best])
=============================================================================
