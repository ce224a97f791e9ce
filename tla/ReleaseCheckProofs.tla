-------------------------- MODULE ReleaseCheckProofs --------------------------
(***************************************************************************)
(* The choice of a file, for every list of files on every machine, and the *)
(* checks of an application, for any number of them, whatever is published *)
(* and in whatever order the servers answer.                               *)
(***************************************************************************)
EXTENDS ReleaseCheck, TLAPS

-----------------------------------------------------------------------------
\* The pass over the files of a release.

\* The machine and the list are what the loop takes them for.
ListOK ==
    /\ os \in Os /\ cpu \in Cpu /\ assets \in Seq(Asset)
    /\ seen \in 0..Len(assets)

\* A candidate has a positive score and is no auxiliary file.
IsCandidate(i) ==
    i \in 1..seen /\ ~isAuxiliaryReleaseAsset(assets[i]) /\ score(assets[i]) > 0

\* The inductive invariant: bestScore is the score of the best, which no
\* candidate passed so far beats.
BestInv ==
    /\ ListOK
    /\ bestScore \in Nat /\ best \in 0..seen
    /\ best = 0 => bestScore = 0
    /\ best # 0 => IsCandidate(best) /\ bestScore = score(assets[best])
    /\ \A i \in 1..seen : IsCandidate(i) => score(assets[i]) <= bestScore

\* A score is a whole number, whatever the file.
LEMMA ScoreIsInt ==
    ASSUME os \in Os, NEW a \in Asset
    PROVE  score(a) \in Int
<1>1. os \in {"windows", "macos", "linux"}
  BY SelectionAssumption
<1>2. formatScore(a) \in Int
  BY DEF formatScore
<1>3. wordScore(a) \in Int
  BY <1>1 DEF wordScore
<1>4. cpuScore(a) \in Int
  BY DEF cpuScore
<1> QED
  BY <1>2, <1>3, <1>4 DEF score

\* On the same machine the same file has the same score after a step.
LEMMA ScoreStays ==
    ASSUME UNCHANGED <<os, cpu, assets>>, NEW i
    PROVE  /\ score(assets[i])' = score(assets[i])
           /\ isAuxiliaryReleaseAsset(assets[i])' = isAuxiliaryReleaseAsset(assets[i])
<1>1. formatScore(assets[i])' = formatScore(assets[i])
  BY DEF formatScore
<1>2. wordScore(assets[i])' = wordScore(assets[i])
  BY DEF wordScore, says
<1>3. cpuScore(assets[i])' = cpuScore(assets[i])
  BY DEF cpuScore, ownCpu, otherCpu, wantArm, assetArm, assetX86
<1> QED
  BY <1>1, <1>2, <1>3 DEF score, isAuxiliaryReleaseAsset

\* Nothing has been passed before the first call.
LEMMA BestInit == SelectionInit => BestInv
BY DEF SelectionInit, BestInv, ListOK, IsCandidate

\* A call starts with an empty pass.
LEMMA BestReset ==
    ASSUME BestInv, NEW list \in Seq(Asset), reset(list)
    PROVE  BestInv'
BY DEF reset, BestInv, ListOK, IsCandidate

\* One turn keeps the best of the files passed so far.
LEMMA BestConsider ==
    ASSUME BestInv, Consider
    PROVE  BestInv'
<1> USE DEF BestInv, ListOK
<1>0. PICK n \in 1..Len(assets) : n = seen + 1
  BY DEF Consider
<1>1. /\ UNCHANGED <<os, cpu, assets>> /\ seen' = n
      /\ n = seen + 1 /\ assets[n] \in Asset
  BY <1>0 DEF Consider
<1>2. ListOK'
  BY <1>1
<1>3. \A i : i \in 1..seen' => i \in 1..seen \/ i = n
  BY <1>1
<1>4. \A i \in 1..seen : assets[i] \in Asset /\ score(assets[i]) \in Int
  BY ScoreIsInt
<1>5. score(assets[n]) \in Int
  BY <1>1, ScoreIsInt
<1>6. \A i \in 1..seen : IsCandidate(i)' <=> IsCandidate(i)
  BY <1>1, ScoreStays DEF IsCandidate
<1>7. IsCandidate(n)' <=> ~isAuxiliaryReleaseAsset(assets[n]) /\ score(assets[n]) > 0
  BY <1>1, ScoreStays DEF IsCandidate
<1>8. \A i : score(assets[i])' = score(assets[i])
  BY <1>1, ScoreStays
<1>9. CASE ~isAuxiliaryReleaseAsset(assets[n]) /\ isBetter(assets[n])
  <2>1. best' = n /\ bestScore' = score(assets[n]) /\ score(assets[n]) > bestScore
    BY <1>1, <1>9 DEF Consider, isBetter
  <2>2. IsCandidate(n)' /\ bestScore' \in Nat
    BY <1>5, <1>7, <1>9, <2>1
  <2>3. \A i \in 1..seen' : IsCandidate(i)' => score(assets[i])' <= bestScore'
    BY <1>3, <1>4, <1>5, <1>6, <1>8, <2>1
  <2> QED
    BY <1>1, <1>2, <1>8, <2>1, <2>2, <2>3
<1>10. CASE ~(~isAuxiliaryReleaseAsset(assets[n]) /\ isBetter(assets[n]))
  <2>1. UNCHANGED <<best, bestScore>>
    BY <1>1, <1>10 DEF Consider
  <2>2. IsCandidate(n)' => score(assets[n]) <= bestScore
    BY <1>5, <1>7, <1>10 DEF isBetter
  <2>3. \A i \in 1..seen' : IsCandidate(i)' => score(assets[i])' <= bestScore'
    BY <1>1, <1>3, <1>6, <1>8, <2>1, <2>2
  <2>4. best' # 0 => IsCandidate(best)' /\ bestScore' = score(assets[best])'
    BY <1>1, <1>6, <1>8, <2>1, ScoreStays DEF IsCandidate
  <2> QED
    BY <1>1, <1>2, <2>1, <2>3, <2>4
<1> QED
  BY <1>9, <1>10

\* BestInv is inductive.
LEMMA BestStep == BestInv /\ [SelectionNext]_selectionVars => BestInv'
<1> SUFFICES ASSUME BestInv, [SelectionNext]_selectionVars PROVE BestInv'
  OBVIOUS
<1>1. CASE \E list \in Lists : Call(list)
  <2>1. PICK list \in Lists : reset(list)
    BY <1>1 DEF Call
  <2> QED
    BY <2>1, BestReset, SelectionAssumption
<1>2. CASE Return
  <2>1. reset(<<>>) /\ <<>> \in Seq(Asset)
    BY <1>2 DEF Return
  <2> QED
    BY <2>1, BestReset
<1>3. CASE Consider
  BY <1>3, BestConsider
<1>4. CASE UNCHANGED selectionVars
  <2>1. UNCHANGED <<os, cpu, assets, seen, best, bestScore>>
    BY <1>4 DEF selectionVars
  <2>2. \A i : IsCandidate(i)' <=> IsCandidate(i)
    BY <2>1, ScoreStays DEF IsCandidate
  <2>3. \A i : score(assets[i])' = score(assets[i])
    BY <2>1, ScoreStays
  <2> QED
    BY <2>1, <2>2, <2>3 DEF BestInv, ListOK, IsCandidate
<1> QED
  BY <1>1, <1>2, <1>3, <1>4 DEF SelectionNext

\* The invariant gives the types of the pass.
LEMMA BestIsTyped == BestInv => SelectionTypeOK
BY DEF BestInv, ListOK, IsCandidate, SelectionTypeOK

\* A native file of the machine's architecture beats every file that is not
\* native, and every file for another architecture.
LEMMA OwnNativeBeats ==
    ASSUME os \in Os, NEW a \in Asset, NEW b \in Asset,
           isNative(a), ownCpu(a), ~isNative(b) \/ otherCpu(b)
    PROVE  score(a) > 0 /\ score(a) > score(b)
<1>1. os \in {"windows", "macos", "linux"}
  BY SelectionAssumption
<1>2. formatScore(b) \in Int /\ formatScore(b) >= 0 /\ formatScore(b) <= 50
  BY DEF formatScore
<1>3. cpuScore(a) = 25 /\ cpuScore(b) \in {-40, -15, 0, 25}
  BY DEF cpuScore, ownCpu, otherCpu, wantArm, assetArm, assetX86, Asset
<1>4. otherCpu(b) => cpuScore(b) = -40
  BY DEF cpuScore, ownCpu, otherCpu, wantArm, assetArm, assetX86, Asset
<1>5. CASE os = "windows"
  <2>1. formatScore(a) \in {40, 45, 50}
    BY <1>5 DEF isNative, formatScore
  <2>2. wordScore(a) \in {0, 10, 20, 30} /\ wordScore(b) \in {0, 10, 20, 30}
    BY <1>5 DEF wordScore
  <2> QED
    BY <1>2, <1>3, <1>4, <2>1, <2>2 DEF score, isNative
<1>6. CASE os = "macos"
  <2>1. formatScore(a) \in {45, 50}
    BY <1>6 DEF isNative, formatScore
  <2>2. wordScore(a) \in {0, 20} /\ wordScore(b) \in {0, 20}
    BY <1>6 DEF wordScore
  <2> QED
    BY <1>2, <1>3, <1>4, <2>1, <2>2 DEF score, isNative
<1>7. CASE os = "linux"
  <2>1. formatScore(a) \in {30, 45, 50}
    BY <1>7 DEF isNative, formatScore
  <2>2. wordScore(a) \in {0, 15} /\ wordScore(b) \in {0, 15}
    BY <1>7 DEF wordScore
  <2> QED
    BY <1>2, <1>3, <1>4, <2>1, <2>2 DEF score, isNative
<1> QED
  BY <1>1, <1>5, <1>6, <1>7

\* A native file is no auxiliary one.
LEMMA NativeIsNoAuxiliary ==
    ASSUME NEW a, isNative(a)
    PROVE  ~isAuxiliaryReleaseAsset(a)
BY DEF isNative, formatScore, isAuxiliaryReleaseAsset, Auxiliary

\* The machine's own package wins whenever the list has one.
LEMMA BestIsOwn == BestInv => OwnMachineWins
<1> SUFFICES ASSUME BestInv, NEW i \in 1..seen, isNative(assets[i]), ownCpu(assets[i])
             PROVE  best # 0 /\ isNative(assets[best]) /\ ~otherCpu(assets[best])
  BY DEF OwnMachineWins
<1> USE DEF BestInv, ListOK
<1>1. \A j \in 1..seen : assets[j] \in Asset /\ score(assets[j]) \in Int
  BY ScoreIsInt
<1>2. ASSUME NEW j \in 1..seen, ~isNative(assets[j]) \/ otherCpu(assets[j])
      PROVE  score(assets[i]) > 0 /\ score(assets[i]) > score(assets[j])
  BY <1>1, <1>2, OwnNativeBeats
<1>3. score(assets[i]) > 0
  <2>1. CASE otherCpu(assets[i])
    BY <1>2, <2>1
  <2>2. CASE ~otherCpu(assets[i])
    <3>1. cpuScore(assets[i]) = 25
      BY <2>2 DEF cpuScore
    <3>2. wordScore(assets[i]) \in {0, 10, 15, 20, 30}
      <4>1. os \in {"windows", "macos", "linux"}
        BY SelectionAssumption
      <4> QED
        BY <4>1 DEF wordScore
    <3>3. formatScore(assets[i]) \in {30, 40, 45, 50}
      BY DEF isNative, formatScore
    <3> QED
      BY <3>1, <3>2, <3>3 DEF score
  <2> QED
    BY <2>1, <2>2
<1>4. IsCandidate(i)
  BY <1>3, NativeIsNoAuxiliary DEF IsCandidate
<1>5. best \in 1..seen /\ score(assets[i]) <= score(assets[best])
  BY <1>1, <1>3, <1>4
<1> QED
  BY <1>1, <1>2, <1>5

\* What the loop has found is the best of what it has passed, whatever the files
\* and their order.
THEOREM PassIsSound == SelectionSpec => []BestInv
<1>1. SelectionInit => BestInv
  BY BestInit
<1>2. BestInv /\ [SelectionNext]_selectionVars => BestInv'
  BY BestStep
<1> QED
  BY <1>1, <1>2, PTL DEF SelectionSpec

-----------------------------------------------------------------------------
\* The checks around the pass.

Offer == {"download", "page"}

isNewTag(tag) == isNewer(parse(tag), parse(current))

\* A release with this tag is listed that is no draft.
IsListed(list, tag) == \E i \in DOMAIN list : list[i].tag = tag /\ ~list[i].draft

Answer == {Failure} \cup {Found(r) : r \in Release}

VarsOK ==
    /\ releases \in Seq(Release) /\ current \in Tag
    /\ step \in [Check -> {"none", "asked", "replied", "lost", "ended"}]
    /\ told \in [Check -> {"nothing", "failed", "up to date", "page", "download"}]
    /\ reply \in [Check -> Answer]
    /\ building \in Check \cup {NoCheck}

\* What is true of one check: only one that has ended has shown anything; an
\* offer, on the screen or being built, is newer than the version that runs; an
\* answer is a listed release; and the boxes are the ones its caller asked for.
CheckOK(c) ==
    /\ told[c] # "nothing" => step[c] = "ended"
    /\ (told[c] \in Offer \/ building = c) => isUsable(reply[c]) /\ isNewTag(reply[c].tag)
    /\ building = c => step[c] = "replied"
    /\ reply[c].kind = "found" => IsListed(releases, reply[c].tag)
    /\ step[c] = "ended" /\ c \in Silent => told[c] \in Offer \cup {"nothing"}
    /\ step[c] = "ended" /\ c \notin Silent => told[c] # "nothing"
    /\ told[c] = "up to date" => isUsable(reply[c]) /\ ~isNewTag(reply[c].tag)

\* The inductive invariant.
CheckInv == VarsOK /\ \A c \in Check : CheckOK(c)

\* The texts compare() works on.
LEMMA FoundIsText ==
    ASSUME VarsOK, NEW c \in Check, reply[c].kind = "found"
    PROVE  current \in Text /\ reply[c].tag \in Tag /\ reply[c].tag \in Text
<1>0. reply[c] \in Answer
  BY DEF VarsOK
<1>1. PICK r \in Release : reply[c] = Found(r)
  BY <1>0 DEF Answer, Failure
<1>2. reply[c].tag = r.tag /\ r.tag \in Tag
  BY <1>1, CheckAssumption DEF Found
<1> QED
  BY <1>2, CheckAssumption DEF VarsOK

-----------------------------------------------------------------------------
\* The composition runs AssetSelection: each of its steps is a step of the pass
\* or leaves it alone.
LEMMA SelectionStep == [CheckNext]_notifyVars => [SelectionNext]_selectionVars
BY DEF CheckNext, notifyVars, selectionVars, SelectionNext, Publish, GuiNext, PassAssets,
       OpenDialog, TellNoUpdate, BuildDialog, CheckAndNotify, ServerAnswers, ServerIsSilent,
       Upgrade

\* Before the first check nothing has been asked or shown.
LEMMA CheckInvInit == CheckInit => CheckInv
BY CheckAssumption
   DEF CheckInit, CheckInv, VarsOK, CheckOK, Offer, Failure, Answer

\* A version of a text has whole numbers.
LEMMA ParseIsNumbers ==
    ASSUME NEW text \in Text
    PROVE  LET v == parse(text)
           IN v.major \in Int /\ v.minor \in Int /\ v.patch \in Int /\ v.pre \in Nat
<1>1. \A i : toInt(text, i) \in Int
  BY DEF Text, toInt, isNumber, Junk
<1>2. text.pre \in Nat
  BY DEF Text
<1> QED
  BY <1>1, <1>2 DEF parse

\* compare() orders versions field by field, a suffix below none: the order of Key.
LEMMA NewerIsNotOlder ==
    ASSUME NEW s \in Text, NEW t \in Text, isNewer(parse(t), parse(s))
    PROVE  IsOlder(parse(s), parse(t))
<1> DEFINE v == parse(s)
           w == parse(t)
<1>1. /\ v.major \in Int /\ v.minor \in Int /\ v.patch \in Int /\ v.pre \in Nat
      /\ w.major \in Int /\ w.minor \in Int /\ w.patch \in Int /\ w.pre \in Nat
  BY ParseIsNumbers
<1>2. compare(w, v) > 0
  BY DEF isNewer
<1> HIDE DEF v, w
<1>3. \/ v.major < w.major
      \/ v.major = w.major /\ v.minor < w.minor
      \/ v.major = w.major /\ v.minor = w.minor /\ v.patch < w.patch
      \/ /\ v.major = w.major /\ v.minor = w.minor /\ v.patch = w.patch
         /\ compareSuffix(w, v) > 0
  BY <1>1, <1>2 DEF compare, sign
<1>4. compareSuffix(w, v) > 0 => w.pre # v.pre /\ (w.pre = 0 \/ (v.pre # 0 /\ v.pre < w.pre))
  BY <1>1 DEF compareSuffix
<1>5. /\ Key(v)[1] = v.major /\ Key(v)[2] = v.minor /\ Key(v)[3] = v.patch
      /\ Key(v)[4] = (IF v.pre = 0 THEN 1 ELSE 0) /\ Key(v)[5] = v.pre
      /\ Key(w)[1] = w.major /\ Key(w)[2] = w.minor /\ Key(w)[3] = w.patch
      /\ Key(w)[4] = (IF w.pre = 0 THEN 1 ELSE 0) /\ Key(w)[5] = w.pre
  BY DEF Key
<1>6. \E i \in 1..5 : Key(v)[i] < Key(w)[i] /\ \A j \in 1..(i - 1) : Key(v)[j] = Key(w)[j]
  <2>1. CASE v.major < w.major
    BY <1>5, <2>1
  <2>2. CASE v.major = w.major /\ v.minor < w.minor
    <3>1. 2 \in 1..5 /\ \A j \in 1..(2 - 1) : j = 1
      OBVIOUS
    <3> QED
      BY <1>5, <2>2, <3>1
  <2>3. CASE v.major = w.major /\ v.minor = w.minor /\ v.patch < w.patch
    <3>1. 3 \in 1..5 /\ \A j \in 1..(3 - 1) : j \in {1, 2}
      OBVIOUS
    <3> QED
      BY <1>5, <2>3, <3>1
  <2>4. CASE /\ v.major = w.major /\ v.minor = w.minor /\ v.patch = w.patch
             /\ compareSuffix(w, v) > 0
    <3>1. 4 \in 1..5 /\ \A j \in 1..(4 - 1) : j \in {1, 2, 3}
      OBVIOUS
    <3>2. 5 \in 1..5 /\ \A j \in 1..(5 - 1) : j \in {1, 2, 3, 4}
      OBVIOUS
    <3>3. CASE w.pre = 0
      <4>1. v.pre # 0
        BY <1>4, <2>4, <3>3
      <4> QED
        BY <1>5, <2>4, <3>1, <3>3, <4>1
    <3>4. CASE w.pre # 0
      <4>1. v.pre # 0 /\ v.pre < w.pre
        BY <1>4, <2>4, <3>4
      <4> QED
        BY <1>5, <2>4, <3>2, <3>4, <4>1
    <3> QED
      BY <3>3, <3>4
  <2> QED
    BY <1>3, <2>1, <2>2, <2>3, <2>4
<1> QED
  BY <1>6 DEF IsOlder, v, w

LEMMA OlderIsNewer ==
    ASSUME NEW s \in Text, NEW t \in Text, IsOlder(parse(s), parse(t))
    PROVE  isNewer(parse(t), parse(s))
<1> DEFINE v == parse(s)
           w == parse(t)
<1>1. /\ v.major \in Int /\ v.minor \in Int /\ v.patch \in Int /\ v.pre \in Nat
      /\ w.major \in Int /\ w.minor \in Int /\ w.patch \in Int /\ w.pre \in Nat
  BY ParseIsNumbers
<1>2. PICK i \in 1..5 : Key(v)[i] < Key(w)[i] /\ \A j \in 1..(i - 1) : Key(v)[j] = Key(w)[j]
  BY DEF IsOlder
<1> HIDE DEF v, w
<1>3. /\ Key(v)[1] = v.major /\ Key(v)[2] = v.minor /\ Key(v)[3] = v.patch
      /\ Key(v)[4] = (IF v.pre = 0 THEN 1 ELSE 0) /\ Key(v)[5] = v.pre
      /\ Key(w)[1] = w.major /\ Key(w)[2] = w.minor /\ Key(w)[3] = w.patch
      /\ Key(w)[4] = (IF w.pre = 0 THEN 1 ELSE 0) /\ Key(w)[5] = w.pre
  BY DEF Key
<1>4. \A j \in 1..5 : j < i => Key(v)[j] = Key(w)[j]
  BY <1>2
<1>5. compare(w, v) > 0
  <2>1. CASE i = 1
    BY <1>1, <1>2, <1>3, <2>1 DEF compare, sign
  <2>2. CASE i = 2
    <3>1. v.major = w.major /\ v.minor < w.minor
      BY <1>2, <1>3, <1>4, <2>2
    <3> QED
      BY <1>1, <3>1 DEF compare, sign
  <2>3. CASE i = 3
    <3>1. v.major = w.major /\ v.minor = w.minor /\ v.patch < w.patch
      BY <1>2, <1>3, <1>4, <2>3
    <3> QED
      BY <1>1, <3>1 DEF compare, sign
  <2>4. CASE i \in {4, 5}
    <3>1. v.major = w.major /\ v.minor = w.minor /\ v.patch = w.patch
      BY <1>3, <1>4, <2>4
    <3>2. compareSuffix(w, v) > 0
      <4>1. CASE i = 4
        <5>1. v.pre # 0 /\ w.pre = 0
          BY <1>2, <1>3, <4>1
        <5> QED
          BY <5>1 DEF compareSuffix
      <4>2. CASE i = 5
        <5>1. (v.pre = 0 <=> w.pre = 0) /\ v.pre < w.pre
          BY <1>2, <1>3, <1>4, <4>2
        <5> QED
          BY <1>1, <5>1 DEF compareSuffix
      <4> QED
        BY <2>4, <4>1, <4>2
    <3> QED
      BY <1>1, <3>1, <3>2 DEF compare
  <2> QED
    BY <2>1, <2>2, <2>3, <2>4
<1> QED
  BY <1>5 DEF isNewer, v, w

-----------------------------------------------------------------------------
\* A step that leaves a check and the version alone keeps what is true of it.
LEMMA AloneKeeps ==
    ASSUME NEW d \in Check, CheckOK(d), current' = current,
           step'[d] = step[d], told'[d] = told[d], reply'[d] = reply[d],
           building' = d => building = d,
           \A tag : IsListed(releases, tag) => IsListed(releases', tag)
    PROVE  CheckOK(d)'
<1>1. isUsable(reply[d])' <=> isUsable(reply[d])
  OBVIOUS
<1>2. isNewTag(reply[d].tag)' <=> isNewTag(reply[d].tag)
  BY DEF isNewTag
<1>3. IsListed(releases, reply[d].tag) => IsListed(releases, reply[d].tag)'
  OBVIOUS
<1> QED
  BY <1>1, <1>2, <1>3 DEF CheckOK

\* A new release moves the others down and takes none away.
LEMMA PublishKeeps == ASSUME CheckInv, Publish PROVE CheckInv'
<1>1. PICK r \in Release : releases' = <<r>> \o releases
  BY DEF Publish
<1>2. UNCHANGED <<current, step, told, reply, building>> /\ releases \in Seq(Release)
  BY DEF CheckInv, VarsOK, Publish
<1>3. releases' \in Seq(Release)
  BY <1>1, <1>2
<1>4. VarsOK'
  BY <1>2, <1>3 DEF CheckInv, VarsOK
<1>5. \A tag : IsListed(releases, tag) => IsListed(releases', tag)
  <2> SUFFICES ASSUME NEW tag, NEW i \in DOMAIN releases,
                      releases[i].tag = tag, ~releases[i].draft
               PROVE  IsListed(releases', tag)
    BY DEF IsListed
  <2>1. i + 1 \in DOMAIN releases' /\ releases'[i + 1] = releases[i]
    BY <1>1, <1>2
  <2> QED
    BY <2>1 DEF IsListed
<1>6. ASSUME NEW d \in Check PROVE CheckOK(d)'
  BY <1>2, <1>5, AloneKeeps DEF CheckInv
<1> QED
  BY <1>4, <1>6 DEF CheckInv

\* A check that starts has shown nothing, or its error.
LEMMA CheckAndNotifyKeeps ==
    ASSUME CheckInv, NEW c \in Check, CheckAndNotify(c) PROVE CheckInv'
<1>1. UNCHANGED <<releases, current, reply, building>> /\ building = NoCheck
  BY DEF CheckAndNotify, free
<1>2. VarsOK'
  BY DEF CheckAndNotify, ends, box, CheckInv, VarsOK
<1>3. VarsOK /\ CheckOK(c) /\ c # NoCheck
  BY CheckAssumption DEF CheckInv
<1>4. told[c] = "nothing"
  BY <1>3 DEF CheckOK, CheckAndNotify
<1>5. \/ step'[c] = "asked" /\ told'[c] = "nothing"
      \/ step'[c] = "ended" /\ told'[c] = box(c, "failed")
  BY <1>3, <1>4 DEF CheckAndNotify, ends, VarsOK
<1>6. CheckOK(c)'
  BY <1>1, <1>3, <1>5 DEF CheckOK, box, Offer
<1>7. ASSUME NEW d \in Check, d # c PROVE CheckOK(d)'
  <2>1. step'[d] = step[d] /\ told'[d] = told[d]
    BY <1>3, <1>7 DEF CheckAndNotify, ends, VarsOK
  <2> QED
    BY <1>1, <2>1, AloneKeeps DEF CheckInv
<1> QED
  BY <1>2, <1>6, <1>7 DEF CheckInv

\* What a server answers is listed when it answers, and stays so.
LEMMA ServerAnswersKeeps ==
    ASSUME CheckInv, NEW c \in Check, ServerAnswers(c) PROVE CheckInv'
<1>1. VarsOK /\ CheckOK(c)
  BY DEF CheckInv
<1>2. /\ UNCHANGED <<releases, current, told, building>> /\ step[c] = "asked"
      /\ step' = [step EXCEPT ![c] = "replied"]
  BY DEF ServerAnswers
<1>3. PICK a \in Answer :
         reply' = [reply EXCEPT ![c] = a] /\ (a.kind = "found" => IsListed(releases, a.tag))
  <2>1. CASE reply' = [reply EXCEPT ![c] = Failure]
    <3>1. Failure \in Answer /\ Failure.kind # "found"
      BY DEF Failure, Answer
    <3> QED
      BY <2>1, <3>1
  <2>2. CASE \E i \in DOMAIN releases :
               isFirst(i) /\ reply' = [reply EXCEPT ![c] = Found(releases[i])]
    <3>1. PICK i \in DOMAIN releases :
             isFirst(i) /\ reply' = [reply EXCEPT ![c] = Found(releases[i])]
      BY <2>2
    <3>2. Found(releases[i]) \in Answer
      <4>1. releases[i] \in Release
        <5>1. releases \in Seq(Release)
          BY <1>1 DEF VarsOK
        <5> QED
          BY <3>1, <5>1
      <4> QED
        BY <4>1 DEF Answer
    <3>3. Found(releases[i]).tag = releases[i].tag
      BY DEF Found
    <3>4. IsListed(releases, releases[i].tag)
      BY <3>1 DEF IsListed, isFirst, listed
    <3> QED
      BY <3>1, <3>2, <3>3, <3>4
  <2> QED
    BY <2>1, <2>2 DEF ServerAnswers
<1>4. VarsOK'
  BY <1>1, <1>2, <1>3 DEF VarsOK
<1>5. step'[c] = "replied" /\ reply'[c] = a /\ told[c] = "nothing" /\ building # c
  BY <1>1, <1>2, <1>3 DEF VarsOK, CheckOK
<1>6. CheckOK(c)'
  BY <1>2, <1>3, <1>5 DEF CheckOK, Offer
<1>7. ASSUME NEW d \in Check, d # c PROVE CheckOK(d)'
  <2>1. step'[d] = step[d] /\ reply'[d] = reply[d]
    BY <1>1, <1>2, <1>3, <1>7 DEF VarsOK
  <2> QED
    BY <1>2, <2>1, AloneKeeps DEF CheckInv
<1> QED
  BY <1>4, <1>6, <1>7 DEF CheckInv

\* A check without an answer has shown nothing.
LEMMA ServerIsSilentKeeps ==
    ASSUME CheckInv, NEW c \in Check, ServerIsSilent(c) PROVE CheckInv'
<1>1. VarsOK /\ CheckOK(c)
  BY DEF CheckInv
<1>2. /\ UNCHANGED <<releases, current, told, reply, building>> /\ step[c] = "asked"
      /\ step' = [step EXCEPT ![c] = "lost"]
  BY DEF ServerIsSilent
<1>3. VarsOK'
  BY <1>1, <1>2 DEF VarsOK
<1>4. step'[c] = "lost" /\ told[c] = "nothing" /\ building # c
  BY <1>1, <1>2 DEF VarsOK, CheckOK
<1>5. CheckOK(c)'
  BY <1>1, <1>2, <1>4 DEF CheckOK, Offer
<1>6. ASSUME NEW d \in Check, d # c PROVE CheckOK(d)'
  <2>1. step'[d] = step[d]
    BY <1>1, <1>2, <1>6 DEF VarsOK
  <2> QED
    BY <1>2, <2>1, AloneKeeps DEF CheckInv
<1> QED
  BY <1>3, <1>5, <1>6 DEF CheckInv

\* A box says what the answer was, or nothing.
LEMMA TellNoUpdateKeeps ==
    ASSUME CheckInv, NEW c \in Check, TellNoUpdate(c) PROVE CheckInv'
<1>1. VarsOK /\ CheckOK(c) /\ c # NoCheck
  BY CheckAssumption DEF CheckInv
<1>2. UNCHANGED <<releases, current, reply, building>> /\ building = NoCheck
  BY DEF TellNoUpdate, free
<1>3. PICK shown \in {"failed", "up to date"} :
         /\ ends(c, box(c, shown))
         /\ shown = "up to date" => isUsable(reply[c]) /\ ~isNewTag(reply[c].tag)
  BY DEF TellNoUpdate, isUpdate, isNewTag
<1>4. VarsOK'
  BY <1>1, <1>2, <1>3 DEF ends, box, VarsOK
<1>5. step'[c] = "ended" /\ told'[c] = box(c, shown)
  BY <1>1, <1>3 DEF ends, VarsOK
<1>6. /\ isUsable(reply[c])' <=> isUsable(reply[c])
      /\ isNewTag(reply[c].tag)' <=> isNewTag(reply[c].tag)
  BY <1>2 DEF isNewTag
<1>7. CheckOK(c)'
  BY <1>1, <1>2, <1>3, <1>5, <1>6 DEF CheckOK, box, Offer
<1>8. ASSUME NEW d \in Check, d # c PROVE CheckOK(d)'
  <2>1. step'[d] = step[d] /\ told'[d] = told[d]
    BY <1>1, <1>3, <1>8 DEF ends, VarsOK
  <2> QED
    BY <1>2, <2>1, AloneKeeps DEF CheckInv
<1> QED
  BY <1>4, <1>7, <1>8 DEF CheckInv

\* The dialog that is built is for a newer version.
LEMMA BuildDialogKeeps ==
    ASSUME CheckInv, NEW c \in Check, BuildDialog(c) PROVE CheckInv'
<1>1. VarsOK /\ CheckOK(c)
  BY DEF CheckInv
<1>2. /\ UNCHANGED <<releases, current, step, reply, told>> /\ building' = c
      /\ step[c] = "replied" /\ isUsable(reply[c]) /\ isNewTag(reply[c].tag)
  BY DEF BuildDialog, isUpdate, isNewTag
<1>3. VarsOK'
  BY <1>1, <1>2 DEF VarsOK
<1>4. isUsable(reply[c])' /\ isNewTag(reply[c].tag)'
  BY <1>2 DEF isNewTag
<1>5. CheckOK(c)'
  BY <1>1, <1>2, <1>4 DEF CheckOK, Offer
<1>6. ASSUME NEW d \in Check, d # c PROVE CheckOK(d)'
  BY <1>2, <1>6, AloneKeeps DEF CheckInv
<1> QED
  BY <1>3, <1>5, <1>6 DEF CheckInv

\* What was built for a newer version is shown.
LEMMA OpenDialogKeeps == ASSUME CheckInv, OpenDialog PROVE CheckInv'
<1>1. VarsOK
  BY DEF CheckInv
<1>2. PICK c \in Check : c = building
  BY <1>1 DEF OpenDialog, free, VarsOK
<1>3. PICK shown \in Offer : ends(c, shown)
  BY <1>2 DEF OpenDialog, Offer
<1>4. UNCHANGED <<releases, current, reply>> /\ building' = NoCheck /\ c # NoCheck
  BY CheckAssumption DEF OpenDialog
<1>5. VarsOK'
  BY <1>1, <1>3, <1>4 DEF ends, VarsOK, Offer
<1>6. step'[c] = "ended" /\ told'[c] = shown /\ CheckOK(c)
  BY <1>1, <1>3 DEF ends, VarsOK, CheckInv
<1>7. isUsable(reply[c])' /\ isNewTag(reply[c].tag)'
  <2>1. isUsable(reply[c]) /\ isNewTag(reply[c].tag)
    BY <1>2, <1>6 DEF CheckOK
  <2> QED
    BY <1>4, <2>1 DEF isNewTag
<1>8. CheckOK(c)'
  BY <1>4, <1>6, <1>7 DEF CheckOK, Offer
<1>9. ASSUME NEW d \in Check, d # c PROVE CheckOK(d)'
  <2>1. step'[d] = step[d] /\ told'[d] = told[d] /\ d # NoCheck
    BY <1>1, <1>3, <1>9, CheckAssumption DEF ends, VarsOK
  <2> QED
    BY <1>4, <2>1, AloneKeeps DEF CheckInv
<1> QED
  BY <1>5, <1>8, <1>9 DEF CheckInv

\* The new version starts with no check, and is newer than the one before.
LEMMA UpgradeKeeps ==
    ASSUME CheckInv, NEW c \in Check, Upgrade(c)
    PROVE  CheckInv' /\ IsOlder(parse(current), parse(current'))
<1>1. VarsOK /\ CheckOK(c) /\ told[c] \in Offer
  BY DEF CheckInv, Upgrade, Offer
<1>2. isUsable(reply[c]) /\ isNewer(parse(current'), parse(current))
  BY <1>1 DEF CheckOK, isNewTag, Upgrade
<1>3. current' = reply[c].tag
  BY DEF Upgrade
<1>4. current \in Text /\ current' \in Tag /\ current' \in Text
  BY <1>1, <1>2, <1>3, FoundIsText DEF isUsable
<1>5. VarsOK'
  BY <1>1, <1>4 DEF VarsOK, Upgrade, Answer
<1>6. ASSUME NEW d \in Check PROVE CheckOK(d)'
  <2>1. step'[d] = "none" /\ told'[d] = "nothing" /\ reply'[d] = Failure
    BY DEF Upgrade
  <2>2. building' # d
    BY CheckAssumption DEF Upgrade, free
  <2> QED
    BY <2>1, <2>2 DEF CheckOK, Offer, Failure
<1> QED
  BY <1>2, <1>4, <1>5, <1>6, NewerIsNotOlder DEF CheckInv

\* CheckInv is inductive, and only an upgrade changes the version.
LEMMA CheckInvStep ==
    CheckInv /\ [CheckNext]_notifyVars =>
        CheckInv' /\ ((\E c \in Check : Upgrade(c)) => IsOlder(parse(current), parse(current')))
<1> SUFFICES ASSUME CheckInv, [CheckNext]_notifyVars
             PROVE  /\ CheckInv'
                    /\ (\E c \in Check : Upgrade(c)) => IsOlder(parse(current), parse(current'))
  OBVIOUS
<1>1. ASSUME NEW c \in Check, Upgrade(c)
      PROVE  CheckInv' /\ IsOlder(parse(current), parse(current'))
  BY <1>1, UpgradeKeeps
<1>2. ASSUME Publish PROVE CheckInv'
  BY <1>2, PublishKeeps
<1>3. ASSUME PassAssets \/ UNCHANGED notifyVars PROVE CheckInv'
  <2>1. UNCHANGED <<releases, current, step, told, reply, building>>
    BY <1>3 DEF PassAssets, checkVars, notifyVars
  <2>2. VarsOK'
    BY <2>1 DEF CheckInv, VarsOK
  <2>3. ASSUME NEW d \in Check PROVE CheckOK(d)'
    BY <2>1, AloneKeeps DEF CheckInv
  <2> QED
    BY <2>2, <2>3 DEF CheckInv
<1>4. ASSUME OpenDialog PROVE CheckInv'
  BY <1>4, OpenDialogKeeps
<1>5. ASSUME NEW c \in Check, TellNoUpdate(c) \/ BuildDialog(c)
      PROVE  CheckInv'
  BY <1>5, TellNoUpdateKeeps, BuildDialogKeeps
<1>6. ASSUME NEW c \in Check, CheckAndNotify(c) \/ ServerAnswers(c) \/ ServerIsSilent(c)
      PROVE  CheckInv'
  BY <1>6, CheckAndNotifyKeeps, ServerAnswersKeeps, ServerIsSilentKeeps
<1>7. CheckInv'
  BY <1>1, <1>2, <1>3, <1>4, <1>5, <1>6 DEF CheckNext, GuiNext
<1> QED
  BY <1>1, <1>7

-----------------------------------------------------------------------------
\* Whatever the user is offered is published and newer, and the boxes are the
\* ones the caller asked for, for any number of checks and releases.
THEOREM ChecksAreSound == CheckSpec => []CheckInv
<1>1. CheckInit => CheckInv
  BY CheckInvInit
<1>2. CheckInv /\ [CheckNext]_notifyVars => CheckInv'
  BY CheckInvStep
<1> QED
  BY <1>1, <1>2, PTL DEF CheckSpec

\* checkAndNotify() runs the pass of ReleaseInfo.h and nothing else on its
\* variables: the composition implements AssetSelection.
THEOREM ChecksSelect == CheckSpec => SelectionSpec
<1>1. CheckInit => SelectionInit
  BY DEF CheckInit
<1>2. [CheckNext]_notifyVars => [SelectionNext]_selectionVars
  BY SelectionStep
<1> QED
  BY <1>1, <1>2, PTL DEF CheckSpec, SelectionSpec

\* The dialog never passes over a native package of the machine's architecture.
THEOREM DialogOffersOwn == CheckSpec => []OwnMachineWins
<1>1. BestInv => OwnMachineWins
  BY BestIsOwn
<1> QED
  BY <1>1, ChecksSelect, PassIsSound, PTL

\* The states of the checks and of the pass stay in their types.
THEOREM CheckTypes == CheckSpec => []CheckTypeOK
<1>1. CheckInv /\ BestInv => CheckTypeOK
  <2>1. SUFFICES ASSUME CheckInv, BestInv PROVE CheckTypeOK
    OBVIOUS
  <2>2. VarsOK /\ (building # NoCheck => step[building] = "replied")
    BY <2>1 DEF CheckInv, VarsOK, CheckOK
  <2> QED
    BY <2>1, <2>2, BestIsTyped DEF VarsOK, CheckTypeOK
<1> QED
  BY <1>1, ChecksAreSound, ChecksSelect, PassIsSound, PTL

\* What a check shows is true and asked for.
THEOREM ToldStaysTrue == CheckSpec => []ToldIsTrue
<1>1. CheckInv => ToldIsTrue
  <2>1. ASSUME CheckInv, NEW c \in Check PROVE OfferIsPublished(c)
    BY <2>1 DEF CheckInv, CheckOK, IsListed, isUsable, OfferIsPublished, Offer
  <2>2. ASSUME CheckInv, NEW c \in Check PROVE SilenceIsKept(c)
    <3>1. CheckOK(c) /\ VarsOK
      BY <2>2 DEF CheckInv
    <3>2. ASSUME told[c] = "up to date"
          PROVE  isUsable(reply[c]) /\ ~IsOlder(parse(current), parse(reply[c].tag))
      <4>1. isUsable(reply[c]) /\ ~isNewTag(reply[c].tag)
        BY <3>1, <3>2 DEF CheckOK
      <4>2. current \in Text /\ reply[c].tag \in Text
        BY <3>1, <4>1, FoundIsText DEF isUsable, VarsOK
      <4> QED
        BY <4>1, <4>2, OlderIsNewer DEF isNewTag
    <3> QED
      BY <3>1, <3>2 DEF CheckOK, SilenceIsKept, Offer
  <2> QED
    BY <2>1, <2>2 DEF ToldIsTrue
<1> QED
  BY <1>1, ChecksAreSound, PTL

\* By following the dialogs an application only gets newer.
THEOREM OffersAreNewer == CheckSpec => NeverOlder
<1>1. CheckInv /\ [CheckNext]_notifyVars =>
          [(\E c \in Check : Upgrade(c)) => IsOlder(parse(current), parse(current'))]_notifyVars
  BY CheckInvStep
<1> QED
  BY <1>1, ChecksAreSound, PTL DEF CheckSpec, NeverOlder

-----------------------------------------------------------------------------
\* How far a check is from its end.
CheckAhead == [none |-> 3, asked |-> 2, replied |-> 1, lost |-> 0, ended |-> 0]

CheckGoesOn(c) ==
    \/ step'[c] = step[c] /\ told'[c] = told[c]
    \/ CheckAhead[step'[c]] < CheckAhead[step[c]]

\* No check shows two things, however checks overlap and late answers come: what
\* the user was shown stays until the application starts anew, and each check
\* takes three steps at the most.
THEOREM ChecksOnlyGoOn ==
    CheckSpec => [][(\E c \in Check : Upgrade(c)) \/ \A c \in Check : CheckGoesOn(c)]_notifyVars
<1>1. CheckInv /\ [CheckNext]_notifyVars =>
          [(\E c \in Check : Upgrade(c)) \/ \A c \in Check : CheckGoesOn(c)]_notifyVars
  <2> SUFFICES ASSUME CheckInv, CheckNext, ~\E c \in Check : Upgrade(c), NEW c \in Check
               PROVE  CheckGoesOn(c)
    OBVIOUS
  <2>1. /\ step \in [Check -> {"none", "asked", "replied", "lost", "ended"}]
        /\ told \in [Check -> {"nothing", "failed", "up to date", "page", "download"}]
        /\ building \in Check => step[building] = "replied"
        /\ building \in Check \cup {NoCheck}
    BY DEF CheckInv, VarsOK, CheckOK
  <2>2. ASSUME NEW d \in Check, step[d] \in {"none", "replied"}, NEW shown, ends(d, shown)
        PROVE  CheckGoesOn(c)
    <3>1. c = d => step[c] \in {"none", "replied"} /\ step'[c] = "ended"
      BY <2>1, <2>2 DEF ends
    <3>2. c # d => step'[c] = step[c] /\ told'[c] = told[c]
      BY <2>1, <2>2 DEF ends
    <3> QED
      BY <3>1, <3>2 DEF CheckGoesOn, CheckAhead
  <2>3. CASE Publish \/ PassAssets \/ \E d \in Check : BuildDialog(d)
    BY <2>3 DEF Publish, PassAssets, BuildDialog, checkVars, CheckGoesOn
  <2>4. CASE OpenDialog
    <3>1. building \in Check
      BY <2>1, <2>4 DEF OpenDialog, free
    <3> QED
      BY <2>1, <2>2, <2>4, <3>1 DEF OpenDialog
  <2>5. CASE \E d \in Check : TellNoUpdate(d)
    BY <2>2, <2>5 DEF TellNoUpdate
  <2>6. CASE \E d \in Check : CheckAndNotify(d)
    <3>1. PICK d \in Check : CheckAndNotify(d)
      BY <2>6
    <3>2. CASE step' = [step EXCEPT ![d] = "asked"] /\ told' = told
      <4>1. step[d] = "none" /\ (step'[c] = step[c] \/ (c = d /\ step'[c] = "asked"))
        BY <2>1, <3>1, <3>2 DEF CheckAndNotify
      <4> QED
        BY <3>2, <4>1 DEF CheckGoesOn, CheckAhead
    <3> QED
      BY <2>2, <3>1, <3>2 DEF CheckAndNotify
  <2>7. CASE \E d \in Check : ServerAnswers(d) \/ ServerIsSilent(d)
    <3>1. PICK d \in Check, s \in {"replied", "lost"} :
             step[d] = "asked" /\ step' = [step EXCEPT ![d] = s] /\ told' = told
      BY <2>7 DEF ServerAnswers, ServerIsSilent
    <3>2. step'[c] = step[c] \/ (c = d /\ step'[c] = s)
      BY <2>1, <3>1
    <3> QED
      BY <3>1, <3>2 DEF CheckGoesOn, CheckAhead
  <2> QED
    BY <2>3, <2>4, <2>5, <2>6, <2>7 DEF CheckNext, GuiNext
<1> QED
  BY <1>1, ChecksAreSound, PTL DEF CheckSpec
=============================================================================
