----------------------------- MODULE ReleaseCheck -----------------------------
(***************************************************************************)
(* The library in an application: checkAndNotify() and the dialog          *)
(* (src/UpdateDialog.cpp), UpdateChecker, and GitHubReleaseSource. The     *)
(* application checks at its start (silent) and from its menu, so that     *)
(* checks overlap; each has a request of its own, without a time limit.    *)
(* The dialog runs the pass of AssetSelection over the files of the        *)
(* release while it is built.                                              *)
(***************************************************************************)
EXTENDS AssetSelection, VersionOrder

CONSTANTS
    Check,        \* calls of checkAndNotify()
    Silent,       \* those with silentIfUpToDate: the ones at the start
    Release,      \* bound: the releases that may be published
    Tag,          \* texts of tags and of the installed version
    NoCheck,
    MaxReleases   \* bound: releases of the repository

ASSUME CheckAssumption ==
    /\ Tag \subseteq Text
    /\ Silent \subseteq Check /\ NoCheck \notin Check
    /\ Release \subseteq [tag: Tag, draft: BOOLEAN, prerelease: BOOLEAN]
    /\ MaxReleases \in Nat

VARIABLES
    releases,     \* of the repository, newest first, as GitHub lists them
    current,      \* config.currentVersion: the version that runs
    include,      \* config.includePrereleases
    addressed,    \* config.owner and config.repo are set
    step,         \* per check: how far it is
    reply,        \* per check: the answer on its way
    told,         \* per check: what the user was shown
    building      \* the check whose dialog is being built

checkVars == <<releases, current, include, addressed, step, reply, told, building>>
notifyVars == <<checkVars, selectionVars>>

\* An answer: an error of the network or of GitHub, a body without a release
\* that can be used, or a release.
Failure == [kind |-> "failure"]
Found(r) == [kind |-> "found", tag |-> r.tag]

CheckInit ==
    /\ SelectionInit
    /\ releases = <<>>
    /\ current \in Tag /\ include \in BOOLEAN /\ addressed \in BOOLEAN
    /\ step = [c \in Check |-> "none"]
    /\ reply = [c \in Check |-> Failure]
    /\ told = [c \in Check |-> "nothing"]
    /\ building = NoCheck

-----------------------------------------------------------------------------
(* GitHub (external).                                                      *)

Publish ==
    /\ Len(releases) < MaxReleases
    /\ \E r \in Release : releases' = <<r>> \o releases
    /\ UNCHANGED <<current, include, addressed, step, reply, told, building, selectionVars>>

\* "/latest exclut deja brouillons et pre-releases cote GitHub"; handleReply()
\* passes over the drafts of the list.
listed(r) == ~r.draft /\ (include \/ ~r.prerelease)

\* The newest one the endpoint gives, whatever its version.
isFirst(i) == listed(releases[i]) /\ \A j \in 1..(i - 1) : ~listed(releases[j])

\* The answer is what the repository holds when the server answers.
ServerAnswers(c) ==
    /\ step[c] = "asked"
    /\ step' = [step EXCEPT ![c] = "replied"]
    /\ \/ \E i \in DOMAIN releases :
             isFirst(i) /\ reply' = [reply EXCEPT ![c] = Found(releases[i])]
       \/ reply' = [reply EXCEPT ![c] = Failure]
    /\ UNCHANGED <<releases, current, include, addressed, told, building, selectionVars>>

\* No answer ever comes, and nothing ends the wait.
ServerIsSilent(c) ==
    /\ step[c] = "asked"
    /\ step' = [step EXCEPT ![c] = "lost"]
    /\ UNCHANGED <<releases, current, include, addressed, reply, told, building, selectionVars>>

-----------------------------------------------------------------------------
(* The GUI thread of the application.                                      *)

free == building = NoCheck

\* Mutant: the two branches of silentIfUpToDate are swapped.
boxSwapped(c, text) == IF c \in Silent THEN text ELSE "nothing"

\* A message box, unless the check is a silent one.
box(c, text) == IF c \in Silent THEN "nothing" ELSE text

ends(c, shown) ==
    /\ step' = [step EXCEPT ![c] = "ended"]
    /\ told' = [told EXCEPT ![c] = shown]

\* checkAndNotify(): a checker of its own. Without owner and repo it fails
\* before it returns.
CheckAndNotify(c) ==
    /\ free /\ step[c] = "none"
    /\ IF addressed
       THEN step' = [step EXCEPT ![c] = "asked"] /\ UNCHANGED told
       ELSE ends(c, box(c, "failed"))
    /\ UNCHANGED <<releases, current, include, addressed, reply, building, selectionVars>>

isUsable(a) == a.kind = "found" /\ parse(a.tag).valid

isUpdate(a) == isNewer(parse(a.tag), parse(current))

\* Mutant: a release that cannot be used is dropped without a signal.
TellUpToDate(c) ==
    /\ free /\ step[c] = "replied"
    /\ isUsable(reply[c]) /\ ~isUpdate(reply[c]) /\ ends(c, box(c, "up to date"))
    /\ UNCHANGED <<releases, current, include, addressed, reply, building, selectionVars>>

\* checkFailed, or upToDate.
TellNoUpdate(c) ==
    /\ free /\ step[c] = "replied"
    /\ \/ ~isUsable(reply[c]) /\ ends(c, box(c, "failed"))
       \/ isUsable(reply[c]) /\ ~isUpdate(reply[c]) /\ ends(c, box(c, "up to date"))
    /\ UNCHANGED <<releases, current, include, addressed, reply, building, selectionVars>>

\* updateAvailable: the dialog is built, with the files the answer lists.
BuildDialog(c) ==
    /\ free /\ step[c] = "replied"
    /\ isUsable(reply[c]) /\ isUpdate(reply[c])
    /\ \E list \in Lists : Call(list)
    /\ building' = c
    /\ UNCHANGED <<releases, current, include, addressed, step, reply, told>>

PassAssets == ~free /\ Consider /\ UNCHANGED checkVars

\* open(): with a button for the file that was found, or with the page only.
OpenDialog ==
    /\ ~free /\ Return
    /\ ends(building, IF best # 0 THEN "download" ELSE "page")
    /\ building' = NoCheck
    /\ UNCHANGED <<releases, current, include, addressed, reply>>

\* The user installs what a dialog offers and starts the application again.
Upgrade(c) ==
    /\ free /\ told[c] \in {"download", "page"}
    /\ current' = reply[c].tag
    /\ step' = [d \in Check |-> "none"]
    /\ reply' = [d \in Check |-> Failure]
    /\ told' = [d \in Check |-> "nothing"]
    /\ UNCHANGED <<releases, include, addressed, building, selectionVars>>

-----------------------------------------------------------------------------
GuiNext == PassAssets \/ OpenDialog \/ \E c \in Check : TellNoUpdate(c) \/ BuildDialog(c)

CheckNext ==
    \/ Publish \/ GuiNext
    \/ \E c \in Check : CheckAndNotify(c) \/ ServerAnswers(c) \/ ServerIsSilent(c) \/ Upgrade(c)

CheckSpec == CheckInit /\ [][CheckNext]_notifyVars

\* The event loop of the application runs. Servers and users owe nothing.
FairCheckSpec == CheckSpec /\ WF_notifyVars(GuiNext)

-----------------------------------------------------------------------------
CheckTypeOK ==
    /\ SelectionTypeOK
    /\ current \in Tag
    /\ step \in [Check -> {"none", "asked", "replied", "lost", "ended"}]
    /\ told \in [Check -> {"nothing", "failed", "up to date", "page", "download"}]
    /\ building \in Check \cup {NoCheck}
    /\ building # NoCheck => step[building] = "replied"

\* The order the documentation describes, as one list of fields: a pre-release
\* comes before the stable version of the same number.
Key(v) == <<v.major, v.minor, v.patch, IF v.pre = 0 THEN 1 ELSE 0, v.pre>>
IsOlder(v, w) ==
    \E i \in 1..5 : Key(v)[i] < Key(w)[i] /\ \A j \in 1..(i - 1) : Key(v)[j] = Key(w)[j]

\* By following the dialogs an application only ever gets newer, whatever is
\* published in whatever order and however late an answer arrives; so no offer
\* is repeated by the version it installs.
NeverOlder ==
    [][(\E c \in Check : Upgrade(c)) => IsOlder(parse(current), parse(current'))]_notifyVars

\* An offer is a listed release and no draft.
OfferIsPublished(c) ==
    told[c] \in {"download", "page"} =>
        \E i \in DOMAIN releases : releases[i].tag = reply[c].tag /\ ~releases[i].draft

\* A check at the start shows a dialog or nothing. One from the menu that has
\* ended has shown something; that all is well only when a version was found and
\* the one that runs is not older.
SilenceIsKept(c) ==
    step[c] = "ended" =>
        /\ c \in Silent => told[c] \in {"nothing", "download", "page"}
        /\ c \notin Silent => told[c] # "nothing"
        /\ told[c] = "up to date" => isUsable(reply[c]) /\ ~IsOlder(parse(current), parse(reply[c].tag))

\* What a check shows is true, and no more than its caller asked for, whatever
\* other checks show before it or are answered meanwhile.
ToldIsTrue == \A c \in Check : OfferIsPublished(c) /\ SilenceIsKept(c)

\* An answer that has arrived is dealt with, also while another check waits for
\* a server that never answers.
AnswerIsTold == \A c \in Check : step[c] = "replied" ~> step[c] # "replied"
=============================================================================
