------------------------ MODULE PrivilegedHelperProofs ------------------------
(***************************************************************************)
(* Theorems of PrivilegedHelper, for any set of trees, any number of       *)
(* attempts, failures and kills.                                           *)
(*                                                                         *)
(* Course says which steps belong to which verb and that a tree that was   *)
(* copied or unpacked is the one asked for. WayBack says, step by step of  *)
(* a bundle call in which no ignored command failed, where the directory   *)
(* is that the call found.                                                 *)
(***************************************************************************)
EXTENDS PrivilegedHelper, TLAPS

\* Which steps a verb has, and which tree is in place after a copy.
Course ==
    /\ IF helper.pc = "idle" THEN helper.verb = "none" ELSE result = "none"
    /\ helper.verb = "install-bundle" => helper.pc \in BundlePc /\ helper.tree \in Tree
    /\ helper.verb = "install-deb" => helper.pc \in {"dpkg", "bring_up"} /\ helper.tree \in Tree
    /\ helper.verb = "restart" => helper.pc = "restart"
    /\ helper.verb = "none" => helper.pc = "idle"
    /\ helper.pc \in {"bring_up", "cleanup"} => app = helper.tree

\* Once the directory was set aside it is the backup; when there was none to
\* set aside, there was none before.
SetAsideAs == IF helper.had THEN backup = before /\ before # Nothing ELSE before = Nothing

\* Where the directory is that a bundle call found.
WayBack ==
    helper.verb = "install-bundle" /\ faults = 0 =>
        /\ helper.pc \in {"stop", "clear", "set_aside", "bring_up_old"} => app = before
        /\ helper.pc = "set_aside" => backup = Nothing
        /\ helper.pc \in {"stop", "clear", "set_aside"} => ~helper.had
        /\ helper.pc \in {"copy", "copying", "bring_up", "cleanup", "undo", "put_back"} => SetAsideAs
        /\ helper.pc = "copy" => app = Nothing
        /\ helper.pc = "put_back" => app = Nothing /\ helper.had

\* The inductive invariant.
HelperInv == HelperTypeOK /\ Course /\ WayBack

-----------------------------------------------------------------------------
\* bringUp() begins at its first attempt.
LEMMA NoTries == 0 \in 0..(Attempts - 1)
  BY HelperAssumption

\* No call in progress is a state of the helper.
LEMMA IdleIs == Idle \in HelperState /\ Idle.pc = "idle" /\ Idle.verb = "none"
  BY NoTries DEF Idle, HelperState, HelperPc

\* goto() moves pc and nothing else a later step looks at.
LEMMA GotoIs ==
    ASSUME helper \in HelperState, NEW pc \in HelperPc, goto(pc)
    PROVE  /\ helper' \in HelperState
           /\ helper'.pc = pc /\ helper'.verb = helper.verb
           /\ helper'.tree = helper.tree /\ helper'.had = helper.had
  BY NoTries DEF goto, HelperState

\* What a call begins with.
LEMMA CallIs ==
    ASSUME NEW verb \in Verbs, NEW tree \in Tree \cup {Nothing}, NEW pc \in HelperPc,
           Call(verb, tree, pc)
    PROVE  /\ helper' \in HelperState
           /\ helper'.pc = pc /\ helper'.verb = verb /\ helper'.tree = tree /\ ~helper'.had
  BY NoTries DEF Call, Idle, HelperState, HelperPc

\* The invariant holds of a service that was never touched.
LEMMA HelperInvInit == Init => HelperInv
  <1> SUFFICES ASSUME Init PROVE HelperInv
    OBVIOUS
  <1>1. HelperTypeOK
    BY IdleIs, HelperAssumption DEF Init, Dir, HelperTypeOK
  <1>2. Course /\ WayBack
    BY IdleIs DEF Init, Course, WayBack
  <1> QED
    BY <1>1, <1>2 DEF HelperInv

\* Failures are never taken back.
LEMMA FaultsStay ==
    ASSUME HelperTypeOK, [Next]_vars
    PROVE  faults' = faults \/ (faults \in Nat /\ faults' = faults + 1)
  <1>1. faults \in Nat
    BY DEF HelperTypeOK
  <1>2. [Next]_vars => faults' = faults \/ faults' = faults + 1
    BY DEF Next, vars, InstallBundle, InstallDeb, Restart, Call, Commands, Stop, Clear,
           SetAside, Copy, Copied, BringUp, Undo, PutBack, Cleanup, Dpkg, RestartService, Kill,
           fault, noFault, rmBackup, rmApp, start
  <1> QED
    BY <1>1, <1>2

\* Every command keeps the invariant, and so does a kill.
LEMMA HelperInvStep == HelperInv /\ [Next]_vars => HelperInv'
  <1> SUFFICES ASSUME HelperInv, [Next]_vars PROVE HelperInv'
    OBVIOUS
  <1> USE DEF HelperInv
  <1>0. /\ helper \in HelperState /\ app \in Dir /\ backup \in Dir /\ before \in Dir
        /\ unit \in {"active", "stopped"} /\ result \in {"none", "ok", "refused", "killed"}
        /\ faults \in 0..MaxFaults /\ kills \in 0..MaxKills
        /\ Nothing \in Dir /\ Partial \in Dir /\ Tree \subseteq Dir
        /\ MaxFaults \in Nat /\ MaxKills \in Nat /\ Nothing # Partial
    BY HelperAssumption DEF HelperTypeOK, Dir
  <1>1. CASE InstallBundle \/ InstallDeb \/ Restart
    <2>1. PICK verb \in Verbs, tree \in Tree \cup {Nothing}, pc \in {"stop", "dpkg", "restart"} :
             /\ Call(verb, tree, pc)
             /\ \/ verb = "install-bundle" /\ pc = "stop" /\ tree \in Tree
                \/ verb = "install-deb" /\ pc = "dpkg" /\ tree \in Tree
                \/ verb = "restart" /\ pc = "restart"
      BY <1>1 DEF InstallBundle, InstallDeb, Restart, Call
    <2>2. /\ helper' \in HelperState
          /\ helper'.pc = pc /\ helper'.verb = verb /\ helper'.tree = tree /\ ~helper'.had
      BY <2>1, CallIs DEF HelperPc, BundlePc
    <2>3. before' = app /\ result' = "none" /\ UNCHANGED <<app, backup, unit, faults, kills>>
      BY <2>1 DEF Call
    <2>4. HelperTypeOK'
      BY <1>0, <2>2, <2>3 DEF HelperTypeOK
    <2>5. Course' /\ WayBack'
      BY <2>1, <2>2, <2>3 DEF Course, WayBack, SetAsideAs, BundlePc
    <2> QED
      BY <2>4, <2>5
  <1>2. CASE Stop
    <2> USE <1>0, <1>2 DEF Stop, goon, fault, noFault
    <2>1. /\ helper' \in HelperState /\ helper'.pc = "clear"
          /\ helper'.verb = helper.verb /\ helper'.tree = helper.tree /\ helper'.had = helper.had
      BY GotoIs DEF HelperPc, BundlePc
    <2>2. HelperTypeOK'
      BY <2>1 DEF HelperTypeOK
    <2>3. Course'
      BY <2>1 DEF Course, BundlePc
    <2>4. WayBack'
      BY <2>1 DEF WayBack, Course, SetAsideAs, BundlePc
    <2> QED
      BY <2>2, <2>3, <2>4
  <1>3. CASE Clear
    <2> USE <1>0, <1>3 DEF Clear, goon, rmBackup, fault, noFault
    <2>1. /\ helper' \in HelperState /\ helper'.pc = "set_aside"
          /\ helper'.verb = helper.verb /\ helper'.tree = helper.tree /\ helper'.had = helper.had
      BY GotoIs DEF HelperPc, BundlePc
    <2>2. HelperTypeOK'
      BY <2>1 DEF HelperTypeOK
    <2>3. Course'
      BY <2>1 DEF Course, BundlePc
    <2>4. WayBack'
      BY <2>1 DEF WayBack, Course, SetAsideAs, BundlePc
    <2> QED
      BY <2>2, <2>3, <2>4
  <1>4. CASE SetAside
    <2> USE <1>0, <1>4 DEF SetAside, goon, noFault
    <2>1. /\ helper' \in HelperState /\ helper'.verb = helper.verb /\ helper'.tree = helper.tree
          /\ \/ /\ app = Nothing /\ helper'.pc = "copy" /\ helper'.had = helper.had
                /\ UNCHANGED <<app, backup>>
             \/ /\ app # Nothing /\ helper'.pc = "copy" /\ helper'.had
                /\ app' = Nothing /\ backup' = moved(app, backup)
             \/ /\ app # Nothing /\ helper'.pc = "bring_up_old" /\ UNCHANGED <<app, backup>>
      <3>1. CASE app = Nothing /\ goto("copy") /\ UNCHANGED <<app, backup>>
        BY <3>1, GotoIs DEF HelperPc, BundlePc
      <3>2. CASE /\ app # Nothing /\ app' = Nothing /\ backup' = moved(app, backup)
                 /\ helper' = [helper EXCEPT !.pc = "copy", !.had = TRUE]
        BY <3>2 DEF HelperState, HelperPc, BundlePc
      <3>3. CASE app # Nothing /\ goto("bring_up_old") /\ UNCHANGED <<app, backup>>
        BY <3>3, GotoIs DEF HelperPc, BundlePc
      <3> QED
        BY <3>1, <3>2, <3>3 DEF setAsideFailed
    <2>2. UNCHANGED <<before, result, unit, faults, kills>>
      BY DEF setAsideFailed
    <2>3. HelperTypeOK'
      BY <2>1, <2>2 DEF HelperTypeOK, moved
    <2>4. Course'
      BY <2>1, <2>2 DEF Course, BundlePc
    <2>5. WayBack'
      BY <2>1, <2>2 DEF WayBack, Course, SetAsideAs, moved
    <2> QED
      BY <2>3, <2>4, <2>5
  <1>5. CASE Copy
    <2> USE <1>0, <1>5 DEF Copy, goon, noFault
    <2>1. /\ helper' \in HelperState /\ helper'.pc = "copying"
          /\ helper'.verb = helper.verb /\ helper'.tree = helper.tree /\ helper'.had = helper.had
      BY GotoIs DEF HelperPc, BundlePc
    <2>2. HelperTypeOK'
      BY <2>1 DEF HelperTypeOK
    <2>3. Course'
      BY <2>1 DEF Course, BundlePc
    <2>4. WayBack'
      BY <2>1 DEF WayBack, Course, SetAsideAs, BundlePc
    <2> QED
      BY <2>2, <2>3, <2>4
  <1>6. CASE Copied
    <2> USE <1>0, <1>6 DEF Copied, goon, noFault
    <2>1. /\ helper' \in HelperState
          /\ helper'.verb = helper.verb /\ helper'.tree = helper.tree /\ helper'.had = helper.had
          /\ \/ helper'.pc = "bring_up" /\ app' = helper.tree
             \/ helper'.pc = "undo" /\ app' = app
      BY GotoIs DEF HelperPc, BundlePc
    <2>2. helper.tree \in Dir
      BY DEF HelperState, Dir
    <2>3. HelperTypeOK'
      BY <2>1, <2>2 DEF HelperTypeOK
    <2>4. Course'
      BY <2>1 DEF Course, BundlePc
    <2>5. WayBack'
      BY <2>1 DEF WayBack, Course, SetAsideAs, BundlePc
    <2> QED
      BY <2>3, <2>4, <2>5
  <1>7. CASE BringUp
    <2> USE <1>0, <1>7
    <2>1. PICK up \in BOOLEAN :
             /\ start(up)
             /\ \/ /\ ~up /\ again
                   /\ helper' = [helper EXCEPT !.tries = count] /\ goon
                \/ /\ up \/ ~again
                   /\ IF helper.pc = "bring_up_old" THEN exit("refused")
                      ELSE IF helper.verb = "install-deb" THEN exit(IF up THEN "ok" ELSE "refused")
                      ELSE goto(IF up THEN "cleanup" ELSE "undo") /\ goon
      BY DEF BringUp
    <2>2. /\ unit' \in {"active", "stopped"} /\ faults' \in 0..MaxFaults
          /\ faults' = 0 => faults = 0
          /\ UNCHANGED <<app, backup, before, kills>>
          /\ helper.pc \in {"bring_up", "bring_up_old"}
      BY <2>1 DEF BringUp, start, fault, noFault, goon, exit
    <2>3. \/ /\ helper' \in HelperState /\ helper'.pc = helper.pc /\ result' = result
             /\ helper'.verb = helper.verb /\ helper'.tree = helper.tree /\ helper'.had = helper.had
          \/ helper' = Idle /\ result' \in {"ok", "refused"}
          \/ /\ helper.pc = "bring_up" /\ helper.verb # "install-deb"
             /\ helper' \in HelperState /\ helper'.pc \in {"cleanup", "undo"} /\ result' = result
             /\ helper'.verb = helper.verb /\ helper'.tree = helper.tree /\ helper'.had = helper.had
      <3>1. CASE again /\ helper' = [helper EXCEPT !.tries = count] /\ goon
        <4>1. count \in 0..(Attempts - 1)
          BY <3>1, HelperAssumption DEF again, count, HelperState
        <4> QED
          BY <3>1, <4>1 DEF HelperState, goon
      <3>2. CASE helper.pc = "bring_up_old" /\ exit("refused")
        BY <3>2 DEF exit
      <3>3. CASE exit("ok") \/ exit("refused")
        BY <3>3 DEF exit
      <3>4. CASE /\ helper.pc # "bring_up_old" /\ helper.verb # "install-deb"
                 /\ goto("cleanup") \/ goto("undo")
                 /\ goon
        BY <2>2, <3>4, <2>1, GotoIs DEF HelperPc, BundlePc, goon
      <3> QED
        BY <2>1, <3>1, <3>2, <3>3, <3>4
    <2>4. HelperTypeOK'
      BY <2>2, <2>3, IdleIs DEF HelperTypeOK
    <2>5. Course'
      BY <2>2, <2>3, IdleIs DEF Course, BundlePc
    <2>6. WayBack'
      BY <2>2, <2>3, IdleIs DEF WayBack, Course, SetAsideAs, BundlePc
    <2> QED
      BY <2>4, <2>5, <2>6
  <1>8. CASE Undo
    <2> USE <1>0, <1>8 DEF Undo, goon, rmApp, fault, noFault
    <2>1. /\ helper' \in HelperState /\ helper'.pc = IF helper.had THEN "put_back" ELSE "bring_up_old"
          /\ helper'.verb = helper.verb /\ helper'.tree = helper.tree /\ helper'.had = helper.had
      BY GotoIs DEF HelperPc, BundlePc
    <2>2. HelperTypeOK'
      BY <2>1 DEF HelperTypeOK
    <2>3. Course'
      BY <2>1 DEF Course, BundlePc
    <2>4. WayBack'
      BY <2>1 DEF WayBack, Course, SetAsideAs, BundlePc
    <2> QED
      BY <2>2, <2>3, <2>4
  <1>9. CASE PutBack
    <2> USE <1>0, <1>9 DEF PutBack, goon, fault, noFault
    <2>1. /\ helper' \in HelperState /\ helper'.pc = "bring_up_old"
          /\ helper'.verb = helper.verb /\ helper'.tree = helper.tree /\ helper'.had = helper.had
      BY GotoIs DEF HelperPc, BundlePc
    <2>2. HelperTypeOK'
      BY <2>1 DEF HelperTypeOK, moved
    <2>3. Course'
      BY <2>1 DEF Course, BundlePc
    <2>4. WayBack'
      BY <2>1 DEF WayBack, Course, SetAsideAs, moved
    <2> QED
      BY <2>2, <2>3, <2>4
  <1>10. CASE Cleanup \/ RestartService \/ Kill
    <2>1. /\ helper' = Idle /\ result' \in {"ok", "refused", "killed"} /\ before' = before
          /\ app' \in {app, Partial} /\ backup' \in {backup, Partial, Nothing}
          /\ unit' \in {unit, "active", "stopped"}
          /\ faults' \in 0..MaxFaults /\ kills' \in 0..MaxKills
      BY <1>0, <1>10 DEF Cleanup, RestartService, Kill, rmBackup, start, exit, fault, noFault
    <2>2. HelperTypeOK'
      BY <1>0, <2>1, IdleIs DEF HelperTypeOK
    <2>3. Course' /\ WayBack'
      BY <2>1, IdleIs DEF Course, WayBack
    <2> QED
      BY <2>2, <2>3
  <1>11. CASE Dpkg
    <2> USE <1>0, <1>11
    <2>1. /\ \/ helper' = Idle /\ result' = "refused"
             \/ /\ helper' \in HelperState /\ helper'.pc = "bring_up" /\ app' = helper.tree
                /\ helper'.verb = helper.verb /\ helper'.tree = helper.tree
                /\ result' = result
          /\ app' \in {app, helper.tree, Partial} /\ unit' \in {unit, "active", "stopped"}
          /\ UNCHANGED <<backup, before, faults, kills>>
          /\ helper.pc = "dpkg"
      BY GotoIs DEF Dpkg, dpkgFailed, exit, goon, noFault, HelperPc, BundlePc
    <2>2. helper.tree \in Dir
      BY DEF HelperState, Dir
    <2>3. HelperTypeOK'
      BY <2>1, <2>2, IdleIs DEF HelperTypeOK
    <2>4. Course'
      BY <2>1, IdleIs DEF Course, BundlePc
    <2>5. WayBack'
      BY <2>1, IdleIs DEF WayBack, Course, BundlePc
    <2> QED
      BY <2>3, <2>4, <2>5
  <1>12. CASE UNCHANGED vars
    BY <1>12 DEF vars, HelperTypeOK, Course, WayBack, SetAsideAs
  <1> QED
    BY <1>1, <1>2, <1>3, <1>4, <1>5, <1>6, <1>7, <1>8, <1>9, <1>10, <1>11, <1>12 DEF Next, Commands

\* The inductive invariant of the helper.
THEOREM HelperInvariant == Spec => []HelperInv
  BY HelperInvInit, HelperInvStep, PTL DEF Spec

\* Type correctness of the helper: bringUp() never counts past its attempts,
\* and every directory is a tree, a remainder or nothing.
THEOREM HelperTypeCorrect == Spec => []HelperTypeOK
  <1>1. HelperInv => HelperTypeOK
    BY DEF HelperInv
  <1> QED
    BY <1>1, HelperInvariant, PTL

\* Exit code 0 of an installation means the tree that was asked for, however
\* many of the commands whose result is ignored have failed.
THEOREM ExitZeroMeansInstalled == Spec => ExitZeroIsInstalled
  <1>1. HelperInv /\ [Next]_vars =>
            [helper.pc # "idle" /\ helper.verb # "restart" /\ result' = "ok"
                => app' = helper.tree]_vars
    <2> SUFFICES ASSUME HelperInv, Next, helper.pc # "idle", helper.verb # "restart", result' = "ok"
                 PROVE  app' = helper.tree
      OBVIOUS
    <2>1. result = "none" /\ helper.pc # "restart"
      BY HelperAssumption DEF HelperInv, Course, HelperTypeOK, HelperState, BundlePc
    <2>2. BringUp \/ Cleanup
      <3> USE <2>1 DEF goon, exit
      <3>1. ~(InstallBundle \/ InstallDeb \/ Restart \/ RestartService)
        BY DEF InstallBundle, InstallDeb, Restart, Call, RestartService
      <3>2. ~(Stop \/ Clear \/ Copy \/ Copied \/ Undo \/ PutBack)
        BY DEF Stop, Clear, Copy, Copied, Undo, PutBack
      <3>3. ~(SetAside \/ Dpkg \/ Kill)
        BY DEF SetAside, setAsideFailed, Dpkg, dpkgFailed, Kill
      <3> QED
        BY <3>1, <3>2, <3>3 DEF Next, Commands
    <2>3. helper.pc \in {"bring_up", "cleanup"} => app = helper.tree
      BY DEF HelperInv, Course
    <2>4. CASE BringUp
      BY <2>1, <2>3, <2>4 DEF BringUp, exit, goon
    <2>5. CASE Cleanup
      BY <2>3, <2>5 DEF Cleanup
    <2> QED
      BY <2>2, <2>4, <2>5
  <1> QED
    BY <1>1, HelperInvariant, PTL DEF Spec, ExitZeroIsInstalled

\* A failure that has happened stays counted.
LEMMA NoFaultBefore ==
    ASSUME HelperInv, Next, faults' = 0
    PROVE  faults = 0
  <1>1. faults \in Nat
    BY DEF HelperInv, HelperTypeOK
  <1>2. faults' = faults \/ faults' = faults + 1
    BY FaultsStay DEF HelperInv
  <1> QED
    BY <1>1, <1>2

\* A bundle that is refused leaves the directory as the call found it, and the
\* unit up if that directory works.
THEOREM RefusalIsHarmless == Spec => RefusalRestores
  <1>1. HelperInv /\ [Next]_vars =>
            [helper.verb = "install-bundle" /\ result' = "refused" /\ faults' = 0
                => app' = before /\ (before \in Works => unit' = "active")]_vars
    <2> SUFFICES ASSUME HelperInv, Next, helper.verb = "install-bundle", result' = "refused",
                        faults' = 0
                 PROVE  app' = before /\ (before \in Works => unit' = "active")
      OBVIOUS
    <2>1. result = "none" /\ helper.pc \in BundlePc /\ faults = 0
      BY NoFaultBefore DEF HelperInv, Course, BundlePc
    <2>2. BringUp
      BY <2>1 DEF Next, Commands, InstallBundle, InstallDeb, Restart, Call, Stop, Clear, SetAside,
         setAsideFailed, Copy, Copied, Undo, PutBack, Cleanup, Dpkg, RestartService, Kill,
         goon, exit, BundlePc
    <2>3. helper.pc = "bring_up_old" /\ app' = app
      BY <2>1, <2>2 DEF BringUp, exit, goon
    <2>4. app = before
      BY <2>1, <2>3 DEF HelperInv, WayBack
    <2>5. PICK up \in BOOLEAN : start(up)
      BY <2>2 DEF BringUp
    <2>6. app \in Works => up
      BY <2>1, <2>5 DEF start, fault
    <2> QED
      BY <2>3, <2>4, <2>5, <2>6 DEF start
  <1> QED
    BY <1>1, HelperInvariant, PTL DEF Spec, RefusalRestores

\* Through every step of a bundle call, a kill included, the directory it
\* replaces is whole, in its place or as the backup, until the new one is
\* accepted.
THEOREM PreviousStays == Spec => PreviousIsKept
  <1>1. HelperInv /\ [Next]_vars =>
            [helper.verb = "install-bundle" /\ before # Nothing /\ faults' = 0
                => \/ before \in {app', backup'}
                   \/ helper.pc = "cleanup" /\ app' = helper.tree]_vars
    <2> SUFFICES ASSUME HelperInv, Next, helper.verb = "install-bundle", before # Nothing,
                        faults' = 0
                 PROVE  \/ before \in {app', backup'}
                        \/ helper.pc = "cleanup" /\ app' = helper.tree
      OBVIOUS
    <2>1. helper.pc \in BundlePc /\ faults = 0
      BY NoFaultBefore DEF HelperInv, Course
    <2>2. \/ helper.pc \in {"stop", "clear", "set_aside", "bring_up_old"} /\ app = before
          \/ /\ helper.pc \in {"copy", "copying", "bring_up", "cleanup", "undo", "put_back"}
             /\ helper.had /\ backup = before
      BY <2>1 DEF HelperInv, WayBack, SetAsideAs, BundlePc
    <2>3. CASE Stop \/ Clear \/ Copy \/ Copied \/ BringUp \/ Undo
      BY <2>2, <2>3 DEF Stop, Clear, Copy, Copied, BringUp, Undo
    <2>4. CASE SetAside \/ PutBack
      BY <2>1, <2>2, <2>4 DEF SetAside, setAsideFailed, PutBack, moved, fault, HelperInv, WayBack,
         goto, exit, goon
    <2>5. CASE Cleanup \/ Kill
      BY <2>1, <2>2, <2>5 DEF Cleanup, Kill, HelperInv, Course, BundlePc
    <2> QED
      BY <2>1, <2>3, <2>4, <2>5 DEF Next, Commands, InstallBundle, InstallDeb, Restart, Call, Dpkg,
         RestartService, BundlePc
  <1> QED
    BY <1>1, HelperInvariant, PTL DEF Spec, PreviousIsKept

-----------------------------------------------------------------------------
(* The backup, in calls of which none was killed and no command failed that *)
(* had no reason to.                                                       *)

\* There is a backup only while a bundle call has set a directory aside.
BackupIsHeld ==
    /\ helper.had => helper.verb = "install-bundle"
    /\ kills = 0 /\ faults = 0 /\ (helper.pc = "bring_up_old" \/ ~helper.had) => backup = Nothing

\* Kills are never taken back.
LEMMA KillsStay ==
    ASSUME HelperTypeOK, [Next]_vars
    PROVE  kills' = kills \/ (kills \in Nat /\ kills' = kills + 1)
  <1>1. kills \in Nat
    BY DEF HelperTypeOK
  <1>2. kills' = kills \/ kills' = kills + 1
    BY DEF Next, vars, InstallBundle, InstallDeb, Restart, Call, Commands, Stop, Clear,
           SetAside, Copy, Copied, BringUp, Undo, PutBack, Cleanup, Dpkg, RestartService, Kill,
           goon, exit, setAsideFailed, dpkgFailed
  <1> QED
    BY <1>1, <1>2

\* The backup goes before the call that made it ends.
LEMMA BackupStep ==
    ASSUME HelperInv, BackupIsHeld, [Next]_vars
    PROVE  BackupIsHeld'
  <1>1. (kills' = 0 => kills = 0) /\ (faults' = 0 => faults = 0)
    BY KillsStay, FaultsStay DEF HelperInv
  <1>2. /\ helper \in HelperState /\ kills \in Nat
        /\ Idle.had = FALSE
    BY DEF HelperInv, HelperTypeOK, Idle
  <1>3. helper.pc \in BundlePc \ {"bring_up"} => helper.verb = "install-bundle"
    BY HelperAssumption, <1>2 DEF HelperInv, Course, HelperState, BundlePc
  <1>4. helper.pc = "set_aside" /\ faults = 0 => ~helper.had
    BY <1>3 DEF HelperInv, WayBack, BundlePc
  <1>5. CASE \E pc \in HelperPc : /\ goto(pc)
                                  /\ pc = "bring_up_old" /\ faults' = 0 => ~helper.had \/ backup' = Nothing
                                  /\ backup' = backup \/ (faults' = 0 => backup' = Nothing)
    <2> PICK pc \in HelperPc : /\ goto(pc)
                               /\ pc = "bring_up_old" /\ faults' = 0 => ~helper.had \/ backup' = Nothing
                               /\ backup' = backup \/ (faults' = 0 => backup' = Nothing)
      BY <1>5
    <2> QED
      BY <1>1, <1>2, GotoIs DEF BackupIsHeld
  <1>6. CASE /\ helper' = Idle
             /\ kills' = 0 /\ faults' = 0 => backup' = Nothing
    BY <1>2, <1>6 DEF BackupIsHeld
  <1>7. CASE InstallBundle \/ InstallDeb \/ Restart
    BY <1>7 DEF InstallBundle, InstallDeb, Restart, Call, Idle, BackupIsHeld, HelperInv, Course
  <1>8. CASE Stop \/ Copy \/ Copied \/ Undo
    BY <1>5, <1>8 DEF Stop, Copy, Copied, Undo, HelperPc, BundlePc
  <1>9. CASE Clear
    BY <1>5, <1>9 DEF Clear, rmBackup, fault, HelperPc, BundlePc, HelperInv, HelperTypeOK
  <1>10. CASE SetAside
    <2>1. CASE helper' = [helper EXCEPT !.pc = "copy", !.had = TRUE]
      <3>1. helper'.had /\ helper'.verb = helper.verb /\ helper'.pc = "copy"
        BY <1>2, <2>1 DEF HelperState
      <3> QED
        BY <1>3, <1>10, <3>1 DEF SetAside, BackupIsHeld, BundlePc
    <2>2. CASE UNCHANGED <<backup, faults>> /\ (goto("copy") \/ goto("bring_up_old"))
      BY <1>4, <1>5, <1>10, <2>2 DEF SetAside, HelperPc, BundlePc
    <2> QED
      BY <1>10, <2>1, <2>2 DEF SetAside, setAsideFailed, noFault
  <1>11. CASE BringUp
    <2>1. CASE helper' = [helper EXCEPT !.tries = count]
      <3>1. helper'.had = helper.had /\ helper'.verb = helper.verb /\ helper'.pc = helper.pc
        BY <1>2, <2>1 DEF HelperState
      <3> QED
        BY <1>1, <1>11, <3>1 DEF BringUp, BackupIsHeld
    <2>2. CASE helper' = Idle /\ (helper.pc = "bring_up_old" \/ helper.verb = "install-deb")
      BY <1>1, <1>6, <1>11, <2>2 DEF BringUp, BackupIsHeld
    <2>3. CASE goto("cleanup") \/ goto("undo")
      BY <1>5, <1>11, <2>3 DEF BringUp, HelperPc, BundlePc
    <2> QED
      BY <1>11, <2>1, <2>2, <2>3 DEF BringUp, exit
  <1>12. CASE PutBack
    BY <1>5, <1>12 DEF PutBack, fault, HelperPc, BundlePc, HelperInv, HelperTypeOK
  <1>13. CASE Cleanup
    BY <1>6, <1>13 DEF Cleanup, rmBackup, fault, exit, HelperInv, HelperTypeOK
  <1>14. CASE Dpkg \/ RestartService
    <2>1. helper.verb # "install-bundle" /\ ~helper.had
      BY <1>14 DEF Dpkg, RestartService, HelperInv, Course, BundlePc, BackupIsHeld
    <2>2. backup' = backup /\ (goto("bring_up") \/ helper' = Idle)
      BY <1>14 DEF Dpkg, RestartService, dpkgFailed, exit
    <2> QED
      BY <1>1, <1>5, <1>6, <2>1, <2>2 DEF BackupIsHeld, HelperPc, BundlePc
  <1>15. CASE Kill
    BY <1>2, <1>6, <1>15 DEF Kill
  <1>16. CASE UNCHANGED vars
    BY <1>16 DEF vars, BackupIsHeld
  <1> QED
    BY <1>7, <1>8, <1>9, <1>10, <1>11, <1>12, <1>13, <1>14, <1>15, <1>16 DEF Next, Commands

\* Calls that are not killed leave no backup behind, so that the next one can set
\* the current directory aside.
THEOREM BackupsGo == Spec => []NoStaleBackup
  <1>1. Init => BackupIsHeld
    BY DEF Init, Idle, BackupIsHeld
  <1>2. HelperInv /\ BackupIsHeld /\ [Next]_vars => BackupIsHeld'
    BY BackupStep
  <1>3. HelperInv /\ BackupIsHeld => NoStaleBackup
    BY DEF HelperInv, Course, BackupIsHeld, NoStaleBackup
  <1> QED
    BY <1>1, <1>2, <1>3, HelperInvariant, PTL DEF Spec

-----------------------------------------------------------------------------
(* Why a call ends.                                                        *)

\* How many commands are at most ahead, counting all turns of bringUp() as one.
Ahead == [idle |-> 0,
          restart |-> 1, bring_up_old |-> 1, cleanup |-> 1, put_back |-> 2, undo |-> 3,
          bring_up |-> 4, copying |-> 5, dpkg |-> 5, copy |-> 6, set_aside |-> 7, clear |-> 8,
          stop |-> 9]

Nearer == \/ Ahead[helper'.pc] < Ahead[helper.pc]
          \/ helper'.pc = helper.pc /\ helper.tries < helper'.tries

\* A command that goes on, or leaves.
LEMMA GotoIsNearer ==
    ASSUME helper \in HelperState, NEW pc \in HelperPc, goto(pc), Ahead[pc] < Ahead[helper.pc]
    PROVE  Nearer
  BY GotoIs DEF Nearer

LEMMA ExitIsNearer ==
    ASSUME helper \in HelperState, helper.pc # "idle", helper' = Idle
    PROVE  Nearer
  <1>1. Ahead[helper.pc] > 0
    BY DEF Ahead, HelperState, HelperPc, BundlePc
  <1> QED
    BY <1>1 DEF Nearer, Idle, Ahead

\* No call runs a command twice or goes back to an earlier one. Only a start is
\* repeated, as often as HelperTypeOK allows: a call whose commands end, ends.
THEOREM CallsOnlyGoOn == Spec => [][helper.pc # "idle" => Nearer]_vars
  <1>1. HelperInv /\ [Next]_vars => [helper.pc # "idle" => Nearer]_vars
    <2> SUFFICES ASSUME HelperInv, Next, helper.pc # "idle" PROVE Nearer
      OBVIOUS
    <2>1. helper \in HelperState /\ helper.tries \in Nat
      BY HelperAssumption DEF HelperInv, HelperTypeOK, HelperState
    <2>2. CASE InstallBundle \/ InstallDeb \/ Restart
      BY <2>2 DEF InstallBundle, InstallDeb, Restart, Call
    <2>3. CASE Stop \/ Clear \/ Copy \/ Copied \/ Undo \/ PutBack
      BY <2>1, <2>3, GotoIsNearer
         DEF Stop, Clear, Copy, Copied, Undo, PutBack, Ahead, HelperPc, BundlePc
    <2>4. CASE SetAside
      <3>1. CASE helper' = [helper EXCEPT !.pc = "copy", !.had = TRUE]
        BY <2>1, <2>4, <3>1 DEF SetAside, Nearer, Ahead, HelperState
      <3>2. CASE goto("copy") \/ goto("bring_up_old")
        BY <2>1, <2>4, <3>2, GotoIsNearer DEF SetAside, Ahead, HelperPc, BundlePc
      <3> QED
        BY <2>4, <3>1, <3>2 DEF SetAside, setAsideFailed
    <2>5. CASE BringUp
      <3>1. CASE helper' = [helper EXCEPT !.tries = count]
        BY <2>1, <3>1 DEF Nearer, count, HelperState
      <3>2. CASE helper' = Idle
        BY <2>1, <3>2, ExitIsNearer
      <3>3. CASE helper.pc = "bring_up" /\ (goto("cleanup") \/ goto("undo"))
        BY <2>1, <3>3, GotoIsNearer DEF Ahead, HelperPc, BundlePc
      <3> QED
        BY <2>5, <3>1, <3>2, <3>3 DEF BringUp, exit
    <2>6. CASE Cleanup \/ RestartService \/ Kill
      BY <2>1, <2>6, ExitIsNearer DEF Cleanup, RestartService, Kill, exit
    <2>7. CASE Dpkg
      BY <2>1, <2>7, GotoIsNearer, ExitIsNearer DEF Dpkg, dpkgFailed, exit, Ahead, HelperPc, BundlePc
    <2> QED
      BY <2>2, <2>3, <2>4, <2>5, <2>6, <2>7 DEF Next, Commands
  <1> QED
    BY <1>1, HelperInvariant, PTL DEF Spec
=============================================================================
