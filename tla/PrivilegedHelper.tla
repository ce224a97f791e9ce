-------------------------- MODULE PrivilegedHelper --------------------------
(***************************************************************************)
(* The verbs --install-deb, --install-bundle and --restart of the setuid   *)
(* helper (agent/privileged-helper.cpp), one action per command they run,  *)
(* on one service: its directory /opt/<service>, the backup beside it and  *)
(* its unit. The agent runs one operation at a time, so one helper at a    *)
(* time; the helper is a child of the agent and is killed with its unit.   *)
(*                                                                         *)
(* UpdateAgent sees a whole call as one outcome (HelperInstalls,           *)
(* HelperRestarts); the detached verbs are in SelfUpdate.                  *)
(***************************************************************************)
EXTENDS Naturals

CONSTANTS
    Tree,            \* complete application trees, one per version
    Works,           \* the trees whose service starts and stays up
    Nothing,         \* no directory
    Partial,         \* a directory that is no complete tree
    Verbs,           \* the verbs this service is reached with
    Attempts,        \* bringUp(): how often the restart is tried
    MaxFaults,       \* bound: how often a command fails that had no reason to
    MaxKills         \* bound: how often the helper is killed

ASSUME HelperAssumption ==
    /\ Works \subseteq Tree
    /\ Nothing \notin Tree /\ Partial \notin Tree /\ Nothing # Partial
    /\ Verbs \subseteq {"install-deb", "install-bundle", "restart"}
    /\ Attempts \in Nat \ {0}
    /\ MaxFaults \in Nat /\ MaxKills \in Nat

VARIABLES
    app,      \* /opt/<service>
    backup,   \* /opt/<service>.morfupdate.bak
    unit,     \* what systemctl is-active says
    helper,   \* the call in progress
    before,   \* history: /opt/<service> when the last call began
    result,   \* how the last call ended
    faults,   \* history: failures of rm, of the mv of a rollback, of systemctl
    kills     \* history: how often a helper was killed

vars == <<app, backup, unit, helper, before, result, faults, kills>>

Dir == Tree \cup {Nothing, Partial}

Idle == [pc |-> "idle", verb |-> "none", tree |-> Nothing, had |-> FALSE, tries |-> 0]

goto(pc) == helper' = [helper EXCEPT !.pc = pc, !.tries = 0]

\* return 0, or refuse()
exit(code) == helper' = Idle /\ result' = code /\ UNCHANGED <<before, kills>>

goon == UNCHANGED <<before, result, kills>>

\* A failed mv of the current directory: the service is started again first.
setAsideFailedDown == exit("refused")                       \* mutant
setAsideFailed == goto("bring_up_old") /\ goon

\* A failed dpkg is refused, without a rollback.
dpkgIgnored == goto("bring_up") /\ goon                     \* mutant
dpkgFailed == exit("refused")

-----------------------------------------------------------------------------
(* Commands.                                                               *)

fault == faults < MaxFaults /\ faults' = faults + 1
noFault == UNCHANGED faults

\* rm -rf, whose result is ignored everywhere.
rmBackupNot == UNCHANGED backup /\ noFault                  \* mutant
rmBackup == \/ backup' = Nothing /\ noFault
            \/ backup # Nothing /\ backup' \in {backup, Partial} /\ fault

rmAppNot == UNCHANGED app /\ noFault                        \* mutant
rmApp == \/ app' = Nothing /\ noFault
         \/ app # Nothing /\ app' \in {app, Partial} /\ fault

\* mv from to: a rename when nothing is in the way; mv moves into a directory
\* that is.
moved(from, to) == IF to = Nothing THEN from ELSE Partial

\* systemctl restart and is-active: a tree that works stays up, unless
\* systemctl fails; one that does not, or is not complete, may still be active
\* when systemctl looks.
start(up) ==
    /\ unit' = IF up THEN "active" ELSE "stopped"
    /\ IF app \in Works /\ ~up THEN fault ELSE noFault
    /\ up => app # Nothing

\* The attempts of bringUp(): the loop counts one up and asks for another.
countNothing == helper.tries                                \* mutant
count == helper.tries + 1

againOnceMore == count <= Attempts                          \* mutant
again == count < Attempts

-----------------------------------------------------------------------------
Init ==
    /\ app \in Tree
    /\ backup = Nothing
    /\ unit = IF app \in Works THEN "active" ELSE "stopped"
    /\ helper = Idle
    /\ before = app
    /\ result = "none"
    /\ faults = 0 /\ kills = 0

\* main() has validated the arguments and become root; the engine has checked
\* the source: the package, or the unpacked bundle with its VERSION.
Call(verb, tree, pc) ==
    /\ helper.pc = "idle" /\ verb \in Verbs
    /\ helper' = [Idle EXCEPT !.pc = pc, !.verb = verb, !.tree = tree]
    /\ before' = app
    /\ result' = "none"
    /\ UNCHANGED <<app, backup, unit, faults, kills>>

InstallBundle == \E tree \in Tree : Call("install-bundle", tree, "stop")
InstallDeb    == \E tree \in Tree : Call("install-deb", tree, "dpkg")
Restart       == Call("restart", Nothing, "restart")

\* systemctl stop, whose result is ignored.
Stop ==
    /\ helper.pc = "stop"
    /\ \/ unit' = "stopped" /\ noFault
       \/ UNCHANGED unit /\ fault
    /\ goto("clear")
    /\ goon /\ UNCHANGED <<app, backup>>

\* rm -rf of the backup an earlier call may have left.
Clear ==
    /\ helper.pc = "clear"
    /\ rmBackup
    /\ goto("set_aside")
    /\ goon /\ UNCHANGED <<app, unit>>

\* hadPrevious, and mv of the current directory to the backup.
SetAside ==
    /\ helper.pc = "set_aside"
    /\ UNCHANGED unit /\ noFault
    /\ \/ /\ app = Nothing
          /\ goto("copy") /\ goon
          /\ UNCHANGED <<app, backup>>
       \/ /\ app # Nothing
          /\ app' = Nothing /\ backup' = moved(app, backup)
          /\ helper' = [helper EXCEPT !.pc = "copy", !.had = TRUE] /\ goon
       \/ /\ app # Nothing
          /\ setAsideFailed
          /\ UNCHANGED <<app, backup>>

\* cp -aT begins, and ends; the chown after it changes no contents.
Copy ==
    /\ helper.pc = "copy"
    /\ app' = Partial
    /\ goto("copying")
    /\ goon /\ noFault /\ UNCHANGED <<backup, unit>>

Copied ==
    /\ helper.pc = "copying"
    /\ \/ app' = helper.tree /\ goto("bring_up")
       \/ UNCHANGED app /\ goto("undo")
    /\ goon /\ noFault /\ UNCHANGED <<backup, unit>>

\* One turn of bringUp(): systemctl restart, then is-active. What follows
\* depends on the caller: a new tree or package is accepted or not, a tree that
\* was put back is refused either way.
BringUp ==
    /\ helper.pc \in {"bring_up", "bring_up_old"}
    /\ \E up \in BOOLEAN :
          /\ start(up)
          /\ \/ /\ ~up /\ again
                /\ helper' = [helper EXCEPT !.tries = count] /\ goon
             \/ /\ up \/ ~again
                /\ IF helper.pc = "bring_up_old" THEN exit("refused")
                   ELSE IF helper.verb = "install-deb" THEN exit(IF up THEN "ok" ELSE "refused")
                   ELSE goto(IF up THEN "cleanup" ELSE "undo") /\ goon
    /\ UNCHANGED <<app, backup>>

\* rm -rf of what the bundle left behind, then mv of the backup.
Undo ==
    /\ helper.pc = "undo"
    /\ rmApp
    /\ goto(IF helper.had THEN "put_back" ELSE "bring_up_old")
    /\ goon /\ UNCHANGED <<backup, unit>>

PutBack ==
    /\ helper.pc = "put_back"
    /\ \/ app' = moved(backup, app) /\ backup' = Nothing /\ noFault
       \/ UNCHANGED <<app, backup>> /\ fault
    /\ goto("bring_up_old")
    /\ goon /\ UNCHANGED unit

\* The new tree is accepted: rm -rf of the backup, return 0.
Cleanup ==
    /\ helper.pc = "cleanup"
    /\ rmBackup
    /\ exit("ok")
    /\ UNCHANGED <<app, unit>>

\* dpkg --install: it fails before it touches anything or after, or it
\* succeeds and its maintainer scripts may or may not have started the unit.
Dpkg ==
    /\ helper.pc = "dpkg"
    /\ \/ /\ dpkgFailed /\ UNCHANGED <<app, unit>>
       \/ /\ dpkgFailed /\ unit' \in {unit, "stopped"} /\ app' \in {helper.tree, Partial}
       \/ /\ app' = helper.tree /\ unit' \in {"active", "stopped"}
          /\ goto("bring_up") /\ goon
    /\ noFault /\ UNCHANGED backup

\* restartService(): one restart, one is-active.
RestartService ==
    /\ helper.pc = "restart"
    /\ \E up \in BOOLEAN : start(up) /\ exit(IF up THEN "ok" ELSE "refused")
    /\ UNCHANGED <<app, backup>>

\* The unit of the agent ends, or the machine goes down: the helper and its
\* command are gone at once, a removal or dpkg perhaps half done. After a reboot
\* the enabled unit is started.
Kill ==
    /\ kills < MaxKills
    /\ helper.pc # "idle"
    /\ app' \in {app} \cup IF helper.pc \in {"undo", "dpkg"} THEN {Partial} ELSE {}
    /\ backup' \in {backup} \cup IF helper.pc \in {"clear", "cleanup"} /\ backup # Nothing
                                 THEN {Partial} ELSE {}
    /\ unit' \in {unit, "stopped"} \cup IF app' \in Works THEN {"active"} ELSE {}
    /\ helper' = Idle
    /\ result' = "killed"
    /\ kills' = kills + 1
    /\ UNCHANGED <<before, faults>>

Commands == \/ Stop \/ Clear \/ SetAside \/ Copy \/ Copied \/ BringUp \/ Undo \/ PutBack
            \/ Cleanup \/ Dpkg \/ RestartService

Next == InstallBundle \/ InstallDeb \/ Restart \/ Commands \/ Kill

Spec == Init /\ [][Next]_vars

\* The helper is a process of its own, and the commands it waits for end.
FairSpec == Spec /\ WF_vars(Commands)

-----------------------------------------------------------------------------
BundlePc == {"stop", "clear", "set_aside", "copy", "copying", "bring_up", "undo", "put_back",
             "bring_up_old", "cleanup"}

HelperPc == BundlePc \cup {"idle", "dpkg", "restart"}

HelperState == [pc: HelperPc, verb: Verbs \cup {"none"}, tree: Tree \cup {Nothing},
                had: BOOLEAN, tries: 0..(Attempts - 1)]

HelperTypeOK ==
    /\ app \in Dir /\ backup \in Dir /\ before \in Dir
    /\ unit \in {"active", "stopped"}
    /\ helper \in HelperState
    /\ result \in {"none", "ok", "refused", "killed"}
    /\ faults \in 0..MaxFaults /\ kills \in 0..MaxKills

\* A bundle that is refused leaves the service as the call found it: the same
\* directory, and the unit up if that directory works. Up to the failures
\* whose results the helper ignores; mv of the current directory, cp and the new
\* service may fail.
RefusalRestores ==
    [][helper.verb = "install-bundle" /\ result' = "refused" /\ faults' = 0 =>
          /\ app' = before
          /\ before \in Works => unit' = "active"
      ]_vars

\* Through every step of a bundle call, a kill included, the directory it
\* replaces is still there as a whole, in its place or as the backup, unless the
\* new one is in place and has been accepted.
PreviousIsKept ==
    [][helper.verb = "install-bundle" /\ before # Nothing /\ faults' = 0 =>
          \/ before \in {app', backup'}
          \/ helper.pc = "cleanup" /\ app' = helper.tree
      ]_vars

\* No backup is left behind by calls that were not killed, so the next one can
\* set the current directory aside.
NoStaleBackup ==
    helper.pc = "idle" /\ kills = 0 /\ faults = 0 => backup = Nothing

\* Exit code 0 of an installation means that the directory is the one that was
\* asked for, whichever of the ignored commands failed on the way: the engine
\* goes on to restarting and health_check on this answer alone.
ExitZeroIsInstalled ==
    [][helper.pc # "idle" /\ helper.verb # "restart" /\ result' = "ok" => app' = helper.tree]_vars

\* Every call ends: the caller waits for it without a timeout (run(), runProcess()).
EveryCallEnds == helper.pc # "idle" ~> helper.pc = "idle"

-----------------------------------------------------------------------------
(* What the comments say and the code does not do.                         *)

\* "echange atomique du repertoire applicatif sous /opt, avec sauvegarde pour
\* rollback" (agent/privileged-helper.cpp): through any interruption there is a
\* complete application, in its place or as the backup.
OneTreeSurvives == app \in Tree \/ backup \in Tree
=============================================================================
