--------------------------- MODULE OperationState ---------------------------
(***************************************************************************)
(* The state contract of an update operation: which states exist, which    *)
(* are final, which moves are legal, and how the successor of a            *)
(* self-update reads the outcome off its own version.                      *)
(*   include/morfupdate/UpdateOperation.h, src/UpdateOperation.cpp         *)
(* Constant-level: every other module of the project builds on it.         *)
(***************************************************************************)
EXTENDS Naturals

\* The four states nothing leaves (isFinal).
Final == {"succeeded", "rejected", "failed", "rolled_back"}

\* The states of an operation that is still in progress.
InProgress == {"queued", "downloading", "verifying", "installing", "restarting",
               "health_check", "rollback_prepared", "delegated"}

UpdateState == InProgress \cup Final

isFinal(s) == s \in Final

\* The explicit moves of the switch: an ordinary update, the shortcut of a
\* restart, and the two-stage succession of a self-update.
Edge == {<<"queued", "downloading">>,
         <<"queued", "restarting">>,
         <<"downloading", "verifying">>,
         <<"verifying", "installing">>,
         <<"verifying", "rollback_prepared">>,
         <<"installing", "restarting">>,
         <<"restarting", "health_check">>,
         <<"health_check", "succeeded">>,
         <<"rollback_prepared", "delegated">>,
         <<"rollback_prepared", "rolled_back">>,
         <<"delegated", "succeeded">>,
         <<"delegated", "rolled_back">>}

\* Mutant: the early return on a final state is forgotten.
canTransitionFromFinal(from, to) ==
    to \in {"rejected", "failed"} \/ <<from, to>> \in Edge

canTransition(from, to) ==
    /\ ~isFinal(from)
    /\ to \in {"rejected", "failed"} \/ <<from, to>> \in Edge

\* Mutant: the two versions are compared the wrong way round.
reconcileSwapped(from, to, healthy, runningVersion) ==
    IF healthy /\ runningVersion = from THEN "succeeded"
    ELSE IF healthy /\ runningVersion = to THEN "rolled_back"
    ELSE "failed"

\* The verdict of the successor: the version it runs decides.
reconcileSelfUpdate(from, to, healthy, runningVersion) ==
    IF healthy /\ runningVersion = to THEN "succeeded"
    ELSE IF healthy /\ runningVersion = from THEN "rolled_back"
    ELSE "failed"

\* How far an operation is. Every legal move climbs (proved as
\* TransitionClimbs in OperationStoreProofs), so no operation can loop.
Stage(s) ==
    CASE s = "absent"                              -> 0
      [] s = "queued"                              -> 1
      [] s = "downloading"                         -> 2
      [] s = "verifying"                           -> 3
      [] s \in {"installing", "rollback_prepared"} -> 4
      [] s \in {"restarting", "delegated"}         -> 5
      [] s = "health_check"                        -> 6
      [] OTHER                                     -> 7

\* What may become of an entry over any number of moves: it stays as it is, or
\* it is not final yet and climbs.
Advances(old, new) ==
    \/ new = old
    \/ ~isFinal(old) /\ new \in UpdateState /\ Stage(old) < Stage(new)
=============================================================================
