--------------------------- MODULE DurableJournal ---------------------------
(***************************************************************************)
(* What operations.json promises to whoever reads it across crashes,       *)
(* restarts and failed writes, without saying how: the abstract            *)
(* specification that OperationStore implements.                           *)
(***************************************************************************)
EXTENDS OperationState

CONSTANT Id         \* the operation ids that can appear

VARIABLE log        \* the state of each id in the file, "absent" before it

Live(s) == s \in InProgress

Init == log = [id \in Id |-> "absent"]

\* One atomic replacement of the file: an entry first appears as queued, none
\* goes back or leaves a final state, and at most one operation of the new
\* contents is in progress.
Write ==
    \E new \in [Id -> UpdateState \cup {"absent"}] :
        /\ \A id \in Id : IF log[id] = "absent"
                          THEN new[id] \in {"absent", "queued"}
                          ELSE Advances(log[id], new[id])
        /\ \A i, j \in Id : Live(new[i]) /\ Live(new[j]) => i = j
        /\ log' = new

Next == Write

Spec == Init /\ [][Next]_log
=============================================================================
