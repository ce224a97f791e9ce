--------------------------- MODULE MCUpdateAgent ---------------------------
(***************************************************************************)
(* UpdateAgent for TLC.                                                    *)
(***************************************************************************)
EXTENDS UpdateAgent, TLC

\* The ids are interchangeable (safety runs only).
Symmetry == Permutations(Id)
=============================================================================
