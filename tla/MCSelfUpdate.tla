---------------------------- MODULE MCSelfUpdate ----------------------------
(***************************************************************************)
(* SelfUpdate for TLC.                                                     *)
(***************************************************************************)
EXTENDS SelfUpdate, TLC

\* The ids are interchangeable (safety runs only).
Symmetry == Permutations(Id)
=============================================================================
