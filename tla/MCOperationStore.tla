-------------------------- MODULE MCOperationStore --------------------------
(***************************************************************************)
(* OperationStore for TLC.                                                 *)
(***************************************************************************)
EXTENDS OperationStore, TLC

\* One text stands for every detail a caller passes.
OneDetail == {"progress"}

\* The ids are interchangeable (safety runs only).
Symmetry == Permutations(Id)
=============================================================================
