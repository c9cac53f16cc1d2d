----------------------------- MODULE MCMLStore -----------------------------
(***************************************************************************)
(* Small instances of MLStore for TLC.                                     *)
(***************************************************************************)
EXTENDS MLStore, TLC

\* Threads and tasks are interchangeable in every safety property.
Symmetry == Permutations(Threads) \cup Permutations(Tasks)
=============================================================================
