-------------------------- MODULE MCCategoryModels --------------------------
(***************************************************************************)
(* Small instances of CategoryModels for TLC.                              *)
(***************************************************************************)
EXTENDS CategoryModels

\* Hash values, configurations and streams are interchangeable.
Symmetry == Permutations(Hashes) \cup Permutations(Confs) \cup Permutations(Streams)
=============================================================================
