----------------------------- MODULE MCTracking -----------------------------
(***************************************************************************)
(* Small instances of Tracking for TLC.                                    *)
(***************************************************************************)
EXTENDS Tracking, TLC

Symmetry == Permutations(Strands) \cup Permutations(Contexts) \cup Permutations(Queries)
=============================================================================
