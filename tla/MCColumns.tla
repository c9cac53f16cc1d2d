----------------------------- MODULE MCColumns ------------------------------
(***************************************************************************)
(* Small instances of Columns for TLC.                                     *)
(***************************************************************************)
EXTENDS Columns, TLC

CONSTANTS Film, Serial  \* a model, and one that inherits from it

Sizes == Film :> 2 @@ Serial :> 4

Symmetry == Permutations(Threads)
=============================================================================
