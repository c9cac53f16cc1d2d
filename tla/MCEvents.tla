------------------------------ MODULE MCEvents ------------------------------
(***************************************************************************)
(* Small instances of Events for TLC: Ingest wraps nothing, two domains    *)
(* share a member.                                                         *)
(***************************************************************************)
EXTENDS Events, TLC

CONSTANTS relations, other, render, execute

MCOrder == <<Ingest, relations, other>>
MCWraps == Ingest :> <<>> @@ relations :> <<execute>> @@ other :> <<render, execute>>

Symmetry == Permutations(Threads) \cup Permutations(Apps)
=============================================================================
