--------------------------- MODULE MCIngestQueue ---------------------------
(***************************************************************************)
(* Small instances of IngestQueue for TLC.                                 *)
(***************************************************************************)
EXTENDS IngestQueue, TLC

\* Threads, workers and items are interchangeable in every safety property.
Symmetry ==
  Permutations(Threads) \cup Permutations(Workers) \cup Permutations(Items)
=============================================================================
