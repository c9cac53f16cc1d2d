---------------------------- MODULE MCTraceback -----------------------------
(***************************************************************************)
(* Small instances of Traceback for TLC.                                   *)
(***************************************************************************)
EXTENDS Traceback, TLC

CONSTANTS Views, Models, Lib

\* Calls through the library from two modules of the application, with the
\* library further out, none below the caller, and nothing but the library.
MCChains ==
  { <<>>,
    << <<Lib, 1>> >>,
    << <<Lib, 1>>, <<Views, 1>>, <<Lib, 2>>, <<Views, 2>> >>,
    << <<Lib, 2>>, <<Models, 1>>, <<Views, 1>> >>,
    << <<Models, 2>>, <<Models, 1>>, <<Views, 2>> >> }

Symmetry == Permutations(Threads)
=============================================================================
