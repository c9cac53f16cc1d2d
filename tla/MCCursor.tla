------------------------------ MODULE MCCursor ------------------------------
(***************************************************************************)
(* Small instances of Cursor for TLC.                                      *)
(***************************************************************************)
EXTENDS Cursor
=============================================================================
